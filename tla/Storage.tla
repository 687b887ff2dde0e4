------------------------------- MODULE Storage -------------------------------
(* The modules around what a write leaves on the disk: the durable file, the *)
(* write journal, the resumption from it and the production state.  One of  *)
(* them is at work in a behaviour, the subject; the variables it has not are *)
(* Off.                                                                     *)
EXTENDS Naturals
CONSTANTS
    Writer, Replacing, Chunks, Before, OldFile, NoFile, DirectoryOpens,
    FileCrashes,                                        \* of AF
    HeaderLength, MaxUnits, JournalCrashes, EntryFlushed,   \* of WJ
    Bits, ChipSize, PageSize, Blocks, Contents, Patches, AnyLoss,
    MaxAttempts,                                        \* of RD
    Run, Unit, NoUID, Revision, Time, MaxEntries, MaxBytes, LineBytes,
    StationCrashes, MaxDamage, CreateRaces, NoLog, NoAnchor, NoRun  \* of PS

VARIABLES
    subject, target, entries, temp, written, flushed, pc, crashes, file, survivors,
    begun, finished, acknowledged, before, patch, mem, marks, todo,
    losing, moved, phase, attempts, log, logs, anchor, anchors, entry,
    creates, loaded, passed, clean, damage
Off == 0

AF == INSTANCE AtomicFile WITH MaxCrashes <- FileCrashes
WJ == INSTANCE WriteJournal WITH MaxCrashes <- JournalCrashes
RD == INSTANCE ResumeDecision
PS == INSTANCE ProdState WITH MaxCrashes <- StationCrashes

ASSUME StorageAssumptions ==
    /\ AF!FileAssumption /\ WJ!JournalAssumption /\ PS!StateAssumption
    /\ RD!ChipAssumption /\ RD!GeometryAssumption /\ RD!ResumeAssumption

-----------------------------------------------------------------------------
notFile == <<file, survivors, begun, finished, acknowledged, before, patch, mem, marks,
    todo, losing, moved, phase, attempts, log, logs, anchor, anchors, entry,
    creates, loaded, passed, clean, damage>>
notJournal == <<target, entries, temp, written, flushed, before, patch, mem, marks, todo,
    losing, moved, phase, attempts, log, logs, anchor, anchors, entry,
    creates, loaded, passed, clean, damage>>
notResume == <<target, entries, temp, written, flushed, pc, crashes, file, survivors,
    begun, finished, acknowledged, log, logs, anchor, anchors, entry,
    creates, loaded, passed, clean, damage>>
notProd == <<target, entries, temp, written, flushed, file, survivors, begun, finished,
    acknowledged, before, patch, mem, marks, todo, losing, moved, phase,
    attempts>>

Init ==
    \/ /\ subject = "file" /\ AF!Init
       /\ file = Off /\ survivors = Off /\ begun = Off /\ finished = Off
       /\ acknowledged = Off /\ before = Off /\ patch = Off /\ mem = Off
       /\ marks = Off /\ todo = Off /\ losing = Off /\ moved = Off
       /\ phase = Off /\ attempts = Off /\ log = Off /\ logs = Off
       /\ anchor = Off /\ anchors = Off /\ entry = Off /\ creates = Off
       /\ loaded = Off /\ passed = Off /\ clean = Off /\ damage = Off
    \/ /\ subject = "journal" /\ WJ!Init
       /\ target = Off /\ entries = Off /\ temp = Off /\ written = Off
       /\ flushed = Off /\ before = Off /\ patch = Off /\ mem = Off
       /\ marks = Off /\ todo = Off /\ losing = Off /\ moved = Off
       /\ phase = Off /\ attempts = Off /\ log = Off /\ logs = Off
       /\ anchor = Off /\ anchors = Off /\ entry = Off /\ creates = Off
       /\ loaded = Off /\ passed = Off /\ clean = Off /\ damage = Off
    \/ /\ subject = "resume" /\ RD!Init
       /\ target = Off /\ entries = Off /\ temp = Off /\ written = Off
       /\ flushed = Off /\ pc = Off /\ crashes = Off /\ file = Off
       /\ survivors = Off /\ begun = Off /\ finished = Off
       /\ acknowledged = Off /\ log = Off /\ logs = Off /\ anchor = Off
       /\ anchors = Off /\ entry = Off /\ creates = Off /\ loaded = Off
       /\ passed = Off /\ clean = Off /\ damage = Off
    \/ /\ subject = "production" /\ PS!Init
       /\ target = Off /\ entries = Off /\ temp = Off /\ written = Off
       /\ flushed = Off /\ file = Off /\ survivors = Off /\ begun = Off
       /\ finished = Off /\ acknowledged = Off /\ before = Off /\ patch = Off
       /\ mem = Off /\ marks = Off /\ todo = Off /\ losing = Off
       /\ moved = Off /\ phase = Off /\ attempts = Off

Next ==
    /\ UNCHANGED subject
    /\ \/ subject = "file" /\ AF!Next /\ UNCHANGED notFile
       \/ subject = "journal" /\ WJ!Next /\ UNCHANGED notJournal
       \/ subject = "resume" /\ RD!Next /\ UNCHANGED notResume
       \/ subject = "production" /\ PS!Next /\ UNCHANGED notProd

vars == <<subject, target, entries, temp, written, flushed, pc, crashes, file,
    survivors, begun, finished, acknowledged, before, patch, mem, marks,
    todo, losing, moved, phase, attempts, log, logs, anchor, anchors, entry,
    creates, loaded, passed, clean, damage>>

Spec == Init /\ [][Next]_vars

-----------------------------------------------------------------------------
(* A write that answered true survives every power cut, and one that failed *)
(* leaves no temporary file (AtomicWriteDurable, prodevidence.pas:669-783). *)
FileIsKept ==
    subject = "file" => AF!TypeOK /\ AF!SuccessSurvives /\ AF!NothingLeftBehind

(* Concurrent writes of one name implement an atomic register; the other    *)
(* subjects leave it alone.                                                 *)
Named(value, else) == IF subject = "file" THEN value ELSE else
Reg == INSTANCE Register WITH
        Value     <- Writer \cup {OldFile},
        Nothing   <- NoFile,
        Exclusive <- Writer \ Replacing,
        value     <- Named(AF!Content(target), NoFile),
        may       <- Named({AF!Held(f) : f \in entries}, {NoFile}),
        answered  <- Named({w \in Writer : pc[w] = "succeeded"}, {})
IsRegister == Reg!RSpec

(* A journal that was begun reads back; every acknowledged mark is loaded,   *)
(* torn lines and power cuts or not, and what is loaded was finished, in    *)
(* that order (writejournal.pas:264-286, 646-667).                          *)
JournalIsHistory ==
    subject = "journal" =>
        /\ WJ!TypeOK /\ WJ!HeaderSurvives
        /\ WJ!AcknowledgedMarksSurvive /\ WJ!MarksAreHistory

(* Doing what DecideResume leaves, however often it is interrupted, leaves   *)
(* on the part what the whole plan would have (writejournal.pas:507-593).   *)
ResumeFinishesTheJob == subject = "resume" => RD!ResumeFinishesTheJob

(* A production state that loads holds every unit reported as PASS          *)
(* (prodstate.pas:536-606).                                                 *)
PassedIsRecorded == subject = "production" => PS!PassedIsRecorded

(* What loads is a lawful history, and a station that met no failure is not  *)
(* locked out by the number of its entries (prodstate.pas:284-450, 548-563).  *)
(* By their length it can be: nothing keeps the file within the size of      *)
(* line 318.                                                                *)
StateIsLawful ==
    subject = "production" => PS!TypeOK /\ PS!LoadedIsLawful /\ PS!CleanLoads
=============================================================================
