------------------------------ MODULE ProdState ------------------------------
(***************************************************************************)
(* The durable production state of prodstate.pas, as an authenticated        *)
(* production run of cli.pas uses it: a chained log of the units that        *)
(* passed, and beside it an anchor that names the log's end.  A run loads    *)
(* the log when its job is admitted and again when its unit has passed,      *)
(* appends a line, and reports PASS once the line and the anchor are safe.   *)
(* Several runs may be under way on one station, every write may fail, and   *)
(* the power may go at any moment.                                         *)
(*                                                                         *)
(* A MAC stands for what it was computed from: that of a line, for the       *)
(* entries up to and including it; the anchor, for all of them.  Run ids are  *)
(* unique.  While a log is open for appending nobody else can open it to     *)
(* write (fmShareDenyWrite).  The anchor is written as AtomicFile shows.    *)
(***************************************************************************)
EXTENDS Naturals, Sequences, SequencesExt

CONSTANTS
    Run,        \* the production runs, one unit each
    Unit,       \* the unique ids of the chips, NoUID among them
    NoUID,      \* a chip without one: 'none'
    Revision,   \* the revisions of the job
    Time,       \* what the station's clock may show
    MaxEntries, \* PRODSTATE_MAX_ENTRIES
    MaxBytes,   \* PRODSTATE_MAX_BYTES
    LineBytes,  \* how long a line is; of what it holds, the unit's id decides here
    MaxCrashes, MaxDamage,
    CreateRaces,    \* may two runs be between the look for a file and opening it?
    NoLog, NoAnchor, NoRun

VARIABLES
    log,        \* the log as processes see it: [lines, tail], or NoLog
    logs,       \* what a power cut may leave of it
    anchor,     \* the entries the anchor was computed from, or NoAnchor
    anchors,    \* what a power cut may leave of it
    pc,         \* where each run is
    entry,      \* what each run is to record
    creates,    \* the runs about to create the file
    loaded,     \* the entries each run loaded before it appends
    passed,     \* history: the entries reported as PASS
    clean,      \* history: no failure, power cut, damage or overlap so far
    crashes, damage

vars == <<log, logs, anchor, anchors, pc, entry, creates, loaded, passed,
          clean, crashes, damage>>

Entry == [run : Run, uid : Unit, revision : Revision, utc : Time]
Lines == [seq : Nat, body : Entry, mac : Seq(Entry)]
Logs  == [lines : Seq(Lines), tail : BOOLEAN]

StateAssumption ==
    /\ Revision \subseteq Nat /\ Time \subseteq Nat /\ NoUID \in Unit
    /\ MaxEntries \in Nat /\ MaxCrashes \in Nat /\ MaxDamage \in Nat
    /\ MaxBytes \in Nat /\ LineBytes \in [Unit -> Nat]
    /\ CreateRaces \in BOOLEAN
    /\ NoLog \notin Logs /\ NoAnchor \notin Seq(Entry) /\ NoRun \notin Run

NoEntry == [run |-> NoRun, uid |-> NoUID, revision |-> 0, utc |-> 0]

Line(before, e) == [seq |-> Len(before) + 1, body |-> e, mac |-> Append(before, e)]
File(lines, tail) == [lines |-> lines, tail |-> tail]

(* The entries of a log, whatever the chain says.                          *)
Bodies(l) == [i \in DOMAIN l.lines |-> l.lines[i].body]

(* Every line is in its place, and its MAC is that of all up to it.         *)
Chained(l) ==
    \A i \in DOMAIN l.lines :
        /\ l.lines[i].seq = i
        /\ l.lines[i].mac = SubSeq(Bodies(l), 1, i)

(* Mutant: a chain that verifies needs no anchor.                          *)
AnchorUnread(l, a) == TRUE

AnchorAgrees(l, a) == IF l.lines = << >> THEN a = NoAnchor ELSE a = Bodies(l)

(* The file is read when it is not too long.                               *)
FileSize(l) == FoldSeq(LAMBDA line, size : LineBytes[line.body.uid] + size, 0, l.lines)
Readable(l) == FileSize(l) <= MaxBytes

(* LoadProductionStateEx: no log and no anchor is a new station.            *)
Loads(l, a) ==
    IF l = NoLog THEN a = NoAnchor
    ELSE /\ Readable(l)
         /\ ~l.tail
         /\ Len(l.lines) <= MaxEntries
         /\ Chained(l)
         /\ AnchorAgrees(l, a)

Entries(l) == IF l = NoLog THEN << >> ELSE Bodies(l)

(* CheckJobFreshness: no later revision was recorded, and no later time.     *)
Fresh(entries, e) ==
    \A i \in DOMAIN entries :
        entries[i].revision <= e.revision /\ entries[i].utc <= e.utc

(* CheckProductionAdmission: nor the run, nor the unit.                     *)
Admissible(entries, e) ==
    /\ Fresh(entries, e)
    /\ \A i \in DOMAIN entries :
           /\ entries[i].run # e.run
           /\ e.uid # NoUID => entries[i].uid # e.uid

-----------------------------------------------------------------------------
Places == {"idle", "running", "record", "open", "write", "flush", "install", "sync",
           "passed", "failed"}
Goto(r, place) == pc' = [pc EXCEPT ![r] = place]

Init ==
    /\ log = NoLog /\ logs = {NoLog}
    /\ anchor = NoAnchor /\ anchors = {NoAnchor}
    /\ pc = [r \in Run |-> "idle"]
    /\ entry = [r \in Run |-> NoEntry]
    /\ loaded = [r \in Run |-> << >>]
    /\ passed = {} /\ clean = TRUE /\ creates = {}
    /\ crashes = 0 /\ damage = 0

(* A run that has ended keeps nothing.                                     *)
Fail(r) == /\ Goto(r, "failed")
           /\ entry' = [entry EXCEPT ![r] = NoEntry]
           /\ loaded' = [loaded EXCEPT ![r] = << >>]

(* A job is admitted: the state loads, and its revision and the time now,    *)
(* which is the time that will be recorded, are not stale.                 *)
Admit(r, rev, now) ==
    /\ pc[r] = "idle"
    /\ LET e == [run |-> r, uid |-> NoUID, revision |-> rev, utc |-> now]
       IN  IF Loads(log, anchor) /\ Fresh(Entries(log), e)
           THEN /\ entry' = [entry EXCEPT ![r] = e]
                /\ Goto(r, "running") /\ UNCHANGED loaded
           ELSE Fail(r)
    /\ UNCHANGED <<log, logs, anchor, anchors, creates, passed, clean, crashes, damage>>

(* The unit passes its Smart Write, or it does not.                        *)
WriteUnit(r, uid) ==
    /\ pc[r] = "running"
    /\ \/ /\ entry' = [entry EXCEPT ![r].uid = uid]
          /\ Goto(r, "record") /\ UNCHANGED loaded
       \/ Fail(r)
    /\ UNCHANGED <<log, logs, anchor, anchors, creates, passed, clean, crashes, damage>>

RoomFor(entries) == Len(entries) + 1 <= MaxEntries

Appending(r) == pc[r] \in {"open", "write", "flush", "install", "sync"}

(* Mutant: what was checked at admission is not checked again.              *)
LoadAgainUnchecked(r) ==
    /\ pc[r] = "record"
    /\ IF Loads(log, anchor) /\ RoomFor(Entries(log))
       THEN /\ loaded' = [loaded EXCEPT ![r] = Entries(log)]
            /\ Goto(r, "open") /\ UNCHANGED entry
       ELSE Fail(r)
    /\ clean' = (clean /\ \A s \in Run : ~Appending(s))
    /\ UNCHANGED <<log, logs, anchor, anchors, creates, passed, crashes, damage>>

(* AppendProductionState loads again, checks all again, and looks whether     *)
(* there is room for an entry, though not how long the file will be, before   *)
(* it writes.                                                               *)
LoadAgain(r) ==
    /\ pc[r] = "record"
    /\ IF /\ Loads(log, anchor)
          /\ Admissible(Entries(log), entry[r])
          /\ RoomFor(Entries(log))
       THEN /\ loaded' = [loaded EXCEPT ![r] = Entries(log)]
            /\ Goto(r, "open") /\ UNCHANGED entry
       ELSE Fail(r)
    /\ clean' = (clean /\ \A s \in Run : ~Appending(s))
    /\ UNCHANGED <<log, logs, anchor, anchors, creates, passed, crashes, damage>>

(* Whether the file is to be created is decided before it is opened.        *)
ChooseMode(r) ==
    /\ pc[r] = "open"
    /\ CreateRaces \/ \A s \in Run : pc[s] # "write"
    /\ creates' = IF log = NoLog THEN creates \cup {r} ELSE creates \ {r}
    /\ Goto(r, "write")
    /\ UNCHANGED <<log, logs, anchor, anchors, entry, loaded, passed, clean,
                   crashes, damage>>

(* A file that is created starts empty, even if it is there by now.         *)
Opened(r) == IF r \in creates \/ log = NoLog THEN File(<< >>, FALSE) ELSE log

(* A line goes behind whatever is in the file now; torn bytes before it run   *)
(* into it, and neither is a line then.                                    *)
WithLine(f, l) == File(Append(f.lines, IF f.tail THEN [l EXCEPT !.seq = 0] ELSE l),
                       FALSE)

(* The file is opened and the line written behind its end; a write that fails *)
(* may leave a part.  A file that another run has open is not opened.        *)
AppendLine(r) ==
    /\ pc[r] = "write"
    /\ LET free  == \A s \in Run : pc[s] # "flush"
           parts == IF free THEN {Opened(r), File(Opened(r).lines, TRUE)} ELSE {}
       IN  \/ /\ free
              /\ log' = WithLine(Opened(r), Line(loaded[r], entry[r]))
              /\ logs' = logs \cup parts \cup {log'}
              /\ Goto(r, "flush") /\ UNCHANGED <<entry, loaded, clean>>
           \/ /\ log' \in {log} \cup parts
              /\ logs' = logs \cup parts
              /\ Fail(r) /\ clean' = FALSE
    /\ creates' = creates \ {r}
    /\ UNCHANGED <<anchor, anchors, passed, crashes, damage>>

(* The content is safe; the name of a new file is not yet.                  *)
FlushLog(r) ==
    /\ pc[r] = "flush"
    /\ \/ /\ logs' = {log} \cup (logs \cap {NoLog})
          /\ Goto(r, "install") /\ UNCHANGED <<entry, loaded, clean>>
       \/ UNCHANGED logs /\ Fail(r) /\ clean' = FALSE
    /\ UNCHANGED <<log, anchor, anchors, creates, passed, crashes, damage>>

(* Mutant: the anchor is computed from the head before the line.            *)
AnchorBefore(r) == loaded[r]

NewAnchor(r) == Append(loaded[r], entry[r])

(* WriteHeadAnchor: the new anchor takes the place of the old, ...          *)
InstallAnchor(r) ==
    /\ pc[r] = "install"
    /\ \/ /\ anchor' = NewAnchor(r)
          /\ anchors' = anchors \cup {anchor'}
          /\ Goto(r, "sync") /\ UNCHANGED <<entry, loaded, clean>>
       \/ UNCHANGED <<anchor, anchors>> /\ Fail(r) /\ clean' = FALSE
    /\ UNCHANGED <<log, logs, creates, passed, crashes, damage>>

(* ... and the directory is flushed, with the names of both files in it.      *)
(* Then PASS is reported.                                                  *)
SyncAnchor(r) ==
    /\ pc[r] = "sync"
    /\ \/ /\ anchors' = {anchor} /\ logs' = logs \ {NoLog}
          /\ passed' = passed \cup {entry[r]}
          /\ Goto(r, "passed") /\ UNCHANGED clean
          /\ entry' = [entry EXCEPT ![r] = NoEntry]
          /\ loaded' = [loaded EXCEPT ![r] = << >>]
       \/ UNCHANGED <<anchors, logs, passed>> /\ Fail(r) /\ clean' = FALSE
    /\ UNCHANGED <<log, anchor, creates, crashes, damage>>

-----------------------------------------------------------------------------
(* Between recordings the log of a good state, and not the anchor, is put     *)
(* back as it was some entries ago.                                        *)
Damage ==
    /\ damage < MaxDamage /\ log # NoLog /\ \A r \in Run : ~Appending(r)
    /\ Loads(log, anchor)
    /\ \/ \E n \in 0 .. Len(log.lines) - 1 :
              log' = File(SubSeq(log.lines, 1, n), FALSE)
       \/ log' = NoLog
    /\ logs' = {log'}
    /\ damage' = damage + 1 /\ clean' = FALSE
    /\ UNCHANGED <<anchor, anchors, pc, entry, creates, loaded, passed, crashes>>

Crash ==
    /\ crashes < MaxCrashes
    /\ crashes' = crashes + 1 /\ clean' = FALSE
    /\ log' \in logs /\ logs' = {log'}
    /\ anchor' \in anchors /\ anchors' = {anchor'}
    /\ pc' = [r \in Run |-> IF pc[r] \in {"idle", "passed", "failed"}
                            THEN pc[r] ELSE "failed"]
    /\ entry' = [r \in Run |-> NoEntry] /\ loaded' = [r \in Run |-> << >>]
    /\ creates' = {}
    /\ UNCHANGED <<passed, damage>>

RunStep(r) == \/ \E rev \in Revision, now \in Time : Admit(r, rev, now)
              \/ \E uid \in Unit : WriteUnit(r, uid)
              \/ LoadAgain(r) \/ ChooseMode(r) \/ AppendLine(r)
              \/ FlushLog(r) \/ InstallAnchor(r) \/ SyncAnchor(r)

Next == \/ \E r \in Run : RunStep(r)
        \/ Damage \/ Crash
Spec == Init /\ [][Next]_vars

-----------------------------------------------------------------------------
TypeOK ==
    /\ log \in logs /\ logs \subseteq Logs \cup {NoLog}
    /\ anchor \in anchors /\ \A a \in anchors : a \in Seq(Entry) \ {<< >>} \/ a = NoAnchor
    /\ pc \in [Run -> Places]
    /\ entry \in [Run -> Entry \cup {NoEntry}]
    /\ \A r \in Run : entry[r] = NoEntry <=> pc[r] \in {"idle", "passed", "failed"}
    /\ loaded \in [Run -> Seq(Entry)] /\ creates \in SUBSET Run
    /\ passed \in SUBSET Entry /\ clean \in BOOLEAN
    /\ crashes \in 0 .. MaxCrashes /\ damage \in 0 .. MaxDamage

(* What a load may find, now or after a power cut.                          *)
Findable == {<<log, anchor>>} \cup (logs \X anchors)
Loadable == {Entries(f[1]) : f \in {g \in Findable : Loads(g[1], g[2])}}

(* A state that loads holds every unit ever reported as PASS: not a crash, a  *)
(* failed write, two runs at once nor an older log makes it forget one.      *)
PassedIsRecorded == \A s \in Loadable : passed \subseteq ToSet(s)

(* What loads is a lawful history: no unit in it twice, no revision below an  *)
(* earlier one, no time before an earlier one.                             *)
LoadedIsLawful ==
    \A s \in Loadable : \A j \in DOMAIN s : Admissible(SubSeq(s, 1, j - 1), s[j])

(* As long as nothing failed, was cut off or overlapped, and the file has not *)
(* outgrown what is read, the state loads: the station does not lock itself   *)
(* out over the number of its entries.  Over their length it does: an append  *)
(* looks only at the number, and 100000 lines of more than 167 bytes are more  *)
(* than 16 MiB.                                                             *)
CleanLoads ==
    clean /\ (\A r \in Run : ~Appending(r)) /\ (log # NoLog => Readable(log))
    => Loads(log, anchor)
=============================================================================
