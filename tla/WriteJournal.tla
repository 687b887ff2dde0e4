---------------------------- MODULE WriteJournal ----------------------------
(***************************************************************************)
(* The write journal of writejournal.pas: a header written once, one line   *)
(* appended and flushed for each finished unit of a plan, and how the file  *)
(* is read back.  A process begins the journal, appends to it while an      *)
(* executor finishes units, and may stop at any moment; a later process     *)
(* appends to the same file when it takes the job up again.                *)
(*                                                                         *)
(* A file is its complete lines and whether bytes follow the last newline.  *)
(* The n-th unit finished under the journal is the mark n: which unit it     *)
(* is makes no difference here.  Header fields are single lines, of which   *)
(* only presence and order matter.                                         *)
(***************************************************************************)
EXTENDS Naturals, Sequences, SequencesExt

CONSTANTS
    HeaderLength,   \* lines of the header
    MaxUnits,       \* bound on the units finished
    MaxCrashes,
    EntryFlushed    \* is a new file's name on the disk once it is flushed?

JournalAssumption ==
    /\ HeaderLength \in Nat \ {0} /\ MaxUnits \in Nat /\ MaxCrashes \in Nat
    /\ EntryFlushed \in BOOLEAN

VARIABLES
    file,           \* the file as processes see it
    survivors,      \* what a power cut may leave of it
    pc,             \* where the process is
    begun,          \* has BeginJournal answered true?
    finished,       \* units finished so far
    acknowledged,   \* those whose AppendJournalMark answered true
    crashes

vars == <<file, survivors, pc, begun, finished, acknowledged, crashes>>

HeaderLine(i) == [kind |-> "header", number |-> i]
MarkLine(n)   == [kind |-> "mark", number |-> n]
Joined        == [kind |-> "junk", number |-> 0]  \* two lines run together

HeaderLines == [i \in 1 .. HeaderLength |-> HeaderLine(i)]

NoJournal  == [lines |-> << >>, tail |-> FALSE, exists |-> FALSE]
File(l, t) == [lines |-> l, tail |-> t, exists |-> TRUE]

-----------------------------------------------------------------------------
(* Mutant: the bytes after the last newline are read as a line.  Cut short, *)
(* a mark's length or address is another number: the unit is not this one. *)
LinesWithTail(f) == IF f.tail THEN Append(f.lines, MarkLine(0)) ELSE f.lines

SplitCompleteLines(f) == f.lines

(* ParseJournal: the header must be whole; of the marks, those before the    *)
(* first line that is not one.                                             *)
HeaderReads(f) == IsPrefix(HeaderLines, SplitCompleteLines(f))

Marks(f) ==
    LET body == SubSeq(SplitCompleteLines(f), HeaderLength + 1,
                       Len(SplitCompleteLines(f)))
        good == SelectInSeq(body, LAMBDA line : line.kind # "mark")
    IN  SubSeq(body, 1, IF good = 0 THEN Len(body) ELSE good - 1)

Loaded(f) == {Marks(f)[i].number : i \in DOMAIN Marks(f)}

-----------------------------------------------------------------------------
Init ==
    /\ file = NoJournal /\ survivors = {NoJournal}
    /\ pc = "none" /\ begun = FALSE
    /\ finished = 0 /\ acknowledged = {} /\ crashes = 0

(* The file changes in the system's memory: the disk may follow or not.     *)
Change(f) == file' = f /\ survivors' = survivors \cup {f}

(* BeginJournal creates the file, writes the header, and flushes.           *)
CreateJournal ==
    /\ pc = "none"
    /\ Change(File(<< >>, FALSE))
    /\ pc' = "header"
    /\ UNCHANGED <<begun, finished, acknowledged, crashes>>

(* What part of the header is in the file.                                 *)
PartsOfHeader == {File(SubSeq(HeaderLines, 1, k), t) :
                    k \in 0 .. HeaderLength - 1, t \in BOOLEAN}

WriteHeader ==
    /\ pc = "header"
    /\ \/ /\ file' = File(HeaderLines, FALSE)
          /\ pc' = "flushHeader"
       \/ /\ file' \in PartsOfHeader
          /\ pc' = "refused"
    /\ survivors' = survivors \cup PartsOfHeader \cup {file'}
    /\ UNCHANGED <<begun, finished, acknowledged, crashes>>

(* Mutant: the header is not flushed.                                      *)
TrustHeader ==
    /\ pc = "flushHeader"
    /\ pc' = "ready" /\ begun' = TRUE
    /\ UNCHANGED <<file, survivors, finished, acknowledged, crashes>>

FlushHeader ==
    /\ pc = "flushHeader"
    /\ \/ /\ survivors' = IF EntryFlushed THEN {file} ELSE {file, NoJournal}
          /\ pc' = "ready" /\ begun' = TRUE
       \/ /\ UNCHANGED <<survivors, begun>>
          /\ pc' = "refused"
    /\ UNCHANGED <<file, finished, acknowledged, crashes>>

(* A unit is finished on the chip, and AppendJournalMark is called for it;   *)
(* it answers false when the file cannot be opened.                        *)
UnitFinishes ==
    /\ pc = "ready" /\ finished < MaxUnits
    /\ finished' = finished + 1
    /\ pc' \in IF file.exists THEN {"truncate", "ready"} ELSE {"ready"}
    /\ UNCHANGED <<file, survivors, begun, acknowledged, crashes>>

(* Mutant: an incomplete tail stays where it is.                           *)
KeepTail ==
    /\ pc = "truncate"
    /\ Change(file)
    /\ pc' = "append"
    /\ UNCHANGED <<begun, finished, acknowledged, crashes>>

(* Bytes after the last newline are cut off before anything is appended.    *)
Truncate ==
    /\ pc = "truncate"
    /\ IF file.lines = << >>
       THEN UNCHANGED <<file, survivors>> /\ pc' = "ready"
       ELSE Change(File(file.lines, FALSE)) /\ pc' = "append"
    /\ UNCHANGED <<begun, finished, acknowledged, crashes>>

WithLine(f) == File(Append(f.lines, IF f.tail THEN Joined
                                              ELSE MarkLine(finished)), FALSE)
WithTail(f) == File(f.lines, TRUE)

(* The line and its newline go out in one call, which may stop part way.    *)
AppendLine ==
    /\ pc = "append"
    /\ \/ /\ file' = WithLine(file)
          /\ pc' = "flush"
       \/ /\ file' \in {file, WithTail(file)}
          /\ pc' = "ready"
    /\ survivors' = survivors \cup {WithTail(file), file'}
    /\ UNCHANGED <<begun, finished, acknowledged, crashes>>

(* Mutant: a flush that failed is answered by writing the line again.       *)
FlushOrAppendAgain ==
    /\ pc = "flush"
    /\ \/ /\ survivors' = {file}
          /\ acknowledged' = acknowledged \cup {finished}
          /\ pc' = "ready"
       \/ /\ UNCHANGED <<survivors, acknowledged>>
          /\ pc' = "append"
    /\ UNCHANGED <<file, begun, finished, crashes>>

FlushLine ==
    /\ pc = "flush"
    /\ \/ /\ survivors' = IF NoJournal \in survivors THEN {file, NoJournal} ELSE {file}
          /\ acknowledged' = acknowledged \cup {finished}
       \/ UNCHANGED <<survivors, acknowledged>>
    /\ pc' = "ready"
    /\ UNCHANGED <<file, begun, finished, crashes>>

(* The power goes.  A process that takes the job up again appends to the     *)
(* journal it finds; a journal that was never begun is in the way of the     *)
(* bundle it belongs to and is not written again.                          *)
Crash ==
    /\ crashes < MaxCrashes
    /\ crashes' = crashes + 1
    /\ file' \in survivors /\ survivors' = {file'}
    /\ pc' = IF begun THEN "ready" ELSE "refused"
    /\ UNCHANGED <<begun, finished, acknowledged>>

Next == \/ CreateJournal \/ WriteHeader \/ FlushHeader
        \/ UnitFinishes \/ Truncate \/ AppendLine \/ FlushLine
        \/ Crash
Spec == Init /\ [][Next]_vars

-----------------------------------------------------------------------------
Line == [kind : {"header", "mark", "junk"},
         number : 0 .. HeaderLength + MaxUnits]

(* No file holds more lines than a header and a mark for each unit.         *)
IsFile(f) ==
    /\ f.lines \in Seq(Line) /\ Len(f.lines) <= HeaderLength + finished
    /\ f.tail \in BOOLEAN /\ f.exists \in BOOLEAN

TypeOK ==
    /\ \A f \in survivors \cup {file} : IsFile(f)
    /\ pc \in {"none", "header", "flushHeader", "refused", "ready",
               "truncate", "append", "flush"}
    /\ begun \in BOOLEAN
    /\ finished \in 0 .. MaxUnits
    /\ acknowledged \in SUBSET (1 .. MaxUnits)
    /\ crashes \in 0 .. MaxCrashes

(* A journal that was begun reads back, whatever happens to the machine: its *)
(* header is what a recovery checks the chip, the image and the backup       *)
(* against.                                                                *)
HeaderSurvives == begun => \A f \in survivors \cup {file} : HeaderReads(f)

(* Every mark that AppendJournalMark acknowledged is loaded, even when a     *)
(* torn line, a failed append or a crash came before it or after it.        *)
AcknowledgedMarksSurvive ==
    \A f \in survivors \cup {file} :
        HeaderReads(f) => acknowledged \subseteq Loaded(f)

(* What is loaded is history: units that were finished, in the order in      *)
(* which they were.                                                        *)
MarksAreHistory ==
    \A f \in survivors \cup {file} :
        HeaderReads(f) =>
            /\ Loaded(f) \subseteq 1 .. finished
            /\ \A i, j \in DOMAIN Marks(f) :
                  i < j => Marks(f)[i].number < Marks(f)[j].number
=============================================================================
