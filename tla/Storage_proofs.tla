--------------------------- MODULE Storage_proofs ---------------------------
(* What the storage suite promises, for every number of writers, chunks and *)
(* power cuts.  Each component has an invariant of its own, which its steps *)
(* preserve; the theorems of the suite put them together.                   *)
EXTENDS Storage, SequenceTheorems, TLAPS

(***************************************************************************)
(* The durable file.  SuccessSurvives and NothingLeftBehind are not         *)
(* inductive: what a name leads to, or may lead to, was flushed before it   *)
(* was installed, and between installation and the flush of the directory  *)
(* the name leads to some writer's file already.                           *)
(***************************************************************************)
Whole(w) == flushed[w] = Chunks

FileInv ==
    /\ AF!TypeOK
    /\ target \in entries
    /\ \A w \in Writer : flushed[w] <= written[w]
    /\ \A w \in Writer : w \in entries \/ pc[w] = "install" => Whole(w)
    /\ \A w \in Writer : pc[w] \in {"unlink", "syncDirectory"} => target \in Writer
    /\ AF!SuccessSurvives
    /\ crashes = 0 =>
          \A w \in temp : pc[w] \in {"write", "install", "unlink", "finally"}

(* The assumptions on the constants of the durable file.                    *)
LEMMA FileConstants ==
    /\ Chunks \in Nat \ {0} /\ FileCrashes \in Nat
    /\ Replacing \subseteq Writer
    /\ OldFile \notin Writer /\ NoFile \notin Writer /\ OldFile # NoFile
    /\ Before \in {OldFile, NoFile}
    /\ DirectoryOpens \in BOOLEAN
BY StorageAssumptions DEF AF!FileAssumption

LEMMA FileInit == AF!Init => FileInv
BY FileConstants
   DEF FileInv, AF!Init, AF!TypeOK, AF!SuccessSurvives, AF!Files, AF!Places, AF!Ended, Whole

(* Every step of a writer, and a power cut, preserves the invariant.        *)
LEMMA FileStep ==
    ASSUME DirectoryOpens, FileInv, AF!Next
    PROVE  FileInv'
<1> USE FileConstants
<1> USE DEF FileInv, AF!TypeOK, AF!SuccessSurvives, AF!Goto, AF!Files, AF!Places, AF!Ended, Whole
<1>1. CASE AF!Crash
  BY <1>1 DEF AF!Crash
<1>2. ASSUME NEW w \in Writer, AF!WriterStep(w)
      PROVE  FileInv'
  <2>1. CASE AF!Begin(w)
    BY <2>1 DEF AF!Begin
  <2>2. CASE AF!CreateTemp(w)
    BY <2>2 DEF AF!CreateTemp
  <2>3. CASE AF!WriteChunk(w)
    BY <2>3 DEF AF!WriteChunk
  <2>4. CASE AF!FlushFile(w)
    BY <2>4 DEF AF!FlushFile
  <2>5. CASE AF!Install(w)
    BY <2>5 DEF AF!Install, AF!Rename, AF!Link, AF!Lead
  <2>6. CASE AF!UnlinkTemp(w)
    BY <2>6 DEF AF!UnlinkTemp
  <2>7. CASE AF!SyncDirectory(w)
    BY <2>7 DEF AF!SyncDirectory
  <2>8. CASE AF!Finally(w)
    BY <2>8 DEF AF!Finally
  <2> QED BY <1>2, <2>1, <2>2, <2>3, <2>4, <2>5, <2>6, <2>7, <2>8 DEF AF!WriterStep
<1> QED BY <1>1, <1>2 DEF AF!Next

(* A step that leaves the variables of the durable file alone.              *)
LEMMA FileStutter == FileInv /\ UNCHANGED AF!vars => FileInv'
BY DEF FileInv, AF!TypeOK, AF!SuccessSurvives, AF!vars, Whole

LEMMA FileSafety == FileInv => AF!TypeOK /\ AF!SuccessSurvives /\ AF!NothingLeftBehind
BY DEF FileInv, AF!NothingLeftBehind, AF!Ended

(* Of a file the name may lead to, all chunks are on the disk: what is read  *)
(* there is a whole content.                                                *)
LEMMA WholeContents ==
    ASSUME FileInv, NEW f \in entries
    PROVE  AF!Content(f) = f /\ AF!Held(f) = f
BY FileConstants DEF FileInv, AF!TypeOK, AF!Content, AF!Held, Whole

LEMMA RegisterState ==
    ASSUME FileInv
    PROVE  AF!Content(target) = target /\ {AF!Held(f) : f \in entries} = entries
BY WholeContents DEF FileInv

LEMMA RegisterNextState ==
    (FileInv => AF!Content(target) = target /\ {AF!Held(f) : f \in entries} = entries)'
<1>1. FileInv => AF!Content(target) = target /\ {AF!Held(f) : f \in entries} = entries
  BY RegisterState
<1> QED BY <1>1, PTL

-----------------------------------------------------------------------------
(* The register: a whole write is installed at once, the flush of the        *)
(* directory is the commit, and the answer comes with it.                   *)
Answered == {w \in Writer : pc[w] = "succeeded"}

(* What a step does, told in the terms of the register.                     *)
RegisterStep ==
    \/ UNCHANGED <<target, entries, Answered>>
    \/ /\ \E w \in Writer : /\ w \in Writer \ Replacing => target = NoFile
                            /\ target' = w /\ entries' = entries \cup {w}
       /\ UNCHANGED Answered
    \/ /\ entries' = {target}
       /\ \E w \in Writer : Answered' = Answered \cup {w}
       /\ UNCHANGED target
    \/ /\ target' \in entries /\ entries' = {target'}
       /\ UNCHANGED Answered

LEMMA FileSteps ==
    ASSUME DirectoryOpens, FileInv, AF!Next
    PROVE  RegisterStep
<1> USE FileConstants
<1> USE DEF FileInv, AF!TypeOK, AF!Goto, AF!Places, AF!Ended, Answered
<1>1. CASE AF!Crash
  BY <1>1 DEF AF!Crash, RegisterStep
<1>2. ASSUME NEW w \in Writer, AF!WriterStep(w)
      PROVE  RegisterStep
  <2>1. CASE AF!Begin(w)
    BY <2>1 DEF AF!Begin, RegisterStep
  <2>2. CASE AF!CreateTemp(w)
    BY <2>2 DEF AF!CreateTemp, RegisterStep
  <2>3. CASE AF!WriteChunk(w)
    BY <2>3 DEF AF!WriteChunk, RegisterStep
  <2>4. CASE AF!FlushFile(w)
    BY <2>4 DEF AF!FlushFile, RegisterStep
  <2>5. CASE AF!Install(w)
    BY <2>5 DEF AF!Install, AF!Rename, AF!Link, AF!Lead, RegisterStep
  <2>6. CASE AF!UnlinkTemp(w)
    BY <2>6 DEF AF!UnlinkTemp, RegisterStep
  <2>7. CASE AF!SyncDirectory(w)
    BY <2>7 DEF AF!SyncDirectory, RegisterStep
  <2>8. CASE AF!Finally(w)
    BY <2>8 DEF AF!Finally, RegisterStep
  <2> QED BY <1>2, <2>1, <2>2, <2>3, <2>4, <2>5, <2>6, <2>7, <2>8 DEF AF!WriterStep
<1> QED BY <1>1, <1>2 DEF AF!Next

-----------------------------------------------------------------------------
(* The suite: the file is at work, or its variables are not.                *)
StorageFile == subject = "file" => FileInv

LEMMA StorageFileInvariant == ASSUME DirectoryOpens PROVE Spec => []StorageFile
<1>1. Init => StorageFile
  BY FileInit DEF Init, StorageFile
<1>2. StorageFile /\ [Next]_vars => StorageFile'
  BY FileStep, FileStutter DEF Next, StorageFile, vars, AF!vars
<1> QED BY <1>1, <1>2, PTL DEF Spec

(* A write that answered true survives every power cut, and one that failed  *)
(* leaves no temporary file, if the directory can be flushed                *)
(* (AtomicWriteDurable).                                                   *)
THEOREM FileIsAlwaysKept == ASSUME DirectoryOpens PROVE Spec => []FileIsKept
<1>1. StorageFile => FileIsKept
  BY FileSafety DEF StorageFile, FileIsKept
<1> QED BY <1>1, StorageFileInvariant, PTL

(* Concurrent writes of one name implement an atomic register, through every *)
(* failed call and every power cut: each step of the suite is a step of     *)
(* Register or changes nothing it sees.                                     *)
THEOREM FileImplementsRegister == ASSUME DirectoryOpens PROVE Spec => IsRegister
<1>1. Init => Reg!RInit
  <2>1. CASE subject = "file"
    BY <2>1, FileInit, RegisterState, FileConstants
       DEF Init, Reg!RInit, Named, AF!Init
  <2>2. CASE subject # "file"
    BY <2>2 DEF Reg!RInit, Named, Init
  <2> QED BY <2>1, <2>2
<1>2. ASSUME StorageFile, StorageFile', [Next]_vars
      PROVE  [Reg!RNext]_<<Named(AF!Content(target), NoFile),
                           Named({AF!Held(f) : f \in entries}, {NoFile}),
                           Named({w \in Writer : pc[w] = "succeeded"}, {})>>
  <2>1. CASE subject = "file" /\ AF!Next /\ subject' = subject
    <3>1. FileInv /\ FileInv'
      BY <1>2, <2>1 DEF StorageFile
    <3>2. /\ Named(AF!Content(target), NoFile) = target
          /\ Named({AF!Held(f) : f \in entries}, {NoFile}) = entries
          /\ Named({w \in Writer : pc[w] = "succeeded"}, {}) = Answered
      BY <2>1, <3>1, RegisterState DEF Named, Answered
    <3>3. /\ Named(AF!Content(target), NoFile)' = target'
          /\ Named({AF!Held(f) : f \in entries}, {NoFile})' = entries'
          /\ Named({w \in Writer : pc[w] = "succeeded"}, {})' = Answered'
      BY <2>1, <3>1, RegisterNextState DEF Named, Answered
    <3>4. RegisterStep
      BY <2>1, <3>1, FileSteps
    <3> HIDE DEF Named
    <3> QED BY <3>2, <3>3, <3>4, FileConstants
            DEF RegisterStep, Reg!RNext, Reg!Put, Reg!Commit, Reg!Answer, Reg!PowerCut
  <2>2. CASE UNCHANGED vars
    BY <2>2 DEF vars, Named, AF!Content, AF!Held
  <2>3. CASE subject # "file" /\ subject' = subject
    BY <2>3 DEF Named
  <2> QED BY <1>2, <2>1, <2>2, <2>3 DEF Next
<1> QED BY <1>1, <1>2, StorageFileInvariant, PTL DEF Spec, IsRegister, Reg!RSpec

-----------------------------------------------------------------------------
(***************************************************************************)
(* The write journal.  A file that holds fewer lines than the header does   *)
(* not read; every other one is the header and then marks in the order of   *)
(* their numbers, every acknowledged one among them: no line is ever joined *)
(* to bytes without a newline, because these are cut off before.            *)
(***************************************************************************)
Typed(f) == /\ f.lines \in Seq(WJ!Line)
            /\ f.tail \in BOOLEAN /\ f.exists \in BOOLEAN

Body(f) == HeaderLength + 1 .. Len(f.lines)

Marked(f) ==
    /\ HeaderLength <= Len(f.lines)
    /\ \A i \in 1 .. HeaderLength : f.lines[i] = WJ!HeaderLine(i)
    /\ \A i \in Body(f) : f.lines[i].kind = "mark" /\ f.lines[i].number \in 1 .. finished
    /\ \A i, j \in Body(f) : i < j => f.lines[i].number < f.lines[j].number
    /\ \A n \in acknowledged : \E i \in Body(f) : f.lines[i].number = n

Short(f) == Len(f.lines) < HeaderLength

(* While a mark is being appended, no file has it, nor a line in its place.  *)
Behind(f) ==
    /\ Len(f.lines) < HeaderLength + finished
    /\ \A i \in Body(f) : f.lines[i].number < finished

JournalInv ==
    /\ finished \in 0 .. MaxUnits /\ crashes \in 0 .. JournalCrashes
    /\ begun \in BOOLEAN /\ acknowledged \in SUBSET (1 .. MaxUnits)
    /\ pc \in {"none", "header", "flushHeader", "refused", "ready", "truncate",
               "append", "flush"}
    /\ file \in survivors
    /\ \A f \in survivors : Typed(f) /\ Len(f.lines) <= HeaderLength + finished
    /\ \A f \in survivors : Short(f) \/ Marked(f)
    /\ begun <=> pc \in {"ready", "truncate", "append", "flush"}
    /\ ~begun => acknowledged = {}
    /\ begun => \A f \in survivors : Marked(f) \/ (f = WJ!NoJournal /\ ~EntryFlushed)
    /\ pc = "flushHeader" => file = WJ!File(WJ!HeaderLines, FALSE)
    /\ pc \in {"truncate", "append", "flush"} => Marked(file)
    /\ pc \in {"truncate", "append"} => \A f \in survivors : Behind(f)
    /\ pc = "append" => ~file.tail
    /\ pc = "flush" => /\ Len(file.lines) > HeaderLength
                       /\ file.lines[Len(file.lines)].number = finished

LEMMA JournalConstants ==
    /\ HeaderLength \in Nat \ {0} /\ MaxUnits \in Nat /\ JournalCrashes \in Nat
    /\ EntryFlushed \in BOOLEAN
BY StorageAssumptions DEF WJ!JournalAssumption

(* What a reader makes of a file.                                           *)
LEMMA ShortDoesNotRead ==
    ASSUME NEW f, f.lines \in Seq(WJ!Line), Short(f)
    PROVE  ~WJ!HeaderReads(f)
<1>1. Len(WJ!HeaderLines) = HeaderLength
  BY JournalConstants DEF WJ!HeaderLines
<1> QED BY <1>1, JournalConstants
        DEF Short, WJ!HeaderReads, WJ!IsPrefix, WJ!SplitCompleteLines

LEMMA MarkedReads ==
    ASSUME NEW f, f.lines \in Seq(WJ!Line), Marked(f)
    PROVE  WJ!HeaderReads(f)
<1> DEFINE H == WJ!HeaderLines
<1>1. H \in Seq(WJ!Line) /\ Len(H) = HeaderLength
      /\ \A i \in 1 .. HeaderLength : H[i] = WJ!HeaderLine(i)
  BY JournalConstants DEF WJ!HeaderLines, WJ!Line, WJ!HeaderLine
<1> HIDE DEF H
<1>2. /\ SubSeq(H, 1, HeaderLength) \in Seq(WJ!Line)
      /\ SubSeq(f.lines, 1, HeaderLength) \in Seq(WJ!Line)
      /\ Len(SubSeq(H, 1, HeaderLength)) = HeaderLength
      /\ Len(SubSeq(f.lines, 1, HeaderLength)) = HeaderLength
      /\ \A i \in 1 .. HeaderLength : /\ SubSeq(H, 1, HeaderLength)[i] = H[i]
                                      /\ SubSeq(f.lines, 1, HeaderLength)[i] = f.lines[i]
  BY <1>1, JournalConstants, SubSeqProperties DEF Marked
<1>3. SubSeq(H, 1, HeaderLength) = SubSeq(f.lines, 1, HeaderLength)
  BY <1>1, <1>2, SeqEqual DEF Marked
<1> QED BY <1>1, <1>3 DEF H, Marked, WJ!HeaderReads, WJ!IsPrefix, WJ!SplitCompleteLines

LEMMA MarkedMarks ==
    ASSUME NEW f, f.lines \in Seq(WJ!Line), Marked(f)
    PROVE  /\ WJ!Marks(f) \in Seq(WJ!Line)
           /\ Len(WJ!Marks(f)) = Len(f.lines) - HeaderLength
           /\ \A i \in 1 .. Len(WJ!Marks(f)) :
                 WJ!Marks(f)[i] = f.lines[HeaderLength + i]
<1> DEFINE body == SubSeq(f.lines, HeaderLength + 1, Len(f.lines))
           bad  == {i \in 1 .. Len(body) : body[i].kind # "mark"}
<1>1. /\ body \in Seq(WJ!Line)
      /\ Len(body) = Len(f.lines) - HeaderLength
      /\ \A i \in 1 .. Len(body) : body[i] = f.lines[HeaderLength + i]
  BY JournalConstants, SubSeqProperties DEF Marked
<1>2. bad = {}
  BY <1>1, JournalConstants DEF Marked, Body
<1>3. SubSeq(body, 1, Len(body)) = body
  BY <1>1, SubSeqFull
<1> HIDE DEF body
<1>4. WJ!SelectInSeq(body, LAMBDA line : line.kind # "mark") = 0
  BY <1>2 DEF WJ!SelectInSeq
<1>5. WJ!Marks(f) = body
  BY <1>3, <1>4 DEF WJ!Marks, WJ!SplitCompleteLines, body
<1> QED BY <1>1, <1>5

LEMMA JournalReads ==
    ASSUME NEW f, f.lines \in Seq(WJ!Line), Marked(f)
    PROVE  /\ WJ!HeaderReads(f)
           /\ acknowledged \subseteq WJ!Loaded(f)
           /\ WJ!Loaded(f) \subseteq 1 .. finished
           /\ \A i, j \in DOMAIN WJ!Marks(f) :
                 i < j => WJ!Marks(f)[i].number < WJ!Marks(f)[j].number
<1> DEFINE body == WJ!Marks(f)
<1>1. /\ body \in Seq(WJ!Line)
      /\ Len(body) = Len(f.lines) - HeaderLength
      /\ \A i \in 1 .. Len(body) : body[i] = f.lines[HeaderLength + i]
  BY MarkedMarks
<1>2. \A i \in Body(f) : i - HeaderLength \in 1 .. Len(body) /\ f.lines[i] = body[i - HeaderLength]
  BY <1>1, JournalConstants DEF Body
<1> HIDE DEF body
<1>3. \A i \in DOMAIN body : HeaderLength + i \in Body(f) /\ body[i] = f.lines[HeaderLength + i]
  BY <1>1, JournalConstants DEF Body
<1>4. DOMAIN body = 1 .. Len(body)
  BY <1>1
<1>5. acknowledged \subseteq {body[i].number : i \in DOMAIN body}
  BY <1>2, <1>4 DEF Marked
<1>6. {body[i].number : i \in DOMAIN body} \subseteq 1 .. finished
  BY <1>3 DEF Marked
<1>7. \A i, j \in DOMAIN body : i < j => body[i].number < body[j].number
  <2> TAKE i, j \in DOMAIN body
  <2> HAVE i < j
  <2>1. HeaderLength + i < HeaderLength + j
    BY <1>1, <1>4, JournalConstants
  <2> QED BY <2>1, <1>3 DEF Marked
<1> QED BY MarkedReads, <1>5, <1>6, <1>7 DEF WJ!Loaded, body

LEMMA JournalSafety ==
    ASSUME JournalInv
    PROVE  /\ WJ!TypeOK /\ (EntryFlushed => WJ!HeaderSurvives)
           /\ WJ!AcknowledgedMarksSurvive /\ WJ!MarksAreHistory
<1>1. \A f \in survivors \cup {file} : f \in survivors /\ f.lines \in Seq(WJ!Line)
  BY DEF JournalInv, Typed
<1>2. \A f \in survivors \cup {file} : WJ!HeaderReads(f) => Marked(f)
  BY <1>1, ShortDoesNotRead DEF JournalInv
<1>3. EntryFlushed => WJ!HeaderSurvives
  BY <1>1, JournalReads DEF JournalInv, WJ!HeaderSurvives
<1>4. WJ!AcknowledgedMarksSurvive
  BY <1>1, <1>2, JournalReads DEF WJ!AcknowledgedMarksSurvive
<1>5. WJ!MarksAreHistory
  BY <1>1, <1>2, JournalReads DEF WJ!MarksAreHistory
<1>6. WJ!TypeOK
  BY DEF JournalInv, WJ!TypeOK, WJ!IsFile, Typed
<1> QED BY <1>3, <1>4, <1>5, <1>6

(* What the actions put into a file.                                        *)
LEMMA FileFields ==
    ASSUME NEW l \in Seq(WJ!Line), NEW t \in BOOLEAN
    PROVE  /\ Typed(WJ!File(l, t))
           /\ WJ!File(l, t).lines = l
           /\ WJ!File(l, t).tail <=> t
           /\ WJ!File(l, t).exists
<1>1. WJ!File(l, t).lines = l
  BY DEF WJ!File
<1>2. WJ!File(l, t).tail = t
  BY Zenon DEF WJ!File
<1>3. WJ!File(l, t).exists = TRUE
  BY Zenon DEF WJ!File
<1>4. WJ!File(l, t).tail \in BOOLEAN /\ WJ!File(l, t).exists \in BOOLEAN
  BY <1>2, <1>3, Zenon
<1>5. Typed(WJ!File(l, t))
  BY <1>1, <1>4, Zenon DEF Typed
<1> QED BY <1>1, <1>2, <1>3, <1>5, Zenon

LEMMA NoJournalFields ==
    /\ Typed(WJ!NoJournal) /\ Short(WJ!NoJournal)
    /\ WJ!NoJournal.lines = << >> /\ ~WJ!NoJournal.exists
<1>1. WJ!NoJournal.lines = << >>
  BY DEF WJ!NoJournal
<1>2. WJ!NoJournal.tail = FALSE /\ WJ!NoJournal.exists = FALSE
  BY Zenon DEF WJ!NoJournal
<1>3. << >> \in Seq(WJ!Line) /\ Len(<< >>) = 0
  OBVIOUS
<1>4. Typed(WJ!NoJournal)
  BY <1>1, <1>2, <1>3, Zenon DEF Typed
<1>5. Short(WJ!NoJournal)
  BY <1>1, <1>3, JournalConstants DEF Short
<1> QED BY <1>1, <1>2, <1>4, <1>5, Zenon

LEMMA HeaderFiles ==
    /\ WJ!HeaderLines \in Seq(WJ!Line) /\ Len(WJ!HeaderLines) = HeaderLength
    /\ \A i \in 1 .. HeaderLength : WJ!HeaderLines[i] = WJ!HeaderLine(i)
    /\ \A f \in WJ!PartsOfHeader : Typed(f) /\ Short(f)
<1>1. /\ WJ!HeaderLines \in Seq(WJ!Line) /\ Len(WJ!HeaderLines) = HeaderLength
      /\ \A i \in 1 .. HeaderLength : WJ!HeaderLines[i] = WJ!HeaderLine(i)
  BY JournalConstants DEF WJ!HeaderLines, WJ!Line, WJ!HeaderLine
<1>2. ASSUME NEW k \in 0 .. HeaderLength - 1, NEW t \in BOOLEAN
      PROVE  /\ Typed(WJ!File(SubSeq(WJ!HeaderLines, 1, k), t))
             /\ Short(WJ!File(SubSeq(WJ!HeaderLines, 1, k), t))
  <2>1. /\ SubSeq(WJ!HeaderLines, 1, k) \in Seq(WJ!Line)
        /\ Len(SubSeq(WJ!HeaderLines, 1, k)) = k
    BY <1>1, JournalConstants, SubSeqProperties
  <2>2. /\ Typed(WJ!File(SubSeq(WJ!HeaderLines, 1, k), t))
        /\ WJ!File(SubSeq(WJ!HeaderLines, 1, k), t).lines = SubSeq(WJ!HeaderLines, 1, k)
    BY <2>1, FileFields
  <2> QED BY <2>1, <2>2, JournalConstants DEF Short
<1>3. \A f \in WJ!PartsOfHeader : Typed(f) /\ Short(f)
  BY <1>2 DEF WJ!PartsOfHeader
<1> QED BY <1>1, <1>3

(* A file keeps what it is while units are finished.                        *)
LEMMA MarkedGrows ==
    ASSUME NEW f, Marked(f), finished \in Nat, finished' \in Nat, finished <= finished',
           acknowledged' = acknowledged
    PROVE  Marked(f)'
BY DEF Marked, Body

LEMMA AppendedMark ==
    ASSUME JournalInv, pc = "append"
    PROVE  LET g == WJ!WithLine(file)
           IN  /\ Typed(g) /\ g.exists
               /\ Len(g.lines) = Len(file.lines) + 1
               /\ g.lines[Len(g.lines)].number = finished
               /\ Marked(g)
<1> DEFINE l == Append(file.lines, WJ!MarkLine(finished))
<1>1. /\ file.lines \in Seq(WJ!Line) /\ Marked(file) /\ Behind(file) /\ ~file.tail
      /\ finished \in 0 .. MaxUnits
  BY DEF JournalInv, Typed
<1>2. WJ!MarkLine(finished) \in WJ!Line
  BY <1>1, JournalConstants DEF WJ!MarkLine, WJ!Line
<1>3. /\ l \in Seq(WJ!Line) /\ Len(l) = Len(file.lines) + 1
      /\ \A i \in 1 .. Len(file.lines) : l[i] = file.lines[i]
      /\ l[Len(file.lines) + 1] = WJ!MarkLine(finished)
  BY <1>1, <1>2, AppendProperties
<1> HIDE DEF l
<1>4. WJ!WithLine(file) = WJ!File(l, FALSE)
  BY <1>1 DEF WJ!WithLine, l
<1>5. WJ!MarkLine(finished).kind = "mark" /\ WJ!MarkLine(finished).number = finished
  BY DEF WJ!MarkLine
<1>6. Len(file.lines) \in Nat /\ Len(file.lines) >= HeaderLength
  BY <1>1 DEF Marked
<1>7. finished \in 1 .. finished
  BY <1>1, <1>6, JournalConstants DEF Behind
<1>8. ASSUME NEW g, g.lines = l
      PROVE  Marked(g)
  <2>1. Body(g) = Body(file) \cup {Len(file.lines) + 1}
    BY <1>3, <1>6, <1>8, JournalConstants DEF Body
  <2>2. \A i \in Body(file) : l[i] = file.lines[i] /\ i < Len(file.lines) + 1
    BY <1>3, <1>6, JournalConstants DEF Body
  <2>3. /\ HeaderLength <= Len(l)
        /\ \A i \in 1 .. HeaderLength : l[i] = WJ!HeaderLine(i)
    BY <1>1, <1>3, <1>6, JournalConstants DEF Marked
  <2>4. \A i \in Body(g) : l[i].kind = "mark" /\ l[i].number \in 1 .. finished
    BY <1>1, <1>3, <1>5, <1>7, <2>1, <2>2 DEF Marked
  <2>5. \A i, j \in Body(g) : i < j => l[i].number < l[j].number
    <3> TAKE i, j \in Body(g)
    <3> HAVE i < j
    <3>1. i \in Body(file)
      BY <1>3, <1>6, <1>8, JournalConstants DEF Body
    <3>2. CASE j \in Body(file)
      BY <1>1, <2>2, <3>1, <3>2 DEF Marked
    <3>3. CASE j = Len(file.lines) + 1
      BY <1>1, <1>3, <1>5, <2>2, <3>1, <3>3 DEF Behind
    <3> QED BY <2>1, <3>2, <3>3
  <2>6. \A n \in acknowledged : \E i \in Body(g) : l[i].number = n
    BY <1>1, <2>1, <2>2 DEF Marked
  <2> HIDE DEF Body
  <2> QED BY <1>8, <2>3, <2>4, <2>5, <2>6 DEF Marked
<1>9. /\ WJ!WithLine(file).lines = l /\ Typed(WJ!WithLine(file))
      /\ WJ!WithLine(file).exists
  BY <1>3, <1>4, FileFields
<1>10. Marked(WJ!WithLine(file))
  BY <1>8, <1>9
<1> QED BY <1>3, <1>5, <1>9, <1>10

LEMMA JournalInit == WJ!Init => JournalInv
<1> SUFFICES ASSUME WJ!Init PROVE JournalInv
  OBVIOUS
<1>1. begun \in BOOLEAN /\ ~begun
  BY Zenon DEF WJ!Init
<1>2. \A f \in survivors : f = WJ!NoJournal
  BY DEF WJ!Init
<1> QED BY <1>1, <1>2, NoJournalFields, JournalConstants DEF WJ!Init, JournalInv

(* Every step of the journal and a power cut preserve the invariant: a file  *)
(* that was Short or Marked stays so, and a new one is either.              *)
LEMMA JournalStep ==
    ASSUME JournalInv, WJ!Next
    PROVE  JournalInv'
<1> USE JournalConstants
<1> DEFINE Kept == /\ finished' \in Nat /\ finished <= finished'
                   /\ acknowledged' = acknowledged
<1>0. Kept => \A f \in survivors : Marked(f) => Marked(f)'
  BY MarkedGrows DEF JournalInv
<1>1. CASE WJ!CreateJournal
  <2> DEFINE g == WJ!File(<< >>, FALSE)
  <2>1. << >> \in Seq(WJ!Line) /\ Len(<< >>) = 0
    OBVIOUS
  <2>2. Typed(g) /\ Short(g) /\ Len(g.lines) = 0
    <3>1. Typed(g) /\ g.lines = << >>
      BY <2>1, FileFields
    <3> HIDE DEF g
    <3> QED BY <2>1, <3>1 DEF Short
  <2> HIDE DEF g
  <2>3. file' = g /\ survivors' = survivors \cup {g}
    BY <1>1 DEF WJ!CreateJournal, WJ!Change, g
  <2>4. Kept
    BY <1>1 DEF JournalInv, WJ!CreateJournal
  <2>5. pc' = "header" /\ (begun' <=> begun) /\ ~begun /\ begun' \in BOOLEAN
    BY <1>1 DEF JournalInv, WJ!CreateJournal
  <2> QED BY <1>0, <1>1, <2>2, <2>3, <2>4, <2>5 DEF JournalInv, WJ!CreateJournal
<1>2. CASE WJ!WriteHeader
  <2> DEFINE g == WJ!File(WJ!HeaderLines, FALSE)
  <2>1. Typed(g) /\ g.lines = WJ!HeaderLines
    BY FileFields, HeaderFiles
  <2>2. Kept /\ acknowledged' = {}
    BY <1>2 DEF JournalInv, WJ!WriteHeader
  <2>3. \A f : f.lines = WJ!HeaderLines => Marked(f)' /\ Len(f.lines) = HeaderLength
    BY <2>2, HeaderFiles DEF Marked, Body
  <2>4. \A f \in WJ!PartsOfHeader : Typed(f) /\ Short(f) /\ Len(f.lines) <= HeaderLength
    BY HeaderFiles DEF Short, Typed
  <2>5. /\ pc' = "flushHeader" => file' = g
        /\ survivors' \subseteq survivors \cup WJ!PartsOfHeader \cup {g}
        /\ file' \in survivors'
    BY <1>2 DEF WJ!WriteHeader
  <2>6. pc' \in {"flushHeader", "refused"} /\ ~begun
    BY <1>2 DEF WJ!WriteHeader, JournalInv
  <2> HIDE DEF g, Kept
  <2>7. \A f \in survivors' : /\ Typed(f) /\ Len(f.lines) <= HeaderLength + finished'
                              /\ Short(f) \/ Marked(f)'
    BY <1>0, <1>2, <2>1, <2>2, <2>3, <2>4, <2>5 DEF JournalInv, WJ!WriteHeader
  <2> QED BY <1>2, <2>2, <2>5, <2>6, <2>7 DEF JournalInv, WJ!WriteHeader, g
<1>3. CASE WJ!FlushHeader
  <2>1. Kept
    BY <1>3 DEF JournalInv, WJ!FlushHeader
  <2>2. CASE pc' = "refused"
    <3>1. survivors' = survivors /\ (begun' <=> begun) /\ ~begun /\ begun' \in BOOLEAN
      BY <1>3, <2>2 DEF JournalInv, WJ!FlushHeader
    <3> QED BY <1>0, <1>3, <2>1, <2>2, <3>1 DEF JournalInv, WJ!FlushHeader
  <2>3. CASE pc' = "ready"
    <3>1. Marked(file)
      <4>1. file.lines = WJ!HeaderLines
        BY <1>3, HeaderFiles, FileFields DEF JournalInv, WJ!FlushHeader
      <4> QED BY <4>1, HeaderFiles DEF Short, JournalInv
    <3>2. \A f \in survivors' : f = file \/ (f = WJ!NoJournal /\ ~EntryFlushed)
      BY <1>3, <2>3 DEF WJ!FlushHeader
    <3>3. begun' = TRUE /\ file' \in survivors'
      BY <1>3, <2>3 DEF WJ!FlushHeader
    <3>4. begun' \in BOOLEAN /\ begun'
      BY <3>3, Zenon
    <3>5. /\ file' = file /\ finished' = finished
          /\ Typed(file) /\ Len(file.lines) <= HeaderLength + finished /\ Marked(file)'
      BY <1>0, <1>3, <2>1, <3>1 DEF JournalInv, WJ!FlushHeader
    <3>6. \A f \in survivors' : /\ Typed(f) /\ Len(f.lines) <= HeaderLength + finished
                                /\ Short(f) \/ Marked(f)'
                                /\ Marked(f)' \/ (f = WJ!NoJournal /\ ~EntryFlushed)
      BY <3>2, <3>5, NoJournalFields DEF JournalInv, Short
    <3> QED BY <1>3, <2>1, <2>3, <3>3, <3>4, <3>6 DEF JournalInv, WJ!FlushHeader
  <2> QED BY <1>3, <2>2, <2>3 DEF WJ!FlushHeader
<1>4. CASE WJ!UnitFinishes
  <2>1. Kept /\ finished' = finished + 1 /\ begun
    BY <1>4 DEF JournalInv, WJ!UnitFinishes
  <2>2. \A f \in survivors : Marked(f) => Behind(f)'
    BY <2>1 DEF JournalInv, Behind, Marked, Body
  <2>3. \A f \in survivors : f = WJ!NoJournal => Behind(f)'
    BY <2>1, NoJournalFields DEF JournalInv, Behind, Body, Short
  <2>4. pc' = "truncate" => file.exists
    BY <1>4 DEF WJ!UnitFinishes
  <2>5. pc' = "truncate" => Marked(file)
    BY <1>4, <2>4, NoJournalFields DEF WJ!UnitFinishes, JournalInv
  <2>6. survivors' = survivors /\ file' = file /\ pc' \in {"truncate", "ready"}
    BY <1>4 DEF WJ!UnitFinishes
  <2>7. (begun' <=> begun) /\ begun' \in BOOLEAN
    BY <1>4 DEF JournalInv, WJ!UnitFinishes
  <2>8. finished' \in 0 .. MaxUnits
    BY <1>4 DEF JournalInv, WJ!UnitFinishes
  <2>9. \A f \in survivors' :
            /\ Typed(f) /\ Len(f.lines) <= HeaderLength + finished' /\ Behind(f)'
            /\ Short(f) \/ Marked(f)'
            /\ Marked(f)' \/ (f = WJ!NoJournal /\ ~EntryFlushed)
    BY <1>0, <2>1, <2>2, <2>3, <2>6 DEF JournalInv
  <2>10. pc' = "truncate" => Marked(file)'
    BY <1>0, <2>1, <2>5, <2>6 DEF JournalInv
  <2> QED BY <1>4, <2>1, <2>6, <2>7, <2>8, <2>9, <2>10 DEF JournalInv, WJ!UnitFinishes
<1>5. CASE WJ!Truncate
  <2> DEFINE g == WJ!File(file.lines, FALSE)
  <2>1. Kept /\ Marked(file) /\ file \in survivors /\ Typed(file)
    BY <1>5 DEF JournalInv, WJ!Truncate
  <2>2. file.lines # << >>
    BY <2>1 DEF Marked
  <2>3. Typed(g) /\ g.lines = file.lines /\ ~g.tail
    BY <2>1, FileFields DEF Typed
  <2>4. file' = g /\ survivors' = survivors \cup {g} /\ pc' = "append"
    BY <1>5, <2>2 DEF WJ!Truncate, WJ!Change
  <2> HIDE DEF g
  <2>5. Marked(g) /\ Behind(g)
    BY <1>5, <2>1, <2>3 DEF JournalInv, WJ!Truncate, Marked, Behind, Body
  <2>6. \A f \in survivors' : Marked(f) => Marked(f)'
    BY <1>0, <1>5, <2>1, <2>4, <2>5, MarkedGrows DEF JournalInv
  <2>7. \A f \in survivors' : Behind(f)'
    BY <1>5, <2>4, <2>5 DEF JournalInv, WJ!Truncate, Behind, Body
  <2> QED BY <1>5, <2>1, <2>3, <2>4, <2>5, <2>6, <2>7 DEF JournalInv, WJ!Truncate
<1>6. CASE WJ!AppendLine
  <2> DEFINE g == WJ!WithLine(file)
             t == WJ!WithTail(file)
  <2>1. Kept /\ (begun' <=> begun) /\ begun /\ begun' \in BOOLEAN /\ finished' = finished
    BY <1>6 DEF JournalInv, WJ!AppendLine
  <2>2. Marked(file) /\ Typed(file) /\ Behind(file)
    BY <1>6 DEF JournalInv, WJ!AppendLine
  <2>3. Typed(t) /\ t.lines = file.lines
    BY <2>2, FileFields DEF Typed, WJ!WithTail
  <2>4. /\ Typed(g) /\ Marked(g) /\ Len(g.lines) = Len(file.lines) + 1
        /\ g.lines[Len(g.lines)].number = finished
    BY <1>6, AppendedMark DEF WJ!AppendLine
  <2>5. /\ file' \in {file, t, g} /\ pc' \in {"ready", "flush"}
        /\ pc' = "flush" => file' = g
        /\ survivors' = survivors \cup {t, file'}
    BY <1>6 DEF WJ!AppendLine
  <2> HIDE DEF g, t
  <2>6. Marked(t) /\ Len(t.lines) <= HeaderLength + finished
    BY <2>2, <2>3 DEF Marked, Body, Behind, JournalInv
  <2>7. Len(g.lines) <= HeaderLength + finished
    BY <2>2, <2>4 DEF Behind, JournalInv, Typed
  <2>8. \A f \in survivors' :
            /\ Typed(f) /\ Len(f.lines) <= HeaderLength + finished
            /\ Marked(f) \/ (f = WJ!NoJournal /\ ~EntryFlushed)
    BY <2>1, <2>2, <2>3, <2>4, <2>5, <2>6, <2>7 DEF JournalInv
  <2>9. \A f : Marked(f) => Marked(f)'
    BY <2>1, MarkedGrows DEF JournalInv
  <2>10. \A f \in survivors' : Short(f) \/ Marked(f)'
    BY <2>8, <2>9, NoJournalFields
  <2>11. pc' = "flush" => /\ Marked(file)' /\ Len(file'.lines) > HeaderLength
                          /\ file'.lines[Len(file'.lines)].number = finished
    <3>1. Len(g.lines) > HeaderLength
      BY <2>2, <2>4 DEF Marked, Typed
    <3> QED BY <2>4, <2>5, <2>9, <3>1
  <2>12. file' \in survivors'
    BY <2>5
  <2> QED BY <1>6, <2>1, <2>5, <2>8, <2>9, <2>10, <2>11, <2>12 DEF JournalInv, WJ!AppendLine
<1>7. CASE WJ!FlushLine
  <2>1. /\ (begun' <=> begun) /\ begun /\ begun' \in BOOLEAN
        /\ finished' = finished /\ finished \in Nat /\ file' = file /\ pc' = "ready"
    BY <1>7 DEF JournalInv, WJ!FlushLine
  <2>2. CASE UNCHANGED <<survivors, acknowledged>>
    <3>1. Kept
      BY <2>1, <2>2
    <3> QED BY <1>0, <1>7, <2>1, <2>2, <3>1 DEF JournalInv, WJ!FlushLine
  <2>3. CASE /\ survivors' = IF WJ!NoJournal \in survivors THEN {file, WJ!NoJournal} ELSE {file}
             /\ acknowledged' = acknowledged \cup {finished}
    <3>1. /\ Marked(file) /\ Typed(file) /\ Len(file.lines) > HeaderLength
          /\ file.lines[Len(file.lines)].number = finished
      BY <1>7 DEF JournalInv, WJ!FlushLine
    <3>2. Len(file.lines) \in Body(file)
      BY <3>1 DEF Body, Typed
    <3>3. finished \in 1 .. finished
      BY <3>1, <3>2 DEF Marked
    <3>4. Marked(file)'
      BY <2>1, <2>3, <3>1, <3>2 DEF Marked, Body
    <3>5. acknowledged' \in SUBSET (1 .. MaxUnits)
      BY <2>3, <3>3 DEF JournalInv
    <3>6. \A f \in survivors' : \/ f = file
                                \/ f = WJ!NoJournal /\ WJ!NoJournal \in survivors
      BY <2>3
    <3>7. WJ!NoJournal \in survivors => ~EntryFlushed
      <4>1. HeaderLength <= Len(WJ!NoJournal.lines) => FALSE
        BY NoJournalFields DEF Short, Typed
      <4> QED BY <2>1, <4>1 DEF JournalInv, Marked
    <3>8. \A f \in survivors' :
              /\ Typed(f) /\ Len(f.lines) <= HeaderLength + finished
              /\ Short(f) \/ Marked(f)'
              /\ Marked(f)' \/ (f = WJ!NoJournal /\ ~EntryFlushed)
      BY <2>1, <3>1, <3>4, <3>6, <3>7, NoJournalFields DEF JournalInv
    <3>9. file' \in survivors'
      BY <2>1, <2>3
    <3> QED BY <1>7, <2>1, <3>5, <3>8, <3>9 DEF JournalInv, WJ!FlushLine
  <2> QED BY <1>7, <2>2, <2>3 DEF WJ!FlushLine
<1>8. CASE WJ!Crash
  <2>1. Kept /\ file' \in survivors /\ survivors' = {file'}
    BY <1>8 DEF JournalInv, WJ!Crash
  <2>2. pc' \in {"ready", "refused"} /\ (pc' = "ready" <=> begun)
    BY <1>8 DEF WJ!Crash
  <2>3. (begun' <=> begun) /\ begun' \in BOOLEAN
    BY <1>8 DEF JournalInv, WJ!Crash
  <2> QED BY <1>0, <1>8, <2>1, <2>2, <2>3 DEF JournalInv, WJ!Crash
<1> QED BY <1>1, <1>2, <1>3, <1>4, <1>5, <1>6, <1>7, <1>8 DEF WJ!Next

LEMMA JournalStutter == JournalInv /\ UNCHANGED WJ!vars => JournalInv'
<1> SUFFICES ASSUME JournalInv, UNCHANGED WJ!vars PROVE JournalInv'
  OBVIOUS
<1>1. \A f : Marked(f)' <=> Marked(f)
  BY DEF Marked, WJ!vars
<1>2. \A f : Behind(f)' <=> Behind(f)
  BY DEF Behind, WJ!vars
<1>3. /\ file' = file /\ survivors' = survivors /\ pc' = pc /\ begun' = begun
      /\ finished' = finished /\ acknowledged' = acknowledged /\ crashes' = crashes
  BY DEF WJ!vars
<1> QED BY <1>1, <1>2, <1>3 DEF JournalInv

StorageJournal == subject = "journal" => JournalInv

LEMMA StorageJournalInvariant == Spec => []StorageJournal
<1>1. Init => StorageJournal
  BY JournalInit DEF Init, StorageJournal
<1>2. StorageJournal /\ [Next]_vars => StorageJournal'
  BY JournalStep, JournalStutter DEF Next, StorageJournal, vars, WJ!vars
<1> QED BY <1>1, <1>2, PTL DEF Spec

(* A journal that was begun reads back, every acknowledged mark is loaded,    *)
(* and what is loaded was finished in that order, after torn lines, failed   *)
(* appends and power cuts, where a file that was flushed keeps its name      *)
(* (AppendJournalMark and ParseJournal).                                    *)
THEOREM JournalIsAlwaysHistory == ASSUME EntryFlushed PROVE Spec => []JournalIsHistory
<1>1. StorageJournal => JournalIsHistory
  BY JournalSafety DEF StorageJournal, JournalIsHistory
<1> QED BY <1>1, StorageJournalInvariant, PTL

(* Where a power cut may take a new journal's name away, what is read is      *)
(* history all the same: a journal that is there is whole.                   *)
THEOREM JournalReadIsAlwaysHistory ==
    Spec => [](subject = "journal" => WJ!AcknowledgedMarksSurvive /\ WJ!MarksAreHistory)
<1>1. JournalInv => WJ!AcknowledgedMarksSurvive /\ WJ!MarksAreHistory
  BY JournalSafety
<1>2. StorageJournal => (subject = "journal" => WJ!AcknowledgedMarksSurvive /\ WJ!MarksAreHistory)
  BY <1>1 DEF StorageJournal
<1> QED BY <1>2, StorageJournalInvariant, PTL

-----------------------------------------------------------------------------
(***************************************************************************)
(* The resumption.  That the chip ends up as wanted is not inductive: what  *)
(* remains, done in the order of the plan, has to lead there from whatever  *)
(* is on the chip.  A byte that a remaining unit programs and none erases    *)
(* has lost no bit it is to keep; one that is erased and not programmed is   *)
(* to be erased; one that nothing touches is right.  An interruption half    *)
(* way, and a unit done again, keep all of it.                             *)
(***************************************************************************)
NP == INSTANCE NORPlanner_proofs

LEMMA ResumeConstants ==
    /\ NP!ChipAssumption /\ NP!GeometryAssumption
    /\ RD!ResumeAssumption /\ ChipSize \in Nat \ {0}
BY StorageAssumptions
   DEF RD!ChipAssumption, NP!ChipAssumption, RD!GeometryAssumption,
       NP!GeometryAssumption, RD!ValidGeometry, NP!ValidGeometry

LEMMA SamePieces ==
    /\ \A image, p, a, n :
          RD!Overlay(image, p, a, n) = NP!Overlay(image, p, a, n)
    /\ \A a : RD!PageOf(a) = NP!PageOf(a)
    /\ \A b : RD!BlockRange(b) = NP!BlockRange(b)
    /\ \A x, y : RD!ByteNeedsErase(x, y) <=> NP!ByteNeedsErase(x, y)
    /\ \A b, a, n : RD!Touches(b, a, n) <=> NP!Touches(b, a, n)
    /\ RD!Addr = NP!Addr /\ RD!Erased = NP!Erased
    /\ RD!Byte = NP!Byte /\ RD!Image = NP!Image
BY DEF RD!Overlay, NP!Overlay, RD!Touches, NP!Touches, RD!PageOf, NP!PageOf,
       RD!ByteNeedsErase, NP!ByteNeedsErase, RD!BlockRange, NP!BlockRange,
       RD!Erased, NP!Erased, RD!Addr, NP!Addr, RD!Byte, NP!Byte, RD!Image,
       NP!Image

LEMMA SameSteps ==
    /\ RD!Step = NP!Step /\ \A s : RD!StepRange(s) = NP!StepRange(s)
    /\ \A s : RD!Destructive(s) <=> NP!Destructive(s)
BY SamePieces DEF RD!Step, NP!Step, RD!StepRange, NP!StepRange, RD!Destructive,
                  NP!Destructive

LEMMA SameFlat == \A s : RD!FlattenSeq(s) = NP!FlattenSeq(s)
BY Zenon DEF RD!FlattenSeq, NP!FlattenSeq

LEMMA SameRuns ==
    \A block, needs, desired :
        RD!ProgramRuns(block, needs, desired) = NP!ProgramRuns(block, needs, desired)
<1>1. \A block, needs, a : RD!RunStarts(block, needs, a) = NP!RunStarts(block, needs, a)
  BY SamePieces, Zenon DEF RD!RunStarts, NP!RunStarts
<1>2. \A needs, a : RD!RunEnd(needs, a) = NP!RunEnd(needs, a)
  BY SamePieces, Zenon DEF RD!RunEnd, NP!RunEnd
<1> QED BY SamePieces, SameFlat, <1>1, <1>2, Zenon DEF RD!ProgramRuns, NP!ProgramRuns

LEMMA SameBlockSteps ==
    \A block, current, desired :
        RD!BlockSteps(block, current, desired) = NP!BlockSteps(block, current, desired)
<1> TAKE block, current, desired
<1>1. RD!BlockRange(block) = NP!BlockRange(block) /\ RD!Erased = NP!Erased
  BY SamePieces, Zenon
<1>2. (\E a \in RD!BlockRange(block) : RD!ByteNeedsErase(current[a], desired[a]))
         = (\E a \in NP!BlockRange(block) : NP!ByteNeedsErase(current[a], desired[a]))
  BY SamePieces, <1>1
<1> QED BY SameRuns, <1>1, <1>2, Zenon DEF RD!BlockSteps, NP!BlockSteps

LEMMA SamePlan ==
    \A current, patched, a, n :
        RD!DifferentialPlan(current, patched, a, n)
           = NP!DifferentialPlan(current, patched, a, n)
<1>1. \A current, desired, a, n :
         RD!PerBlock(current, desired, a, n) = NP!PerBlock(current, desired, a, n)
  BY SamePieces, SameBlockSteps, Zenon DEF RD!PerBlock, NP!PerBlock
<1> QED BY SamePieces, SameFlat, <1>1, Zenon DEF RD!DifferentialPlan, NP!DifferentialPlan

(* Does a unit of this kind among those of q cover x?                       *)
Covers(steps, q, kind, x) ==
    \E i \in q : steps[i].kind = kind /\ x \in RD!StepRange(steps[i])

(* The units q, done in order from m, leave wanted.                         *)
ReadyAt(steps, q, m, wanted, x) ==
    /\ ~Covers(steps, q, "erase", x) /\ ~Covers(steps, q, "program", x) =>
          m[x] = wanted[x]
    /\ ~Covers(steps, q, "erase", x) /\ Covers(steps, q, "program", x) =>
          m[x] \subseteq wanted[x]
    /\ Covers(steps, q, "erase", x) /\ ~Covers(steps, q, "program", x) =>
          wanted[x] = RD!Erased
Ready(steps, q, m, wanted) == \A x \in RD!Addr : ReadyAt(steps, q, m, wanted, x)

(* What the resumption uses of the plan.                                    *)
ResumePlanSound(steps, q, wanted) ==
    /\ q \subseteq Nat /\ wanted \in RD!Image
    /\ \A i \in q : /\ steps[i] \in RD!Step /\ RD!Destructive(steps[i])
                    /\ steps[i].data = wanted
    /\ \A i, j \in q :
          steps[i].kind = steps[j].kind /\ steps[i].address = steps[j].address => i = j
    /\ \A i, j \in q :
          i < j /\ steps[j].kind = "erase" =>
             RD!StepRange(steps[i]) \cap RD!StepRange(steps[j]) = {}

LEMMA ResumePlan ==
    ASSUME NEW b \in RD!Image, NEW p \in [address : Nat, length : Nat, data : RD!Image],
           NEW steps, steps = RD!DifferentialPlan(b, p.data, p.address, p.length).steps,
           NEW wanted, wanted = RD!Overlay(b, p.data, p.address, p.length),
           NEW q, q = {i \in DOMAIN steps : RD!Destructive(steps[i])}
    PROVE  ResumePlanSound(steps, q, wanted) /\ Ready(steps, q, b, wanted)
<1> DEFINE plan == NP!DifferentialPlan(b, p.data, p.address, p.length)
<1>1. /\ b \in NP!Image /\ p.data \in NP!Image /\ p.address \in Nat /\ p.length \in Nat
  BY SamePieces
<1>2. steps = plan.steps /\ wanted = NP!Overlay(b, p.data, p.address, p.length)
  BY SamePieces, SamePlan, Zenon
<1>3. NP!PlanIsSound(plan.steps, b, wanted) /\ NP!UnitsAreSound(plan.steps, b, wanted)
  BY <1>1, <1>2, ResumeConstants, NP!PlanSound, NP!UnitsSound
<1>4. wanted \in RD!Image
  BY <1>1, <1>2, SamePieces, ResumeConstants, NP!OverlayShape
<1> HIDE DEF plan
<1>5. /\ steps \in Seq(RD!Step) /\ \A j \in DOMAIN steps : steps[j].data = wanted
  BY <1>2, <1>3, SameSteps DEF NP!PlanIsSound
<1>6. /\ \A i, j \in DOMAIN steps :
            /\ RD!Destructive(steps[i])
            /\ steps[i].kind = steps[j].kind /\ steps[i].address = steps[j].address
            => i = j
      /\ \A i, j \in DOMAIN steps :
            i < j /\ RD!Destructive(steps[i]) /\ steps[j].kind = "erase" =>
               RD!StepRange(steps[i]) \cap RD!StepRange(steps[j]) = {}
  BY <1>2, <1>3, SameSteps DEF NP!UnitsAreSound
<1>7. \A i \in DOMAIN steps : \A x \in RD!StepRange(steps[i]) :
         /\ steps[i].kind = "program" =>
               \/ b[x] \subseteq wanted[x]
               \/ \E j \in DOMAIN steps :
                     steps[j].kind = "erase" /\ x \in RD!StepRange(steps[j])
         /\ steps[i].kind = "erase" =>
               \/ wanted[x] = RD!Erased
               \/ \E j \in DOMAIN steps :
                     steps[j].kind = "program" /\ x \in RD!StepRange(steps[j])
  BY <1>2, <1>3, SameSteps, SamePieces DEF NP!UnitsAreSound
<1>8. \A x \in RD!Addr :
         \/ wanted[x] = b[x]
         \/ \E j \in DOMAIN steps :
               RD!Destructive(steps[j]) /\ x \in RD!StepRange(steps[j])
  BY <1>2, <1>3, SameSteps, SamePieces DEF NP!UnitsAreSound
<1>9. q \subseteq Nat /\ \A i \in q : i \in DOMAIN steps /\ steps[i] \in RD!Step
  BY <1>5
<1>10. ResumePlanSound(steps, q, wanted)
  BY <1>4, <1>5, <1>6, <1>9 DEF ResumePlanSound
<1>11. \A x : /\ Covers(steps, q, "erase", x) <=>
                    \E j \in DOMAIN steps :
                       steps[j].kind = "erase" /\ x \in RD!StepRange(steps[j])
              /\ Covers(steps, q, "program", x) <=>
                    \E j \in DOMAIN steps :
                       steps[j].kind = "program" /\ x \in RD!StepRange(steps[j])
  BY DEF Covers, RD!Destructive
<1>12. Ready(steps, q, b, wanted)
  BY <1>7, <1>8, <1>11 DEF Ready, ReadyAt, RD!Destructive
<1> QED BY <1>10, <1>12

(* A unit that is still to be done may have been done, or done in part.      *)
LEMMA ReadyStays ==
    ASSUME NEW steps, NEW all, NEW wanted, ResumePlanSound(steps, all, wanted),
           NEW q, q \subseteq all, NEW k \in q, NEW m \in RD!Image,
           Ready(steps, q, m, wanted),
           NEW cells, cells \subseteq RD!StepRange(steps[k]),
           NEW after, after = RD!Effect(m, steps[k], cells)
    PROVE  after \in RD!Image /\ Ready(steps, q, after, wanted)
<1>1. /\ steps[k] \in RD!Step /\ steps[k].kind \in {"erase", "program"}
      /\ steps[k].data = wanted /\ wanted \in RD!Image
  BY DEF ResumePlanSound, RD!Destructive
<1>2. after \in RD!Image
  BY <1>1 DEF RD!Effect, RD!Image, RD!Byte, RD!Erased
<1>3. \A x \in RD!Addr :
         after[x] = IF x \notin cells THEN m[x]
                    ELSE IF steps[k].kind = "erase" THEN RD!Erased
                    ELSE m[x] \cup wanted[x]
  BY <1>1 DEF RD!Effect
<1>4. ASSUME NEW x \in RD!Addr
      PROVE  ReadyAt(steps, q, after, wanted, x)
  <2>1. ReadyAt(steps, q, m, wanted, x)
    BY DEF Ready
  <2>2. CASE x \notin cells
    BY <2>1, <2>2, <1>3 DEF ReadyAt
  <2>3. CASE x \in cells
    <3>1. Covers(steps, q, steps[k].kind, x)
      BY <2>3 DEF Covers
    <3>2. CASE steps[k].kind = "erase"
      BY <2>1, <3>1, <3>2 DEF ReadyAt
    <3>3. CASE steps[k].kind = "program"
      <4>1. ~Covers(steps, q, "erase", x) => after[x] \subseteq wanted[x]
        BY <2>1, <2>3, <3>1, <3>3, <1>3 DEF ReadyAt
      <4> QED BY <2>1, <3>1, <3>3, <4>1 DEF ReadyAt
    <3> QED BY <3>2, <3>3, <1>1
  <2> QED BY <2>2, <2>3
<1> QED BY <1>2, <1>4 DEF Ready

(* The first unit that is to be done is done.                               *)
LEMMA ReadyNext ==
    ASSUME NEW steps, NEW all, NEW wanted, ResumePlanSound(steps, all, wanted),
           NEW q, q \subseteq all, NEW k \in q, \A j \in q : k <= j,
           NEW m \in RD!Image, Ready(steps, q, m, wanted),
           NEW after, after = RD!Effect(m, steps[k], RD!StepRange(steps[k]))
    PROVE  Ready(steps, q \ {k}, after, wanted)
<1>1. /\ steps[k] \in RD!Step /\ steps[k].kind \in {"erase", "program"}
      /\ steps[k].data = wanted /\ wanted \in RD!Image
  BY DEF ResumePlanSound, RD!Destructive
<1>2. \A x \in RD!Addr :
         after[x] = IF x \notin RD!StepRange(steps[k]) THEN m[x]
                    ELSE IF steps[k].kind = "erase" THEN RD!Erased
                    ELSE m[x] \cup wanted[x]
  BY <1>1 DEF RD!Effect
<1>3. ASSUME NEW x \in RD!Addr
      PROVE  ReadyAt(steps, q \ {k}, after, wanted, x)
  <2> DEFINE E  == Covers(steps, q, "erase", x)
             P  == Covers(steps, q, "program", x)
             E1 == Covers(steps, q \ {k}, "erase", x)
             P1 == Covers(steps, q \ {k}, "program", x)
  <2>1. /\ ~E /\ ~P => m[x] = wanted[x]
        /\ ~E /\ P => m[x] \subseteq wanted[x]
        /\ E /\ ~P => wanted[x] = RD!Erased
    BY DEF Ready, ReadyAt
  <2>2. CASE x \notin RD!StepRange(steps[k])
    <3>1. (E <=> E1) /\ (P <=> P1)
      BY <2>2 DEF Covers
    <3>2. after[x] = m[x]
      BY <2>2, <1>2
    <3> HIDE DEF E, P, E1, P1
    <3>3. /\ ~E1 /\ ~P1 => after[x] = wanted[x]
          /\ ~E1 /\ P1 => after[x] \subseteq wanted[x]
          /\ E1 /\ ~P1 => wanted[x] = RD!Erased
      BY <2>1, <3>1, <3>2
    <3> QED BY <3>3 DEF ReadyAt, E1, P1
  <2>3. CASE x \in RD!StepRange(steps[k]) /\ steps[k].kind = "erase"
    <3>1. E /\ (P <=> P1)
      BY <2>3 DEF Covers
    <3>2. after[x] = RD!Erased
      BY <2>3, <1>2
    <3>3. RD!Erased \subseteq wanted[x]
      BY DEF RD!Erased
    <3> HIDE DEF E, P, E1, P1
    <3>4. /\ ~P1 => wanted[x] = RD!Erased
          /\ after[x] \subseteq wanted[x]
      BY <2>1, <3>1, <3>2, <3>3
    <3> QED BY <3>2, <3>4 DEF ReadyAt, E1, P1
  <2>4. CASE x \in RD!StepRange(steps[k]) /\ steps[k].kind = "program"
    <3>1. ~E
      <4> SUFFICES ASSUME NEW j \in q, steps[j].kind = "erase",
                          x \in RD!StepRange(steps[j])
                   PROVE  FALSE
        BY DEF Covers
      <4>1. k < j
        <5>1. k \in Nat /\ j \in Nat /\ k <= j /\ k # j
          BY <2>4 DEF ResumePlanSound
        <5> QED BY <5>1
      <4> QED BY <2>4, <4>1 DEF ResumePlanSound
    <3>2. P /\ ~E1
      BY <2>4, <3>1 DEF Covers
    <3>3. after[x] = m[x] \cup wanted[x]
      BY <2>4, <1>2
    <3> HIDE DEF E, P, E1, P1
    <3>4. after[x] = wanted[x]
      BY <2>1, <3>1, <3>2, <3>3
    <3> QED BY <3>2, <3>4 DEF ReadyAt, E1, P1
  <2> QED BY <1>1, <2>2, <2>3, <2>4
<1> QED BY <1>3 DEF Ready

(* Nothing is left to be done.                                              *)
LEMMA ReadyEnd ==
    ASSUME NEW steps, NEW wanted \in RD!Image, NEW m \in RD!Image,
           Ready(steps, {}, m, wanted)
    PROVE  m = wanted
<1>1. \A x \in RD!Addr : m[x] = wanted[x]
  BY DEF Ready, ReadyAt, Covers
<1> QED BY <1>1 DEF RD!Image

(* A journal that lost a mark gets no more in this attempt, so what an       *)
(* attempt has still to do remains by the marks too.                        *)
ResumeInv ==
    /\ before \in RD!Image
    /\ patch \in [address : Nat, length : Nat, data : RD!Image]
    /\ mem \in RD!Image /\ losing \in BOOLEAN
    /\ todo \subseteq RD!Units
    /\ phase = "writing" =>
          /\ todo \subseteq RD!Remaining
          /\ ~losing => todo = RD!Remaining
          /\ Ready(RD!Steps, todo, mem, RD!Wanted)
    /\ phase \in {"writing", "interrupted"} =>
          Ready(RD!Steps, RD!Remaining, mem, RD!Wanted)
    /\ RD!ResumeFinishesTheJob

LEMMA ResumeNow ==
    ASSUME ResumeInv
    PROVE  /\ ResumePlanSound(RD!Steps, RD!Units, RD!Wanted)
           /\ RD!Remaining \subseteq RD!Units
<1>1. /\ before \in RD!Image /\ patch \in [address : Nat, length : Nat, data : RD!Image]
  BY DEF ResumeInv
<1>2. ResumePlanSound(RD!Steps, RD!Units, RD!Wanted)
  BY <1>1, ResumePlan, Zenon DEF RD!Steps, RD!Units, RD!Wanted
<1> QED BY <1>2 DEF RD!Remaining

LEMMA ResumeInit == RD!Init => ResumeInv
<1> SUFFICES ASSUME RD!Init
             PROVE  ResumeInv
  OBVIOUS
<1>1. /\ before \in RD!Image /\ patch \in [address : Nat, length : Nat, data : RD!Image]
      /\ mem = before /\ marks = {} /\ losing = FALSE /\ todo = RD!Units
      /\ phase = "writing"
  BY ResumeConstants DEF RD!Init, RD!ResumeAssumption
<1>2. Ready(RD!Steps, RD!Units, before, RD!Wanted)
  BY <1>1, ResumePlan, Zenon DEF RD!Steps, RD!Units, RD!Wanted
<1>3. RD!Remaining = RD!Units
  BY <1>1 DEF RD!Remaining
<1> QED BY <1>1, <1>2, <1>3 DEF ResumeInv, RD!ResumeFinishesTheJob

(* The first unit of the plan that is to be done.                           *)
LEMMA ResumeFirst ==
    ASSUME ResumeInv, todo # {}
    PROVE  RD!First \in todo /\ \A j \in todo : RD!First <= j
<1>1. todo \in SUBSET Nat
  BY ResumeNow DEF ResumePlanSound, ResumeInv
<1>2. \E i \in todo : \A j \in todo : i <= j
  BY <1>1, ResumeConstants, NP!Least
<1> QED BY <1>2 DEF RD!First

(* While before and patch stay, so does the plan.                           *)
LEMMA ResumeFrame ==
    ASSUME UNCHANGED <<before, patch>>
    PROVE  /\ RD!Steps' = RD!Steps /\ RD!Units' = RD!Units /\ RD!Wanted' = RD!Wanted
           /\ RD!Remaining' = {i \in RD!Units :
                                  ~\E m \in marks' : RD!SameUnit(RD!Steps[i], m)}
           /\ marks' = marks => RD!Remaining' = RD!Remaining
<1>1. RD!Steps' = RD!Steps /\ RD!Wanted' = RD!Wanted
  BY DEF RD!Steps, RD!Wanted
<1>2. RD!Units' = RD!Units
  BY <1>1 DEF RD!Units
<1> QED BY <1>1, <1>2 DEF RD!Remaining

LEMMA ResumeDoUnit ==
    ASSUME ~AnyLoss, ResumeInv, RD!DoUnit
    PROVE  ResumeInv'
<1>1. /\ before' = before /\ patch' = patch /\ phase' = phase /\ phase = "writing"
      /\ todo # {} /\ todo' = todo \ {RD!First}
      /\ mem' = RD!Effect(mem, RD!Steps[RD!First], RD!StepRange(RD!Steps[RD!First]))
  BY DEF RD!DoUnit, RD!Current
<1>2. /\ todo \subseteq RD!Remaining
      /\ ~losing => todo = RD!Remaining
      /\ Ready(RD!Steps, todo, mem, RD!Wanted)
      /\ Ready(RD!Steps, RD!Remaining, mem, RD!Wanted)
      /\ mem \in RD!Image /\ todo \subseteq RD!Units
  BY <1>1 DEF ResumeInv
<1>3. RD!First \in todo /\ \A j \in todo : RD!First <= j
  BY <1>1, ResumeFirst
<1>4. /\ ResumePlanSound(RD!Steps, RD!Units, RD!Wanted)
      /\ RD!Remaining \subseteq RD!Units
  BY ResumeNow
<1>5. /\ RD!Steps' = RD!Steps /\ RD!Units' = RD!Units /\ RD!Wanted' = RD!Wanted
      /\ RD!Remaining' = {i \in RD!Units :
                             ~\E m \in marks' : RD!SameUnit(RD!Steps[i], m)}
      /\ marks' = marks => RD!Remaining' = RD!Remaining
  BY <1>1, ResumeFrame
<1>6. Ready(RD!Steps, todo \ {RD!First}, mem', RD!Wanted)
  BY <1>1, <1>2, <1>3, <1>4, ReadyNext
<1>7. mem' \in RD!Image /\ Ready(RD!Steps, RD!Remaining, mem', RD!Wanted)
  <2>1. RD!First \in RD!Remaining
    BY <1>2, <1>3
  <2> QED BY <1>1, <1>2, <1>4, <2>1, ReadyStays
<1>8. /\ before' \in RD!Image /\ mem' \in RD!Image
      /\ patch' \in [address : Nat, length : Nat, data : RD!Image]
      /\ todo' \subseteq RD!Units' /\ phase' = "writing" /\ losing \in BOOLEAN
      /\ Ready(RD!Steps', todo', mem', RD!Wanted')
      /\ RD!ResumeFinishesTheJob'
  <2>1. /\ before' \in RD!Image /\ losing \in BOOLEAN
        /\ patch' \in [address : Nat, length : Nat, data : RD!Image]
    BY <1>1 DEF ResumeInv
  <2>2. todo' \subseteq RD!Units' /\ phase' = "writing"
    BY <1>1, <1>2, <1>5
  <2>3. Ready(RD!Steps', todo', mem', RD!Wanted')
    BY <1>1, <1>5, <1>6
  <2>4. RD!ResumeFinishesTheJob'
    BY <2>2 DEF RD!ResumeFinishesTheJob
  <2> QED BY <1>7, <2>1, <2>2, <2>3, <2>4
<1>9. CASE marks' = marks /\ losing' = TRUE
  <2>1. RD!Remaining' = RD!Remaining
    BY <1>5, <1>9
  <2>2. Ready(RD!Steps', RD!Remaining', mem', RD!Wanted')
    BY <1>5, <1>7, <2>1
  <2>3. todo' \subseteq RD!Remaining'
    BY <1>1, <1>2, <2>1
  <2> QED BY <1>9, <1>8, <2>2, <2>3 DEF ResumeInv
<1>10. CASE /\ losing => AnyLoss
           /\ marks' = marks \cup {RD!Mark(RD!Current)} /\ losing' = losing
  <2>1. ~losing /\ todo = RD!Remaining
    BY <1>2, <1>10
  <2>2. \A i \in RD!Units : RD!SameUnit(RD!Steps[i], RD!Mark(RD!Current)) <=> i = RD!First
    <3>1. \A i \in RD!Units :
             RD!Mark(RD!Steps[i]) = RD!Mark(RD!Steps[RD!First]) => i = RD!First
      <4>1. RD!First \in RD!Units
        BY <1>2, <1>3
      <4>2. \A u, v : RD!Mark(u) = RD!Mark(v) => u.kind = v.kind /\ u.address = v.address
        BY DEF RD!Mark
      <4> QED BY <1>4, <4>1, <4>2 DEF ResumePlanSound
    <3> QED BY <3>1 DEF RD!SameUnit, RD!Current
  <2>3. RD!Remaining' = RD!Remaining \ {RD!First}
    BY <1>5, <1>10, <2>2 DEF RD!Remaining
  <2>4. todo' = RD!Remaining'
    BY <1>1, <2>1, <2>3
  <2>5. losing' = losing
    BY <1>10
  <2>6. Ready(RD!Steps', RD!Remaining', mem', RD!Wanted')
    BY <1>8, <2>4
  <2> QED BY <1>8, <2>1, <2>4, <2>5, <2>6 DEF ResumeInv
<1> QED BY <1>9, <1>10 DEF RD!DoUnit

LEMMA ResumeStep ==
    ASSUME ~AnyLoss, ResumeInv, RD!Next
    PROVE  ResumeInv'
<1>1. CASE RD!DoUnit
  BY <1>1, ResumeDoUnit
<1>2. CASE RD!Interrupt
  <2>1. /\ before' = before /\ patch' = patch /\ marks' = marks /\ todo' = todo
        /\ losing' = losing /\ phase = "writing" /\ phase' = "interrupted"
    BY <1>2 DEF RD!Interrupt
  <2>2. /\ RD!Steps' = RD!Steps /\ RD!Units' = RD!Units /\ RD!Wanted' = RD!Wanted
        /\ RD!Remaining' = RD!Remaining
    BY <2>1, ResumeFrame
  <2>3. /\ todo \subseteq RD!Remaining /\ mem \in RD!Image
        /\ Ready(RD!Steps, RD!Remaining, mem, RD!Wanted)
    BY <2>1 DEF ResumeInv
  <2>4. mem' \in RD!Image /\ Ready(RD!Steps, RD!Remaining, mem', RD!Wanted)
    <3>1. CASE mem' = mem
      BY <2>3, <3>1
    <3>2. ASSUME todo # {}, NEW cells \in SUBSET RD!StepRange(RD!Current),
                 mem' = RD!Effect(mem, RD!Current, cells)
          PROVE  mem' \in RD!Image /\ Ready(RD!Steps, RD!Remaining, mem', RD!Wanted)
      <4>1. RD!First \in RD!Remaining
        BY <2>3, <3>2, ResumeFirst
      <4>2. /\ ResumePlanSound(RD!Steps, RD!Units, RD!Wanted)
            /\ RD!Remaining \subseteq RD!Units
        BY ResumeNow
      <4> QED BY <2>3, <3>2, <4>1, <4>2, ReadyStays DEF RD!Current
    <3> QED BY <1>2, <3>1, <3>2 DEF RD!Interrupt
  <2> QED BY <2>1, <2>2, <2>4 DEF ResumeInv, RD!ResumeFinishesTheJob
<1>3. CASE RD!DecideResume
  <2>1. /\ before' = before /\ patch' = patch /\ marks' = marks /\ mem' = mem
        /\ phase = "interrupted"
    BY <1>3 DEF RD!DecideResume
  <2>2. /\ RD!Steps' = RD!Steps /\ RD!Units' = RD!Units /\ RD!Wanted' = RD!Wanted
        /\ RD!Remaining' = RD!Remaining
    BY <2>1, ResumeFrame
  <2>3. Ready(RD!Steps, RD!Remaining, mem, RD!Wanted) /\ mem \in RD!Image
    BY <2>1 DEF ResumeInv
  <2>4. RD!Remaining \subseteq RD!Units /\ RD!Wanted \in RD!Image
    BY ResumeNow DEF ResumePlanSound
  <2>5. CASE phase' = "refused" /\ todo' = todo /\ losing' = losing
    BY <2>1, <2>2, <2>5 DEF ResumeInv, RD!ResumeFinishesTheJob
  <2>6. CASE todo' = RD!Remaining /\ losing' = FALSE /\ RD!Remaining # {} /\ phase' = "writing"
    BY <2>1, <2>2, <2>3, <2>4, <2>6 DEF ResumeInv, RD!ResumeFinishesTheJob
  <2>7. CASE todo' = RD!Remaining /\ losing' = FALSE /\ RD!Remaining = {} /\ phase' = "done"
    <3>1. mem = RD!Wanted
      BY <2>3, <2>4, <2>7, ReadyEnd
    <3> QED BY <2>1, <2>2, <2>3, <2>4, <2>7, <3>1 DEF ResumeInv, RD!ResumeFinishesTheJob
  <2> QED BY <1>3, <2>5, <2>6, <2>7 DEF RD!DecideResume
<1>4. CASE RD!Done
  <2>1. /\ before' = before /\ patch' = patch /\ marks' = marks /\ mem' = mem
        /\ todo' = todo /\ losing' = losing
        /\ phase = "writing" /\ phase' = "done" /\ todo = {}
    BY <1>4 DEF RD!Done
  <2>2. RD!Units' = RD!Units /\ RD!Wanted' = RD!Wanted
    BY <2>1, ResumeFrame
  <2>3. mem = RD!Wanted
    <3>1. Ready(RD!Steps, {}, mem, RD!Wanted) /\ mem \in RD!Image
      BY <2>1 DEF ResumeInv
    <3>2. RD!Wanted \in RD!Image
      BY ResumeNow DEF ResumePlanSound
    <3> QED BY <3>1, <3>2, ReadyEnd
  <2> QED BY <2>1, <2>2, <2>3 DEF ResumeInv, RD!ResumeFinishesTheJob
<1>5. ASSUME NEW what, RD!Move(what)
      PROVE  ResumeInv'
  <2>1. /\ before' = before /\ patch' = patch /\ marks' = marks /\ mem' = mem
        /\ todo' = todo /\ losing' = losing /\ phase' = phase
    BY <1>5 DEF RD!Move
  <2>2. /\ RD!Steps' = RD!Steps /\ RD!Units' = RD!Units /\ RD!Wanted' = RD!Wanted
        /\ RD!Remaining' = RD!Remaining
    BY <2>1, ResumeFrame
  <2> QED BY <2>1, <2>2 DEF ResumeInv, RD!ResumeFinishesTheJob
<1> QED BY <1>1, <1>2, <1>3, <1>4, <1>5 DEF RD!Next

LEMMA ResumeStutter ==
    ASSUME ResumeInv, UNCHANGED <<before, patch, mem, marks, todo, losing, phase>>
    PROVE  ResumeInv'
<1>1. /\ RD!Steps' = RD!Steps /\ RD!Units' = RD!Units /\ RD!Wanted' = RD!Wanted
      /\ RD!Remaining' = RD!Remaining
  BY ResumeFrame
<1> QED BY <1>1 DEF ResumeInv, RD!ResumeFinishesTheJob

StorageResume == subject = "resume" => ResumeInv

LEMMA StorageResumeInvariant == ASSUME ~AnyLoss PROVE Spec => []StorageResume
<1>1. Init => StorageResume
  BY ResumeInit DEF Init, StorageResume
<1>2. StorageResume /\ [Next]_vars => StorageResume'
  <2> SUFFICES ASSUME StorageResume, [Next]_vars, subject' = "resume"
               PROVE  ResumeInv'
    BY DEF StorageResume
  <2>1. CASE subject = "resume" /\ RD!Next
    BY <2>1, ResumeStep DEF StorageResume
  <2>2. CASE UNCHANGED vars
    BY <2>2, ResumeStutter DEF vars, StorageResume
  <2> QED BY <2>1, <2>2 DEF Next
<1> QED BY <1>1, <1>2, PTL DEF Spec

(* If a journal that lost a mark gets no more before the next attempt, doing  *)
(* what DecideResume leaves makes of the chip what the whole plan would      *)
(* have, however often it is cut off in the middle of a command             *)
(* (writejournal.pas:507-593).                                             *)
THEOREM ResumeAlwaysFinishesTheJob ==
    ASSUME ~AnyLoss PROVE Spec => []ResumeFinishesTheJob
<1>1. StorageResume => ResumeFinishesTheJob
  BY DEF StorageResume, ResumeInv, ResumeFinishesTheJob
<1> QED BY <1>1, StorageResumeInvariant, PTL

-----------------------------------------------------------------------------
(* The production state, on a station where nobody comes between the look for *)
(* the log and opening it.                                                  *)
(***************************************************************************)
(* The invariant follows what every run knows.  A log whose chain verifies   *)
(* is one that grew by lines that were checked against it; a run that has    *)
(* appended its line knows that each log a power cut can leave, if it        *)
(* verifies at all, holds what the run loaded and then its entry; so whoever *)
(* computes the anchor next has every unit reported as PASS before him, or   *)
(* nothing that a power cut can leave will verify.                           *)
(***************************************************************************)
Late    == {"flush", "install", "sync"}
Early   == {"open", "write"}
Working == {"open", "write", "flush", "install", "sync"}

Has(s, e)  == \E i \in 1 .. Len(s) : s[i] = e
Covered(s, told) == \A e \in told : Has(s, e)
Lawful(s)  == \A j \in 1 .. Len(s) : PS!Admissible(SubSeq(s, 1, j - 1), s[j])

(* Every run with an entry in s is at one of the places past its anchor.     *)
Past(s, at) == \A i \in 1 .. Len(s) : at[s[i].run] \in {"sync", "passed", "failed"}

Good(l) == l # NoLog /\ PS!Chained(l)
Broken(ls) == \A l \in ls : ~Good(l)

(* The entries s begin with those a run had loaded, and then its entry.      *)
Holds(s, had, e) ==
    /\ Len(had) < Len(s)
    /\ \A i \in 1 .. Len(had) : s[i] = had[i]
    /\ s[Len(had) + 1] = e

Shape ==
    /\ PS!TypeOK
    /\ \A r \in Run : entry[r] # PS!NoEntry => entry[r].run = r
    /\ \A r, s \in Run : pc[r] = "write" /\ pc[s] = "write" => r = s
    /\ creates \subseteq {r \in Run : pc[r] = "write"}
    /\ creates # {} => log = NoLog

LawfulLogs ==
    /\ \A l \in logs : Good(l) => Lawful(PS!Bodies(l))
    /\ \A r \in Run : pc[r] \in Working =>
          Lawful(loaded[r]) /\ PS!Admissible(loaded[r], entry[r])

Known ==
    /\ \A a \in anchors : a # NoAnchor => Past(a, pc)
    /\ \A r \in Run : Past(loaded[r], pc)
    /\ \A r \in Run : pc[r] \in Working => Len(loaded[r]) <= Len(PS!Entries(log))
    /\ \A r \in Run : pc[r] \in Late => log # NoLog /\ Has(PS!Bodies(log), entry[r])
    /\ \A r \in Run : pc[r] = "flush" /\ Good(log) =>
          PS!Bodies(log) = Append(loaded[r], entry[r])
    /\ \A r \in Run : pc[r] \in {"install", "sync"} =>
          \A l \in logs : Good(l) => Holds(PS!Bodies(l), loaded[r], entry[r])

Recorded ==
    /\ NoAnchor \in anchors => passed = {}
    /\ NoLog \in logs /\ log # NoLog => passed = {}
    /\ \A a \in anchors : a # NoAnchor => Broken(logs) \/ Covered(a, passed)
    /\ \A r \in Run : pc[r] \in Early =>
          /\ log = NoLog => passed = {}
          /\ PS!Entries(log) = loaded[r] => Covered(loaded[r], passed)
    /\ \A r \in Run : pc[r] = "flush" /\ Good(log) => Covered(loaded[r], passed)
    /\ \A r \in Run : pc[r] = "install" => Broken(logs) \/ Covered(loaded[r], passed)
    /\ \A r \in Run : pc[r] = "sync" =>
          anchor # NoAnchor /\ (Broken(logs) \/ Has(anchor, entry[r]))

Unhurt ==
    clean =>
    /\ \A r, s \in Run : pc[r] \in Working /\ pc[s] \in Working => r = s
    /\ (\A r \in Run : pc[r] \notin Working) /\ (log # NoLog => PS!Readable(log))
          => PS!Loads(log, anchor)
    /\ \A r \in Run : pc[r] \in Early =>
          /\ PS!Loads(log, anchor) /\ PS!Entries(log) = loaded[r]
          /\ Len(loaded[r]) + 1 <= MaxEntries
    /\ \A r \in Run : pc[r] \in Late =>
          /\ Good(log) /\ ~log.tail
          /\ PS!Bodies(log) = Append(loaded[r], entry[r])
          /\ Len(log.lines) <= MaxEntries
    /\ \A r \in Run : pc[r] = "sync" => anchor = Append(loaded[r], entry[r])

ProductionInv == Shape /\ LawfulLogs /\ Known /\ Recorded /\ Unhurt

-----------------------------------------------------------------------------
(* The assumptions on the constants of the production state.                *)
LEMMA ProductionConstants ==
    /\ Revision \subseteq Nat /\ Time \subseteq Nat /\ NoUID \in Unit
    /\ MaxEntries \in Nat /\ StationCrashes \in Nat /\ MaxDamage \in Nat
    /\ NoLog \notin PS!Logs /\ NoAnchor \notin Seq(PS!Entry) /\ NoRun \notin Run
BY StorageAssumptions DEF PS!StateAssumption

LEMMA NoEntryIsNone == PS!NoEntry \notin PS!Entry
BY ProductionConstants DEF PS!NoEntry, PS!Entry

(* The entries of a log are a sequence of its length.                       *)
LEMMA BodiesShape ==
    ASSUME NEW l \in PS!Logs
    PROVE  /\ PS!Bodies(l) \in Seq(PS!Entry) /\ Len(PS!Bodies(l)) = Len(l.lines)
           /\ l.lines \in Seq(PS!Lines) /\ Len(l.lines) \in Nat /\ l.tail \in BOOLEAN
           /\ DOMAIN l.lines = 1 .. Len(l.lines)
           /\ \A i \in 1 .. Len(l.lines) : /\ l.lines[i] \in PS!Lines
                                           /\ PS!Bodies(l)[i] = l.lines[i].body
           /\ l # NoLog
<1>1. \A n \in Nat : \A f \in [1 .. n -> PS!Entry] : f \in Seq(PS!Entry) /\ Len(f) = n
  OBVIOUS
<1>2. /\ l.lines \in Seq(PS!Lines) /\ l.tail \in BOOLEAN /\ Len(l.lines) \in Nat
      /\ DOMAIN l.lines = 1 .. Len(l.lines)
      /\ \A i \in 1 .. Len(l.lines) : l.lines[i] \in PS!Lines
  BY DEF PS!Logs
<1>3. PS!Bodies(l) \in [1 .. Len(l.lines) -> PS!Entry]
  BY <1>2 DEF PS!Bodies, PS!Lines
<1>4. \A i \in 1 .. Len(l.lines) : PS!Bodies(l)[i] = l.lines[i].body
  BY <1>2 DEF PS!Bodies
<1> QED BY <1>1, <1>2, <1>3, <1>4, ProductionConstants

LEMMA EntriesShape ==
    ASSUME NEW l \in PS!Logs \cup {NoLog}
    PROVE  /\ PS!Entries(l) \in Seq(PS!Entry)
           /\ l # NoLog => PS!Entries(l) = PS!Bodies(l)
           /\ l = NoLog => Len(PS!Entries(l)) = 0 /\ PS!Entries(l) = << >>
BY BodiesShape DEF PS!Entries

(* A file has its lines, whether bytes without a newline follow them or not.  *)
LEMMA SameLines ==
    ASSUME NEW l \in PS!Logs, NEW t \in BOOLEAN
    PROVE  LET f == PS!File(l.lines, t)
           IN  /\ f \in PS!Logs /\ f.lines = l.lines /\ f.tail = t
               /\ PS!Bodies(f) = PS!Bodies(l)
               /\ PS!Chained(f) <=> PS!Chained(l)
BY DEF PS!Logs, PS!File, PS!Bodies, PS!Chained

LEMMA EmptyFile ==
    LET f == PS!File(<< >>, FALSE)
    IN  /\ f \in PS!Logs /\ f.lines = << >> /\ Len(f.lines) = 0 /\ ~f.tail
        /\ PS!Chained(f) /\ Len(PS!Bodies(f)) = 0
<1> DEFINE f == PS!File(<< >>, FALSE)
<1>1. << >> \in Seq(PS!Lines) /\ Len(<< >>) = 0
  OBVIOUS
<1>2. f \in PS!Logs /\ f.lines = << >> /\ ~f.tail
  BY <1>1 DEF PS!Logs, PS!File
<1> HIDE DEF f
<1>3. Len(PS!Bodies(f)) = 0 /\ DOMAIN f.lines = {}
  BY <1>1, <1>2, BodiesShape
<1>4. PS!Chained(f)
  BY <1>3 DEF PS!Chained
<1> QED BY <1>1, <1>2, <1>3, <1>4 DEF f

(* A line behind a log: if the whole verifies, then so did the log, its last  *)
(* line was whole, and the writer had loaded all of it.                     *)
LEMMA AppendedLine ==
    ASSUME NEW l \in PS!Logs, NEW had \in Seq(PS!Entry), NEW e \in PS!Entry
    PROVE  LET g == PS!WithLine(l, PS!Line(had, e))
           IN  /\ g \in PS!Logs /\ ~g.tail /\ Len(g.lines) = Len(l.lines) + 1
               /\ PS!Bodies(g) = Append(PS!Bodies(l), e)
               /\ PS!Chained(g) <=> ~l.tail /\ PS!Chained(l) /\ PS!Bodies(l) = had
<1> DEFINE k == [PS!Line(had, e) EXCEPT !.seq = 0]
           m == IF l.tail THEN k ELSE PS!Line(had, e)
           g == PS!WithLine(l, PS!Line(had, e))
           n == Len(l.lines)
<1>1. /\ m \in PS!Lines /\ m.body = e /\ m.mac = Append(had, e)
      /\ m.seq = IF l.tail THEN 0 ELSE Len(had) + 1
  <2>1. Append(had, e) \in Seq(PS!Entry) /\ Len(had) + 1 \in Nat
    BY AppendProperties
  <2>4. LET h == PS!Line(had, e)
        IN  h \in PS!Lines /\ h.seq = Len(had) + 1 /\ h.body = e /\ h.mac = Append(had, e)
    BY <2>1 DEF PS!Line, PS!Lines
  <2>3. k \in PS!Lines /\ k.seq = 0 /\ k.body = e /\ k.mac = Append(had, e)
    <3>1. \A h \in PS!Lines : LET j == [h EXCEPT !.seq = 0]
                              IN  j \in PS!Lines /\ j.seq = 0 /\ j.body = h.body /\ j.mac = h.mac
      BY DEF PS!Lines
    <3> QED BY <2>4, <3>1
  <2> HIDE DEF k
  <2> QED BY <2>3, <2>4
<1> HIDE DEF k, m
<1>2. g.lines = Append(l.lines, m) /\ g.tail = FALSE
  BY DEF PS!WithLine, PS!File, m, k
<1>3. g \in PS!Logs
  BY <1>1, <1>2, BodiesShape DEF PS!Logs, PS!WithLine, PS!File, m, k
<1> HIDE DEF g
<1>4. /\ Len(g.lines) = n + 1 /\ n \in Nat
      /\ \A i \in 1 .. n : g.lines[i] = l.lines[i]
      /\ g.lines[n + 1] = m
  BY <1>1, <1>2, BodiesShape
<1>5. PS!Bodies(g) = Append(PS!Bodies(l), e)
  <2>1. PS!Bodies(g) \in Seq(PS!Entry) /\ Len(PS!Bodies(g)) = n + 1
    BY <1>3, <1>4, BodiesShape
  <2>2. /\ Append(PS!Bodies(l), e) \in Seq(PS!Entry)
        /\ Len(Append(PS!Bodies(l), e)) = n + 1
        /\ \A i \in 1 .. n : Append(PS!Bodies(l), e)[i] = PS!Bodies(l)[i]
        /\ Append(PS!Bodies(l), e)[n + 1] = e
    BY BodiesShape
  <2>3. \A i \in 1 .. n + 1 : PS!Bodies(g)[i] = Append(PS!Bodies(l), e)[i]
    <3>1. \A i \in 1 .. n : PS!Bodies(g)[i] = PS!Bodies(l)[i]
      <4> TAKE i \in 1 .. n
      <4>1. i \in 1 .. Len(g.lines) /\ i \in 1 .. Len(l.lines)
        BY <1>4
      <4>2. PS!Bodies(g)[i] = g.lines[i].body /\ PS!Bodies(l)[i] = l.lines[i].body
        BY <1>3, <4>1, BodiesShape
      <4> QED BY <1>4, <4>2
    <3>2. PS!Bodies(g)[n + 1] = e
      BY <1>1, <1>3, <1>4, BodiesShape
    <3> QED BY <1>4, <2>2, <3>1, <3>2
  <2> QED BY <1>4, <2>1, <2>2, <2>3, SeqEqual
<1>6. \A i \in 1 .. n : SubSeq(PS!Bodies(g), 1, i) = SubSeq(PS!Bodies(l), 1, i)
  <2> TAKE i \in 1 .. n
  <2> DEFINE a == SubSeq(PS!Bodies(g), 1, i)
             b == SubSeq(PS!Bodies(l), 1, i)
  <2>1. /\ a \in Seq(PS!Entry) /\ Len(a) = i
        /\ b \in Seq(PS!Entry) /\ Len(b) = i
        /\ \A j \in 1 .. i : a[j] = PS!Bodies(g)[j] /\ b[j] = PS!Bodies(l)[j]
    BY <1>3, <1>4, BodiesShape, SubSeqProperties
  <2>2. \A j \in 1 .. i : PS!Bodies(g)[j] = PS!Bodies(l)[j]
    BY <1>4, <1>5, BodiesShape
  <2> QED BY <2>1, <2>2, SeqEqual
<1>7. SubSeq(PS!Bodies(g), 1, n + 1) = PS!Bodies(g)
  BY <1>3, <1>4, BodiesShape, SubSeqFull
<1>8. Append(had, e) = Append(PS!Bodies(l), e) <=> had = PS!Bodies(l)
  BY BodiesShape, AppendInjective
<1>9. PS!Chained(g) <=> (\A i \in 1 .. n : /\ l.lines[i].seq = i
                                           /\ l.lines[i].mac = SubSeq(PS!Bodies(l), 1, i))
                        /\ m.seq = n + 1 /\ m.mac = PS!Bodies(g)
  <2>1. DOMAIN g.lines = 1 .. n + 1
    BY <1>3, <1>4, BodiesShape
  <2>2. \A i \in 1 .. n + 1 : i \in 1 .. n \/ i = n + 1
    BY <1>4
  <2>3. 1 .. n \subseteq 1 .. n + 1 /\ n + 1 \in 1 .. n + 1
    BY <1>4
  <2> QED BY <1>4, <1>6, <1>7, <2>1, <2>2, <2>3 DEF PS!Chained
<1>10. PS!Chained(g) <=> ~l.tail /\ PS!Chained(l) /\ PS!Bodies(l) = had
  <2>1. PS!Chained(l) <=> \A i \in 1 .. n : /\ l.lines[i].seq = i
                                           /\ l.lines[i].mac = SubSeq(PS!Bodies(l), 1, i)
    BY BodiesShape DEF PS!Chained
  <2>2. m.mac = PS!Bodies(g) <=> had = PS!Bodies(l)
    BY <1>1, <1>5, <1>8
  <2>3. had = PS!Bodies(l) => (m.seq = n + 1 <=> ~l.tail)
    <3>1. had = PS!Bodies(l) => Len(had) = n
      BY BodiesShape
    <3> QED BY <1>1, <1>4, <3>1, BodiesShape
  <2> QED BY <1>9, <2>1, <2>2, <2>3
<1> QED BY <1>2, <1>3, <1>4, <1>5, <1>10 DEF g

(* The first lines of a log that verifies, verify.                          *)
LEMMA FirstLines ==
    ASSUME NEW l \in PS!Logs, PS!Chained(l), NEW n \in 0 .. Len(l.lines)
    PROVE  LET f == PS!File(SubSeq(l.lines, 1, n), FALSE)
           IN  /\ f \in PS!Logs /\ ~f.tail /\ PS!Chained(f)
               /\ PS!Bodies(f) = SubSeq(PS!Bodies(l), 1, n)
<1> DEFINE f == PS!File(SubSeq(l.lines, 1, n), FALSE)
<1>1. /\ SubSeq(l.lines, 1, n) \in Seq(PS!Lines) /\ Len(SubSeq(l.lines, 1, n)) = n
      /\ \A i \in 1 .. n : SubSeq(l.lines, 1, n)[i] = l.lines[i]
  BY BodiesShape, SubSeqProperties
<1>2. f \in PS!Logs /\ f.lines = SubSeq(l.lines, 1, n) /\ ~f.tail
  BY <1>1 DEF PS!Logs, PS!File
<1> HIDE DEF f
<1>3. PS!Bodies(f) = SubSeq(PS!Bodies(l), 1, n)
  <2>1. /\ SubSeq(PS!Bodies(l), 1, n) \in Seq(PS!Entry)
        /\ Len(SubSeq(PS!Bodies(l), 1, n)) = n
        /\ \A i \in 1 .. n : SubSeq(PS!Bodies(l), 1, n)[i] = PS!Bodies(l)[i]
    BY BodiesShape, SubSeqProperties
  <2>2. \A i \in 1 .. n : PS!Bodies(f)[i] = PS!Bodies(l)[i]
    BY <1>1, <1>2, BodiesShape
  <2> QED BY <1>1, <1>2, <2>1, <2>2, BodiesShape, SeqEqual
<1>4. \A i \in 1 .. n : SubSeq(PS!Bodies(f), 1, i) = SubSeq(PS!Bodies(l), 1, i)
  <2> TAKE i \in 1 .. n
  <2> DEFINE a == SubSeq(PS!Bodies(f), 1, i)
             b == SubSeq(PS!Bodies(l), 1, i)
  <2>1. /\ a \in Seq(PS!Entry) /\ Len(a) = i
        /\ b \in Seq(PS!Entry) /\ Len(b) = i
        /\ \A j \in 1 .. i : a[j] = PS!Bodies(f)[j] /\ b[j] = PS!Bodies(l)[j]
    BY <1>1, <1>2, BodiesShape, SubSeqProperties
  <2>2. \A j \in 1 .. i : PS!Bodies(f)[j] = PS!Bodies(l)[j]
    BY <1>1, <1>2, BodiesShape
  <2> QED BY <2>1, <2>2, SeqEqual
<1>5. PS!Chained(f)
  <2>1. \A i \in 1 .. n : i \in DOMAIN l.lines /\ f.lines[i] = l.lines[i]
    BY <1>1, <1>2, BodiesShape
  <2>2. DOMAIN f.lines = 1 .. n
    BY <1>1, <1>2, BodiesShape
  <2> QED BY <1>4, <2>1, <2>2 DEF PS!Chained
<1> QED BY <1>2, <1>3, <1>5 DEF f

(* Sequences that agree up to n have the same first entries up to there.     *)
LEMMA SameBeginning ==
    ASSUME NEW s \in Seq(PS!Entry), NEW t \in Seq(PS!Entry), NEW n \in Nat,
           n <= Len(s), n <= Len(t), \A i \in 1 .. n : s[i] = t[i]
    PROVE  SubSeq(s, 1, n) = SubSeq(t, 1, n)
<1> DEFINE a == SubSeq(s, 1, n)
           b == SubSeq(t, 1, n)
<1>1. n \in 0 .. Len(s) /\ n \in 0 .. Len(t)
  OBVIOUS
<1>2. /\ a \in Seq(PS!Entry) /\ Len(a) = n /\ b \in Seq(PS!Entry) /\ Len(b) = n
      /\ \A j \in 1 .. n : a[j] = s[j] /\ b[j] = t[j]
  BY <1>1, SubSeqProperties
<1> QED BY <1>2, SeqEqual

LEMMA LawfulAppend ==
    ASSUME NEW s \in Seq(PS!Entry), NEW e \in PS!Entry, Lawful(s), PS!Admissible(s, e)
    PROVE  Lawful(Append(s, e))
<1> DEFINE t == Append(s, e)
<1>1. /\ t \in Seq(PS!Entry) /\ Len(t) = Len(s) + 1 /\ Len(s) \in Nat
      /\ \A i \in 1 .. Len(s) : t[i] = s[i]
      /\ t[Len(s) + 1] = e
  BY AppendProperties
<1> HIDE DEF t
<1>2. \A n \in 0 .. Len(s) : SubSeq(t, 1, n) = SubSeq(s, 1, n)
  <2> TAKE n \in 0 .. Len(s)
  <2>1. n \in Nat /\ n <= Len(s) /\ n <= Len(t) /\ \A i \in 1 .. n : t[i] = s[i]
    BY <1>1
  <2> QED BY <1>1, <2>1, SameBeginning
<1>3. SubSeq(s, 1, Len(s)) = s
  BY SubSeqFull
<1>4. \A j \in 1 .. Len(t) : PS!Admissible(SubSeq(t, 1, j - 1), t[j])
  <2> TAKE j \in 1 .. Len(t)
  <2>1. CASE j = Len(s) + 1
    <3>1. j - 1 = Len(s)
      BY <1>1, <2>1
    <3>2. SubSeq(t, 1, j - 1) = s
      BY <1>1, <1>2, <1>3, <3>1
    <3> QED BY <1>1, <2>1, <3>2
  <2>2. CASE j \in 1 .. Len(s)
    <3>1. SubSeq(t, 1, j - 1) = SubSeq(s, 1, j - 1) /\ t[j] = s[j]
      BY <1>1, <1>2, <2>2
    <3> QED BY <2>2, <3>1 DEF Lawful
  <2> QED BY <1>1, <2>1, <2>2
<1> QED BY <1>4 DEF Lawful, t

LEMMA LawfulBeginning ==
    ASSUME NEW s \in Seq(PS!Entry), NEW n \in 0 .. Len(s), Lawful(s)
    PROVE  Lawful(SubSeq(s, 1, n))
<1> DEFINE t == SubSeq(s, 1, n)
<1>1. t \in Seq(PS!Entry) /\ Len(t) = n /\ \A i \in 1 .. n : t[i] = s[i]
  BY SubSeqProperties
<1> HIDE DEF t
<1>2. \A j \in 1 .. Len(t) : PS!Admissible(SubSeq(t, 1, j - 1), t[j])
  <2> TAKE j \in 1 .. Len(t)
  <2>1. j - 1 \in Nat /\ j - 1 <= Len(s) /\ j - 1 <= Len(t) /\ j \in 1 .. Len(s)
        /\ \A i \in 1 .. j - 1 : t[i] = s[i]
    BY <1>1
  <2>2. SubSeq(t, 1, j - 1) = SubSeq(s, 1, j - 1) /\ t[j] = s[j]
    BY <1>1, <2>1, SameBeginning
  <2> QED BY <2>1, <2>2 DEF Lawful
<1> QED BY <1>2 DEF Lawful, t

-----------------------------------------------------------------------------
(* What the variables are.                                                  *)
LEMMA ProductionTypes ==
    ASSUME Shape
    PROVE  /\ log \in logs /\ anchor \in anchors
           /\ \A l \in logs : l \in PS!Logs \cup {NoLog}
           /\ \A a \in anchors : a # NoAnchor => a \in Seq(PS!Entry) /\ Len(a) > 0
           /\ \A r \in Run :
                 /\ loaded[r] \in Seq(PS!Entry) /\ Len(loaded[r]) \in Nat
                 /\ pc[r] \in PS!Places
                 /\ pc[r] \in {"running", "record"} \cup Working =>
                       entry[r] \in PS!Entry /\ entry[r].run = r
           /\ PS!Entries(log) \in Seq(PS!Entry)
           /\ passed \subseteq PS!Entry
<1>1. \A a \in anchors : a # NoAnchor => a \in Seq(PS!Entry) /\ Len(a) > 0
  <2>1. \A a \in Seq(PS!Entry) : a # << >> => Len(a) > 0
    BY EmptySeq, LenProperties
  <2> QED BY <2>1 DEF Shape, PS!TypeOK
<1>2. /\ log \in logs /\ anchor \in anchors
      /\ \A l \in logs : l \in PS!Logs \cup {NoLog}
      /\ passed \subseteq PS!Entry
  BY DEF Shape, PS!TypeOK
<1>3. \A r \in Run : /\ loaded[r] \in Seq(PS!Entry) /\ Len(loaded[r]) \in Nat
                     /\ pc[r] \in PS!Places
  BY DEF Shape, PS!TypeOK
<1>4. \A r \in Run : pc[r] \in {"running", "record"} \cup Working =>
                       entry[r] \in PS!Entry /\ entry[r].run = r
  BY DEF Shape, PS!TypeOK, Working
<1> QED BY <1>1, <1>2, <1>3, <1>4, EntriesShape

LEMMA RunsOfEntries ==
    ASSUME NEW s \in Seq(PS!Entry)
    PROVE  \A i \in 1 .. Len(s) : s[i] \in PS!Entry /\ s[i].run \in Run
<1>1. \A i \in 1 .. Len(s) : s[i] \in PS!Entry
  OBVIOUS
<1> QED BY <1>1 DEF PS!Entry

(* Of two runs that know where their entries are, the one that has not       *)
(* computed its anchor loaded the other's entry.                            *)
LEMMA Meeting ==
    ASSUME Shape, Known, NEW s \in Seq(PS!Entry), NEW r \in Run, NEW q \in Run, r # q,
           pc[r] = "install", pc[q] \in Working, 
           Holds(s, loaded[r], entry[r]), Holds(s, loaded[q], entry[q])
    PROVE  Has(loaded[r], entry[q])
<1> DEFINE m == Len(loaded[r])
           n == Len(loaded[q])
<1>1. /\ m \in Nat /\ n \in Nat
      /\ entry[r].run = r /\ entry[q].run = q
  BY ProductionTypes DEF Working
<1>2. Past(loaded[q], pc)
  BY DEF Known
<1>3. CASE m < n
  <2>1. m + 1 \in 1 .. n
    BY <1>1, <1>3
  <2>2. loaded[q][m + 1] = entry[r]
    BY <2>1 DEF Holds
  <2>3. pc[r] \in {"sync", "passed", "failed"}
    BY <1>1, <1>2, <2>1, <2>2 DEF Past
  <2> QED BY <2>3
<1>4. CASE m = n
  <2>1. entry[r] = entry[q]
    BY <1>4 DEF Holds
  <2> QED BY <1>1, <2>1
<1>5. CASE n < m
  <2>1. n + 1 \in 1 .. m
    BY <1>1, <1>5
  <2>2. loaded[r][n + 1] = entry[q]
    BY <2>1 DEF Holds
  <2> QED BY <2>1, <2>2 DEF Has
<1> QED BY <1>1, <1>3, <1>4, <1>5

(* What the runs promise, from the invariant.                               *)
LEMMA ProductionSafety ==
    ASSUME ProductionInv
    PROVE  PS!TypeOK /\ PS!PassedIsRecorded /\ PS!LoadedIsLawful /\ PS!CleanLoads
<1> USE DEF ProductionInv
<1>1. \A f \in PS!Findable : f[1] \in logs /\ f[2] \in anchors
  BY ProductionTypes DEF PS!Findable
<1>2. ASSUME NEW l \in logs, NEW a \in anchors, PS!Loads(l, a)
      PROVE  /\ passed \subseteq PS!ToSet(PS!Entries(l))
             /\ \A j \in DOMAIN PS!Entries(l) :
                   PS!Admissible(SubSeq(PS!Entries(l), 1, j - 1), PS!Entries(l)[j])
  <2>1. CASE l = NoLog
    <3>1. a = NoAnchor /\ passed = {}
      BY <1>2, <2>1 DEF PS!Loads, Recorded
    <3>2. DOMAIN PS!Entries(l) = {}
      BY <2>1 DEF PS!Entries
    <3> QED BY <3>1, <3>2
  <2>2. CASE l # NoLog
    <3>1. l \in PS!Logs /\ Good(l) /\ PS!AnchorAgrees(l, a)
      BY <1>2, <2>2, ProductionTypes DEF PS!Loads, Good
    <3>2. PS!Entries(l) = PS!Bodies(l) /\ PS!Bodies(l) \in Seq(PS!Entry)
          /\ DOMAIN PS!Bodies(l) = 1 .. Len(PS!Bodies(l))
      BY <2>2, <3>1, BodiesShape DEF PS!Entries
    <3>3. \A j \in DOMAIN PS!Bodies(l) :
              PS!Admissible(SubSeq(PS!Bodies(l), 1, j - 1), PS!Bodies(l)[j])
      BY <3>1, <3>2 DEF LawfulLogs, Lawful
    <3>4. passed \subseteq PS!ToSet(PS!Bodies(l))
      <4>1. CASE a = NoAnchor
        BY <1>2, <4>1 DEF Recorded
      <4>2. CASE a # NoAnchor
        <5>1. a = PS!Bodies(l)
          BY <3>1, <4>2 DEF PS!AnchorAgrees
        <5>2. Covered(a, passed)
          BY <1>2, <3>1, <4>2 DEF Recorded, Broken
        <5> QED BY <3>2, <5>1, <5>2 DEF Covered, Has, PS!ToSet
      <4> QED BY <4>1, <4>2
    <3> QED BY <3>2, <3>3, <3>4
  <2> QED BY <2>1, <2>2
<1>3. PS!PassedIsRecorded /\ PS!LoadedIsLawful
  BY <1>1, <1>2 DEF PS!PassedIsRecorded, PS!LoadedIsLawful, PS!Loadable
<1>4. PS!CleanLoads
  BY DEF Unhurt, PS!CleanLoads, PS!Appending, Working
<1> QED BY <1>3, <1>4 DEF Shape

LEMMA ProductionInit == PS!Init => ProductionInv
<1> SUFFICES ASSUME PS!Init PROVE ProductionInv
  OBVIOUS
<1> USE DEF PS!Init, Working, Early, Late
<1>1. Shape
  BY ProductionConstants DEF Shape, PS!TypeOK, PS!Places
<1>2. LawfulLogs
  BY DEF LawfulLogs, Good
<1>3. Known
  BY DEF Known, Past
<1>4. Recorded
  BY DEF Recorded
<1>5. Unhurt
  BY DEF Unhurt, PS!Loads
<1> QED BY <1>1, <1>2, <1>3, <1>4, <1>5 DEF ProductionInv

LEMMA ProductionStutter == ProductionInv /\ UNCHANGED PS!vars => ProductionInv'
<1> SUFFICES ASSUME ProductionInv, UNCHANGED PS!vars PROVE ProductionInv'
  OBVIOUS
<1> USE DEF ProductionInv, PS!vars
<1>1. Shape'
  BY DEF Shape, PS!TypeOK
<1>2. LawfulLogs' /\ Known' /\ Recorded'
  BY DEF LawfulLogs, Known, Recorded
<1>3. Unhurt'
  BY DEF Unhurt
<1> QED BY <1>1, <1>2, <1>3

-----------------------------------------------------------------------------
(* A run that ends takes nothing from the others, even if what it wrote last  *)
(* left an empty log or bytes without a newline behind.                     *)
LEMMA RunEnds ==
    ASSUME ProductionInv, NEW r \in Run, PS!Fail(r),
           anchor' = anchor, anchors' = anchors, passed' = passed,
           creates' = creates \ {r}, crashes' = crashes, damage' = damage,
           clean' \in BOOLEAN, clean' => clean /\ pc[r] \notin Working,
           log' \in logs', logs \subseteq logs', PS!Entries(log') = PS!Entries(log),
           log # NoLog => log' # NoLog /\ (Good(log') <=> Good(log)),
           \A l \in logs' \ logs :
              /\ l \in PS!Logs /\ PS!Bodies(l) = PS!Entries(log)
              /\ log # NoLog => (Good(l) => Good(log)),
           pc[r] = "write" \/ (log' = log /\ logs' = logs)
    PROVE  ProductionInv'
<1> USE DEF ProductionInv
<1>1. /\ pc' = [pc EXCEPT ![r] = "failed"]
      /\ entry' = [entry EXCEPT ![r] = PS!NoEntry]
      /\ loaded' = [loaded EXCEPT ![r] = << >>]
  BY DEF PS!Fail, PS!Goto
<1>2. /\ pc' \in [Run -> PS!Places] /\ pc'[r] = "failed"
      /\ entry'[r] = PS!NoEntry /\ loaded'[r] = << >> /\ Len(loaded'[r]) = 0
      /\ \A s \in Run : s # r =>
            pc'[s] = pc[s] /\ entry'[s] = entry[s] /\ loaded'[s] = loaded[s]
  BY <1>1 DEF Shape, PS!TypeOK, PS!Places
<1>3. \A s \in Run : pc'[s] \in Working => s # r
  BY <1>2 DEF Working
<1>4. Shape'
  <2>1. PS!TypeOK'
    <3>1. entry' \in [Run -> PS!Entry \cup {PS!NoEntry}]
      BY <1>1 DEF Shape, PS!TypeOK
    <3>2. loaded' \in [Run -> Seq(PS!Entry)]
      BY <1>1 DEF Shape, PS!TypeOK
    <3>3. \A s \in Run : entry'[s] = PS!NoEntry <=> pc'[s] \in {"idle", "passed", "failed"}
      BY <1>2 DEF Shape, PS!TypeOK
    <3>4. log' \in logs' /\ logs' \subseteq PS!Logs \cup {NoLog}
      BY DEF Shape, PS!TypeOK
    <3> QED BY <1>2, <3>1, <3>2, <3>3, <3>4 DEF Shape, PS!TypeOK
  <2>2. \A s \in Run : entry'[s] # PS!NoEntry => entry'[s].run = s
    BY <1>2 DEF Shape
  <2>3. \A s, q \in Run : pc'[s] = "write" /\ pc'[q] = "write" => s = q
    BY <1>2 DEF Shape
  <2>4. creates' \subseteq {s \in Run : pc'[s] = "write"}
    BY <1>2 DEF Shape
  <2>5. creates' # {} => log' = NoLog
    BY DEF Shape
  <2> QED BY <2>1, <2>2, <2>3, <2>4, <2>5 DEF Shape
<1>5. LawfulLogs'
  <2>1. \A l \in logs' : Good(l) => Lawful(PS!Bodies(l))
    <3>1. log = NoLog => \A j \in 1 .. Len(PS!Entries(log)) : FALSE
      BY EntriesShape
    <3>2. log = NoLog => Lawful(PS!Entries(log))
      BY <3>1 DEF Lawful
    <3>3. log # NoLog => PS!Entries(log) = PS!Bodies(log) /\ log \in logs
      BY ProductionTypes DEF PS!Entries
    <3> QED BY <3>2, <3>3 DEF LawfulLogs
  <2> QED BY <1>2, <1>3, <2>1 DEF LawfulLogs
<1>6. log # NoLog => /\ PS!Bodies(log') = PS!Bodies(log)
                     /\ \A l \in logs' \ logs : PS!Bodies(l) = PS!Bodies(log)
  BY DEF PS!Entries
<1>7. \A s : Past(s, pc) /\ (\A i \in 1 .. Len(s) : s[i].run \in Run) => Past(s, pc')
  BY <1>2 DEF Past
<1>8. Known'
  <2>1. \A a \in Seq(PS!Entry) : Past(a, pc) => Past(a, pc')
    BY <1>7, RunsOfEntries
  <2>2. \A a \in anchors' : a # NoAnchor => Past(a, pc')
    BY <2>1, ProductionTypes DEF Known
  <2>3. \A s \in Run : Past(loaded'[s], pc')
    <3>1. Past(loaded'[r], pc')
      BY <1>2 DEF Past
    <3> QED BY <1>2, <2>1, <3>1, ProductionTypes DEF Known
  <2>4. \A s \in Run : pc'[s] \in Working => Len(loaded'[s]) <= Len(PS!Entries(log'))
    BY <1>2, <1>3 DEF Known
  <2>5. \A s \in Run : pc'[s] \in Late =>
            /\ log' # NoLog /\ Has(PS!Bodies(log'), entry'[s])
            /\ log # NoLog /\ s # r /\ pc[s] = pc'[s]
    BY <1>2, <1>3, <1>6 DEF Known, Late
  <2>6. \A s \in Run : pc'[s] = "flush" /\ Good(log') =>
            PS!Bodies(log') = Append(loaded'[s], entry'[s])
    BY <1>2, <1>6, <2>5 DEF Known, Late
  <2>7. \A s \in Run : pc'[s] \in {"install", "sync"} =>
            \A l \in logs' : Good(l) => Holds(PS!Bodies(l), loaded'[s], entry'[s])
    BY <1>2, <1>6, <2>5, ProductionTypes DEF Known, Late
  <2> QED BY <2>2, <2>3, <2>4, <2>5, <2>6, <2>7 DEF Known
<1>9. Recorded'
  <2>1. log = NoLog /\ (log' # log \/ logs' # logs) => passed = {}
    BY DEF Recorded, Early
  <2>2. log # NoLog /\ Broken(logs) => Broken(logs')
    BY ProductionTypes DEF Broken
  <2>3. passed = {} => \A s : Covered(s, passed)
    BY DEF Covered
  <2>4. NoLog \in logs' => NoLog \in logs
    BY ProductionConstants
  <2>5. NoLog \in logs' /\ log' # NoLog => passed' = {}
    BY <2>1, <2>4 DEF Recorded
  <2>6. \A s : Broken(logs) \/ Covered(s, passed) => Broken(logs') \/ Covered(s, passed')
    BY <2>1, <2>2, <2>3
  <2>7. \A s \in Run : pc'[s] \in Early =>
            /\ log' = NoLog => passed' = {}
            /\ PS!Entries(log') = loaded'[s] => Covered(loaded'[s], passed')
    <3>1. \A s \in Run : pc'[s] \in Early => s # r /\ pc[s] \in Early /\ loaded'[s] = loaded[s]
      BY <1>2 DEF Early
    <3> QED BY <3>1 DEF Recorded
  <2>8. \A s \in Run : pc'[s] \in Late => log # NoLog /\ s # r /\ pc[s] = pc'[s]
    BY <1>2 DEF Known, Late
  <2>9. \A s \in Run : pc'[s] = "flush" /\ Good(log') => Covered(loaded'[s], passed')
    BY <1>2, <2>8 DEF Recorded, Late
  <2>10. \A s \in Run : pc'[s] = "install" => Broken(logs') \/ Covered(loaded'[s], passed')
    BY <1>2, <2>6, <2>8 DEF Recorded, Late
  <2>11. \A s \in Run : pc'[s] = "sync" =>
            anchor' # NoAnchor /\ (Broken(logs') \/ Has(anchor', entry'[s]))
    BY <1>2, <2>2, <2>8 DEF Recorded, Late
  <2> QED BY <2>5, <2>6, <2>7, <2>9, <2>10, <2>11 DEF Recorded
<1>10. Unhurt'
  <2> SUFFICES ASSUME clean' PROVE Unhurt'
    BY DEF Unhurt
  <2>1. clean /\ pc[r] \notin Working /\ log' = log
    BY DEF Working
  <2>2. \A s \in Run : pc'[s] \in Working <=> pc[s] \in Working
    BY <1>2, <1>3, <2>1
  <2> QED BY <1>2, <2>1, <2>2 DEF Unhurt, Working, Early, Late
<1> QED BY <1>4, <1>5, <1>8, <1>9, <1>10

(* A run that is admitted, or whose unit passed its write, has recorded       *)
(* nothing yet.                                                             *)
LEMMA RunWaits ==
    ASSUME ProductionInv, NEW r \in Run, NEW p \in {"running", "record"},
           NEW e \in PS!Entry, e.run = r,
           pc[r] \in {"idle", "running"}, pc' = [pc EXCEPT ![r] = p],
           entry' = [entry EXCEPT ![r] = e],
           UNCHANGED <<log, logs, anchor, anchors, creates, loaded, passed, clean,
                       crashes, damage>>
    PROVE  ProductionInv'
<1> USE DEF ProductionInv
<1>1. /\ pc' \in [Run -> PS!Places] /\ pc'[r] = p /\ entry'[r] = e
      /\ \A s \in Run : s # r => pc'[s] = pc[s] /\ entry'[s] = entry[s]
      /\ e # PS!NoEntry
  BY NoEntryIsNone DEF Shape, PS!TypeOK, PS!Places
<1>2. \A s \in Run : /\ pc'[s] \in Working <=> pc[s] \in Working
                     /\ pc'[s] \in Working => s # r
  BY <1>1 DEF Working
<1>3. Shape'
  <2>1. PS!TypeOK'
    <3>1. entry' \in [Run -> PS!Entry \cup {PS!NoEntry}]
      BY DEF Shape, PS!TypeOK
    <3>2. \A s \in Run : entry'[s] = PS!NoEntry <=> pc'[s] \in {"idle", "passed", "failed"}
      BY <1>1 DEF Shape, PS!TypeOK
    <3> QED BY <1>1, <3>1, <3>2 DEF Shape, PS!TypeOK
  <2> QED BY <1>1, <2>1 DEF Shape
<1>4. LawfulLogs'
  BY <1>1, <1>2 DEF LawfulLogs
<1>5. Known'
  <2>1. \A s \in Seq(PS!Entry) : Past(s, pc) => Past(s, pc')
    BY <1>1, RunsOfEntries DEF Past
  <2>2. \A a \in anchors' : a # NoAnchor => Past(a, pc')
    BY <2>1, ProductionTypes DEF Known
  <2>3. \A s \in Run : Past(loaded'[s], pc')
    BY <2>1, ProductionTypes DEF Known
  <2>4. \A s \in Run : pc'[s] \in Working => Len(loaded'[s]) <= Len(PS!Entries(log'))
    BY <1>2 DEF Known
  <2> QED BY <1>1, <2>2, <2>3, <2>4 DEF Known, Late
<1>6. Recorded'
  BY <1>1 DEF Recorded, Early
<1>7. Unhurt'
  BY <1>1, <1>2 DEF Unhurt, Early, Late
<1> QED BY <1>3, <1>4, <1>5, <1>6, <1>7

LEMMA AdmitStep ==
    ASSUME ProductionInv, NEW r \in Run, NEW rev \in Revision, NEW now \in Time,
           PS!Admit(r, rev, now)
    PROVE  ProductionInv'
<1> DEFINE e == [run |-> r, uid |-> NoUID, revision |-> rev, utc |-> now]
<1>1. e \in PS!Entry /\ e.run = r
  BY ProductionConstants DEF PS!Entry
<1>2. /\ pc[r] = "idle" /\ pc[r] \notin Working
      /\ UNCHANGED <<log, logs, anchor, anchors, creates, passed, clean, crashes, damage>>
  BY DEF PS!Admit, Working
<1>3. CASE PS!Fail(r)
  BY <1>2, <1>3, RunEnds DEF ProductionInv, Shape, PS!TypeOK
<1>4. CASE /\ entry' = [entry EXCEPT ![r] = e]
           /\ PS!Goto(r, "running") /\ UNCHANGED loaded
  BY <1>1, <1>2, <1>4, RunWaits DEF PS!Goto
<1> QED BY <1>3, <1>4 DEF PS!Admit

LEMMA WriteUnitStep ==
    ASSUME ProductionInv, NEW r \in Run, NEW uid \in Unit, PS!WriteUnit(r, uid)
    PROVE  ProductionInv'
<1> DEFINE e == [entry[r] EXCEPT !.uid = uid]
<1>1. /\ pc[r] = "running" /\ pc[r] \notin Working
      /\ UNCHANGED <<log, logs, anchor, anchors, creates, passed, clean, crashes, damage>>
  BY DEF PS!WriteUnit, Working
<1>2. e \in PS!Entry /\ e.run = r
  <2>1. entry[r] \in PS!Entry /\ entry[r].run = r
    BY <1>1, ProductionTypes DEF ProductionInv
  <2> QED BY <2>1 DEF PS!Entry
<1>3. CASE PS!Fail(r)
  BY <1>1, <1>3, RunEnds DEF ProductionInv, Shape, PS!TypeOK
<1>4. CASE /\ entry' = [entry EXCEPT ![r].uid = uid]
           /\ PS!Goto(r, "record") /\ UNCHANGED loaded
  <2>1. entry' = [entry EXCEPT ![r] = e]
    BY <1>4
  <2> QED BY <1>1, <1>2, <1>4, <2>1, RunWaits DEF PS!Goto
<1> QED BY <1>3, <1>4 DEF PS!WriteUnit

(* A log that loads was lawful, holds no run that is still under way, and     *)
(* holds every unit reported as PASS.                                       *)
LEMMA WhatLoads ==
    ASSUME ProductionInv, PS!Loads(log, anchor)
    PROVE  LET s == PS!Entries(log)
           IN  /\ s \in Seq(PS!Entry) /\ Lawful(s) /\ Past(s, pc) /\ Covered(s, passed)
               /\ log = NoLog => passed = {}
<1> USE DEF ProductionInv
<1>1. CASE log = NoLog
  <2>1. PS!Entries(log) \in Seq(PS!Entry) /\ Len(PS!Entries(log)) = 0
    BY <1>1, EntriesShape
  <2>2. passed = {}
    BY <1>1, ProductionTypes DEF PS!Loads, Recorded
  <2> QED BY <2>1, <2>2 DEF Lawful, Past, Covered
<1>2. CASE log # NoLog
  <2> DEFINE s == PS!Bodies(log)
  <2>1. /\ log \in PS!Logs /\ log \in logs /\ Good(log) /\ PS!AnchorAgrees(log, anchor)
        /\ PS!Entries(log) = s /\ s \in Seq(PS!Entry) /\ Len(s) = Len(log.lines)
    BY <1>2, ProductionTypes, BodiesShape DEF PS!Loads, Good, PS!Entries
  <2>2. Lawful(s)
    BY <2>1 DEF LawfulLogs
  <2>3. CASE log.lines = << >>
    <3>1. Len(s) = 0 /\ passed = {}
      BY <2>1, <2>3, ProductionTypes DEF PS!AnchorAgrees, Recorded
    <3> QED BY <1>2, <2>1, <2>2, <3>1 DEF Past, Covered
  <2>4. CASE log.lines # << >>
    <3>1. anchor = s /\ anchor # NoAnchor /\ anchor \in anchors
      BY <2>1, <2>4, ProductionTypes, ProductionConstants DEF PS!AnchorAgrees
    <3>2. Past(s, pc) /\ Covered(s, passed)
      BY <2>1, <3>1 DEF Known, Recorded, Broken
    <3> QED BY <1>2, <2>1, <2>2, <3>2
  <2> QED BY <2>3, <2>4
<1> QED BY <1>1, <1>2

LEMMA StartsAppending ==
    ASSUME ProductionInv, NEW r \in Run, pc[r] = "record",
           PS!Loads(log, anchor), PS!Admissible(PS!Entries(log), entry[r]),
           PS!RoomFor(PS!Entries(log)),
           loaded' = [loaded EXCEPT ![r] = PS!Entries(log)],
           pc' = [pc EXCEPT ![r] = "open"], entry' = entry,
           clean' \in BOOLEAN, clean' => clean /\ \A s \in Run : pc[s] \notin Working,
           UNCHANGED <<log, logs, anchor, anchors, creates, passed, crashes, damage>>
    PROVE  ProductionInv'
<1> USE DEF ProductionInv
<1>1. /\ pc' \in [Run -> PS!Places] /\ pc'[r] = "open" /\ loaded'[r] = PS!Entries(log)
      /\ \A s \in Run : s # r => pc'[s] = pc[s] /\ loaded'[s] = loaded[s]
  BY DEF Shape, PS!TypeOK, PS!Places
<1>2. /\ PS!Entries(log) \in Seq(PS!Entry) /\ Lawful(PS!Entries(log))
      /\ Past(PS!Entries(log), pc) /\ Covered(PS!Entries(log), passed)
      /\ log = NoLog => passed = {}
  BY WhatLoads
<1>3. Shape'
  <2>1. PS!TypeOK'
    <3>1. loaded' \in [Run -> Seq(PS!Entry)]
      BY <1>2 DEF Shape, PS!TypeOK
    <3>2. \A s \in Run : entry'[s] = PS!NoEntry <=> pc'[s] \in {"idle", "passed", "failed"}
      BY <1>1 DEF Shape, PS!TypeOK
    <3> QED BY <1>1, <3>1, <3>2 DEF Shape, PS!TypeOK
  <2> QED BY <1>1, <2>1 DEF Shape
<1>4. \A s \in Run : pc'[s] \in Working => s = r \/ (s # r /\ pc[s] \in Working)
  BY <1>1
<1>5. LawfulLogs'
  <2>1. \A s \in Run : pc'[s] \in Working =>
          Lawful(loaded'[s]) /\ PS!Admissible(loaded'[s], entry'[s])
    BY <1>1, <1>2, <1>4 DEF LawfulLogs
  <2> QED BY <2>1 DEF LawfulLogs
<1>6. Known'
  <2>1. \A s \in Seq(PS!Entry) : Past(s, pc) => Past(s, pc')
    BY <1>1, RunsOfEntries DEF Past
  <2>2. \A a \in anchors' : a # NoAnchor => Past(a, pc')
    BY <2>1, ProductionTypes DEF Known
  <2>3. \A s \in Run : Past(loaded'[s], pc')
    <3>1. \A s \in Run : loaded[s] \in Seq(PS!Entry) /\ Past(loaded[s], pc)
      BY ProductionTypes DEF Known
    <3>2. Past(loaded'[r], pc')
      BY <1>1, <1>2, <2>1
    <3> QED BY <1>1, <2>1, <3>1, <3>2
  <2>4. Len(PS!Entries(log)) \in Nat
    BY <1>2
  <2>5. \A s \in Run : pc'[s] \in Working => Len(loaded'[s]) <= Len(PS!Entries(log'))
    BY <1>1, <1>4, <2>4 DEF Known
  <2> QED BY <1>1, <2>2, <2>3, <2>5 DEF Known, Late
<1>7. Recorded'
  <2>1. \A s \in Run : pc'[s] \in Early =>
          /\ log' = NoLog => passed' = {}
          /\ PS!Entries(log') = loaded'[s] => Covered(loaded'[s], passed')
    <3>1. \A s \in Run : pc'[s] \in Early => s = r \/ (s # r /\ pc[s] \in Early)
      BY <1>1
    <3> QED BY <1>1, <1>2, <3>1 DEF Recorded
  <2> QED BY <1>1, <2>1 DEF Recorded
<1>8. Unhurt'
  <2> SUFFICES ASSUME clean' PROVE Unhurt'
    BY DEF Unhurt
  <2>1. \A s \in Run : pc'[s] \in Working => s = r
    BY <1>4
  <2>2. Len(loaded'[r]) + 1 <= MaxEntries
    BY <1>1 DEF PS!RoomFor
  <2> QED BY <1>1, <2>1, <2>2 DEF Unhurt, Early, Late, Working
<1> QED BY <1>3, <1>5, <1>6, <1>7, <1>8

LEMMA LoadAgainStep ==
    ASSUME ProductionInv, NEW r \in Run, PS!LoadAgain(r)
    PROVE  ProductionInv'
<1>1. /\ pc[r] = "record" /\ pc[r] \notin Working
      /\ UNCHANGED <<log, logs, anchor, anchors, creates, passed, crashes, damage>>
  BY DEF PS!LoadAgain, Working
<1>2. clean' \in BOOLEAN /\ (clean' => clean /\ \A s \in Run : pc[s] \notin Working)
  <2>1. clean' = (clean /\ \A s \in Run : ~PS!Appending(s))
    BY DEF PS!LoadAgain
  <2>2. clean' \in BOOLEAN
    BY <2>1, Zenon
  <2>3. clean' => clean /\ \A s \in Run : ~PS!Appending(s)
    BY <2>1
  <2> QED BY <2>2, <2>3 DEF PS!Appending, Working
<1>3. CASE PS!Fail(r)
  <2>1. creates' = creates \ {r} /\ log \in logs
    BY <1>1 DEF ProductionInv, Shape, PS!TypeOK
  <2> QED BY <1>1, <1>2, <1>3, <2>1, RunEnds
<1>4. CASE ~PS!Fail(r)
  BY <1>1, <1>2, <1>4, StartsAppending DEF PS!LoadAgain, PS!Goto
<1> QED BY <1>3, <1>4

LEMMA ChooseModeStep ==
    ASSUME ~CreateRaces, ProductionInv, NEW r \in Run, PS!ChooseMode(r)
    PROVE  ProductionInv'
<1> USE DEF ProductionInv
<1>1. /\ pc[r] = "open" /\ pc' = [pc EXCEPT ![r] = "write"]
      /\ creates' = IF log = NoLog THEN creates \cup {r} ELSE creates \ {r}
      /\ \A s \in Run : pc[s] # "write"
      /\ UNCHANGED <<log, logs, anchor, anchors, entry, loaded, passed, clean, crashes, damage>>
  BY DEF PS!ChooseMode, PS!Goto
<1>2. /\ pc' \in [Run -> PS!Places] /\ pc'[r] = "write"
      /\ \A s \in Run : s # r => pc'[s] = pc[s]
  BY <1>1 DEF Shape, PS!TypeOK, PS!Places
<1>3. \A s \in Run : /\ pc'[s] \in Working <=> pc[s] \in Working
                     /\ pc'[s] \in Early <=> pc[s] \in Early
                     /\ pc'[s] \in Late <=> pc[s] \in Late
  BY <1>1, <1>2 DEF Working, Early, Late
<1>4. Shape'
  <2>1. creates = {}
    BY <1>1 DEF Shape
  <2>2. PS!TypeOK'
    BY <1>1, <1>2, <2>1 DEF Shape, PS!TypeOK
  <2> QED BY <1>1, <1>2, <2>1, <2>2 DEF Shape
<1>5. LawfulLogs'
  BY <1>1, <1>3 DEF LawfulLogs
<1>6. Known'
  <2>1. \A s \in Seq(PS!Entry) : Past(s, pc) => Past(s, pc')
    BY <1>1, <1>2, RunsOfEntries DEF Past
  <2>2. \A a \in anchors' : a # NoAnchor => Past(a, pc')
    BY <1>1, <2>1, ProductionTypes DEF Known
  <2>3. \A s \in Run : Past(loaded'[s], pc')
    BY <1>1, <2>1, ProductionTypes DEF Known
  <2> QED BY <1>1, <1>2, <1>3, <2>2, <2>3 DEF Known
<1>7. Recorded'
  BY <1>1, <1>2, <1>3 DEF Recorded
<1>8. Unhurt'
  BY <1>1, <1>2, <1>3 DEF Unhurt
<1> QED BY <1>4, <1>5, <1>6, <1>7, <1>8

-----------------------------------------------------------------------------
(* What AppendLine opens: the log there is, or a new file.                  *)
LEMMA OpenedFile ==
    ASSUME ProductionInv, NEW r \in Run, pc[r] = "write"
    PROVE  LET f == PS!Opened(r)
           IN  /\ f \in PS!Logs /\ PS!Bodies(f) = PS!Entries(log)
               /\ log # NoLog => f = log
               /\ log = NoLog => ~f.tail /\ PS!Chained(f)
               /\ Len(PS!Entries(log)) = Len(f.lines)
<1>1. CASE log # NoLog
  <2>1. PS!Opened(r) = log /\ log \in PS!Logs
    BY <1>1, ProductionTypes DEF PS!Opened, ProductionInv, Shape
  <2> QED BY <1>1, <2>1, BodiesShape DEF PS!Entries
<1>2. CASE log = NoLog
  <2> DEFINE f == PS!File(<< >>, FALSE)
  <2>1. PS!Opened(r) = f
    BY <1>2 DEF PS!Opened
  <2> HIDE DEF f
  <2>2. /\ f \in PS!Logs /\ f.lines = << >> /\ Len(f.lines) = 0 /\ ~f.tail
        /\ PS!Chained(f) /\ Len(PS!Bodies(f)) = 0
    BY EmptyFile DEF f
  <2>3. PS!Bodies(f) = << >>
    BY <2>2, BodiesShape, EmptySeq
  <2> QED BY <1>2, <2>1, <2>2, <2>3 DEF PS!Entries
<1> QED BY <1>1, <1>2

(* The line is behind the log.                                             *)
LEMMA LineAppended ==
    ASSUME ProductionInv, NEW r \in Run, pc[r] = "write",
           \A s \in Run : pc[s] # "flush",
           log' = PS!WithLine(PS!Opened(r), PS!Line(loaded[r], entry[r])),
           logs' = logs \cup {PS!Opened(r), PS!File(PS!Opened(r).lines, TRUE)} \cup {log'},
           pc' = [pc EXCEPT ![r] = "flush"], creates' = creates \ {r},
           UNCHANGED <<anchor, anchors, entry, loaded, passed, clean, crashes, damage>>
    PROVE  ProductionInv'
<1> USE DEF ProductionInv
<1> DEFINE f == PS!Opened(r)
           t == PS!File(f.lines, TRUE)
           g == PS!WithLine(f, PS!Line(loaded[r], entry[r]))
<1>1. /\ f \in PS!Logs /\ PS!Bodies(f) = PS!Entries(log) /\ f # NoLog
      /\ log # NoLog => f = log
      /\ log = NoLog => ~f.tail /\ PS!Chained(f)
      /\ Len(PS!Entries(log)) = Len(f.lines) /\ Len(f.lines) \in Nat
  BY OpenedFile, BodiesShape
<1> HIDE DEF f
<1>2. /\ t \in PS!Logs /\ PS!Bodies(t) = PS!Bodies(f) /\ t # NoLog
      /\ PS!Chained(t) <=> PS!Chained(f)
  BY <1>1, SameLines, BodiesShape
<1>3. loaded[r] \in Seq(PS!Entry) /\ entry[r] \in PS!Entry
  BY ProductionTypes DEF Working
<1>4. /\ g \in PS!Logs /\ ~g.tail /\ g # NoLog
      /\ PS!Bodies(g) = Append(PS!Entries(log), entry[r])
      /\ Len(g.lines) = Len(PS!Entries(log)) + 1
      /\ PS!Chained(g) <=> ~f.tail /\ PS!Chained(f) /\ PS!Entries(log) = loaded[r]
  <2>1. LET h == PS!WithLine(f, PS!Line(loaded[r], entry[r]))
        IN  /\ h \in PS!Logs /\ ~h.tail /\ Len(h.lines) = Len(f.lines) + 1
            /\ PS!Bodies(h) = Append(PS!Bodies(f), entry[r])
            /\ PS!Chained(h) <=> ~f.tail /\ PS!Chained(f) /\ PS!Bodies(f) = loaded[r]
    BY <1>1, <1>3, AppendedLine
  <2> QED BY <1>1, <2>1, BodiesShape
<1>5. /\ Len(PS!Bodies(g)) = Len(PS!Entries(log)) + 1 /\ Len(PS!Entries(log)) \in Nat
      /\ \A i \in 1 .. Len(PS!Entries(log)) : PS!Bodies(g)[i] = PS!Entries(log)[i]
      /\ PS!Bodies(g)[Len(PS!Entries(log)) + 1] = entry[r]
      /\ PS!Entries(log) \in Seq(PS!Entry)
  BY <1>1, <1>3, <1>4, BodiesShape, AppendProperties
<1>6. log' = g /\ logs' = logs \cup {f, t, g} /\ PS!Entries(log') = PS!Bodies(g)
  BY <1>4 DEF f, PS!Entries
<1> HIDE DEF t, g
<1>7. /\ pc' \in [Run -> PS!Places] /\ pc'[r] = "flush"
      /\ \A s \in Run : s # r => pc'[s] = pc[s]
      /\ \A s \in Run : s # r => pc'[s] # "write"
  BY DEF Shape, PS!TypeOK, PS!Places
<1>8. Shape'
  <2>1. creates' = {}
    BY DEF Shape
  <2>2. PS!TypeOK'
    <3>1. log' \in logs' /\ logs' \subseteq PS!Logs \cup {NoLog}
      BY <1>1, <1>2, <1>4, <1>6 DEF Shape, PS!TypeOK
    <3>2. \A s \in Run : entry'[s] = PS!NoEntry <=> pc'[s] \in {"idle", "passed", "failed"}
      BY <1>7 DEF Shape, PS!TypeOK
    <3> QED BY <1>7, <2>1, <3>1, <3>2 DEF Shape, PS!TypeOK
  <2>3. \A s, q \in Run : pc'[s] = "write" /\ pc'[q] = "write" => s = q
    BY <1>7
  <2>4. \A s \in Run : entry'[s] # PS!NoEntry => entry'[s].run = s
    BY DEF Shape
  <2> QED BY <2>1, <2>2, <2>3, <2>4 DEF Shape
<1>9. \A s \in Run : /\ pc'[s] \in Working <=> pc[s] \in Working
                     /\ pc'[s] \in Early => pc[s] \in Early
                     /\ pc'[s] \in Late => s = r \/ (pc[s] \in Late /\ pc[s] = pc'[s])
  BY <1>7 DEF Working, Early, Late
<1>10. log = NoLog => \A s \in Run : pc'[s] \in Late => s = r
  BY <1>9 DEF Known
<1>11. LawfulLogs'
  <2>1. Good(f) => Lawful(PS!Bodies(f))
    <3>1. CASE log = NoLog
      <4>1. Len(PS!Bodies(f)) = 0
        BY <1>1, <3>1, EntriesShape
      <4> QED BY <4>1 DEF Lawful
    <3>2. CASE log # NoLog
      BY <1>1, <3>2, ProductionTypes DEF LawfulLogs
    <3> QED BY <3>1, <3>2
  <2>2. Good(t) => Lawful(PS!Bodies(t))
    BY <1>1, <1>2, <2>1 DEF Good
  <2>3. Good(g) => Lawful(PS!Bodies(g))
    <3>1. Lawful(loaded[r]) /\ PS!Admissible(loaded[r], entry[r])
      BY DEF LawfulLogs, Working
    <3>2. Lawful(Append(loaded[r], entry[r]))
      BY <1>3, <3>1, LawfulAppend
    <3> QED BY <1>4, <3>2 DEF Good
  <2>4. \A s \in Run : pc'[s] \in Working =>
          Lawful(loaded'[s]) /\ PS!Admissible(loaded'[s], entry'[s])
    BY <1>9 DEF LawfulLogs
  <2>5. \A l \in logs' : Good(l) => Lawful(PS!Bodies(l))
    BY <1>6, <2>1, <2>2, <2>3 DEF LawfulLogs
  <2> QED BY <2>4, <2>5 DEF LawfulLogs
<1>12. Known'
  <2>1. \A s \in Seq(PS!Entry) : Past(s, pc) => Past(s, pc')
    BY <1>7, RunsOfEntries DEF Past
  <2>2. \A a \in anchors' : a # NoAnchor => Past(a, pc')
    BY <2>1, ProductionTypes DEF Known
  <2>3. \A s \in Run : Past(loaded'[s], pc')
    BY <2>1, ProductionTypes DEF Known
  <2>4. \A s \in Run : pc'[s] \in Working => Len(loaded'[s]) <= Len(PS!Entries(log'))
    <3>1. \A s \in Run : pc'[s] \in Working =>
              Len(loaded[s]) \in Nat /\ Len(loaded[s]) <= Len(PS!Entries(log))
      BY <1>9, ProductionTypes DEF Known
    <3> QED BY <1>5, <1>6, <3>1
  <2>5. \A s \in Run : pc'[s] \in Late => log' # NoLog /\ Has(PS!Bodies(log'), entry'[s])
    <3>1. Has(PS!Bodies(g), entry[r])
      BY <1>5 DEF Has
    <3>2. ASSUME NEW s \in Run, pc[s] \in Late PROVE Has(PS!Bodies(g), entry[s])
      <4>1. log # NoLog /\ Has(PS!Bodies(log), entry[s])
        BY <3>2 DEF Known
      <4>2. Has(PS!Entries(log), entry[s])
        BY <4>1 DEF PS!Entries
      <4> QED BY <1>5, <4>2 DEF Has
    <3> QED BY <1>4, <1>6, <1>9, <3>1, <3>2
  <2>6. \A s \in Run : pc'[s] = "flush" /\ Good(log') =>
            PS!Bodies(log') = Append(loaded'[s], entry'[s])
    <3>1. \A s \in Run : pc'[s] = "flush" => s = r
      BY <1>7
    <3> QED BY <1>4, <1>6, <3>1 DEF Good
  <2>7. \A s \in Run : pc'[s] \in {"install", "sync"} =>
            \A l \in logs' : Good(l) => Holds(PS!Bodies(l), loaded'[s], entry'[s])
    <3> SUFFICES ASSUME NEW s \in Run, pc'[s] \in {"install", "sync"},
                        NEW l \in logs', Good(l)
                 PROVE  Holds(PS!Bodies(l), loaded[s], entry[s])
      OBVIOUS
    <3>1. s # r /\ pc[s] \in {"install", "sync"} /\ log # NoLog
      BY <1>7, <1>10 DEF Late
    <3>2. \A k \in logs : Good(k) => Holds(PS!Bodies(k), loaded[s], entry[s])
      BY <3>1 DEF Known
    <3>3. f = log /\ log \in logs /\ PS!Entries(log) = PS!Bodies(log)
      BY <1>1, <3>1, ProductionTypes DEF PS!Entries
    <3>4. CASE l \in logs \cup {f}
      BY <3>2, <3>3, <3>4
    <3>5. CASE l = t
      BY <1>1, <1>2, <3>2, <3>3, <3>5 DEF Good
    <3>6. CASE l = g
      <4>1. Holds(PS!Entries(log), loaded[s], entry[s])
        BY <1>1, <1>4, <3>2, <3>3, <3>6 DEF Good
      <4>2. Len(loaded[s]) \in Nat
        BY ProductionTypes
      <4> QED BY <1>5, <3>6, <4>1, <4>2 DEF Holds
    <3> QED BY <1>6, <3>4, <3>5, <3>6
  <2> QED BY <2>2, <2>3, <2>4, <2>5, <2>6, <2>7 DEF Known
<1>13. Recorded'
  <2>1. log = NoLog => passed = {}
    BY DEF Recorded, Early
  <2>2. passed = {} => \A s : Covered(s, passed)
    BY DEF Covered
  <2>3. log # NoLog /\ Broken(logs) => Broken(logs')
    <3>1. log # NoLog /\ Broken(logs) => ~Good(f)
      BY <1>1, ProductionTypes DEF Broken
    <3>2. ~Good(f) => ~Good(t) /\ ~Good(g)
      BY <1>1, <1>2, <1>4 DEF Good
    <3> QED BY <1>6, <3>1, <3>2 DEF Broken
  <2>4. \A s : Broken(logs) \/ Covered(s, passed) => Broken(logs') \/ Covered(s, passed')
    BY <2>1, <2>2, <2>3
  <2>5. NoLog \in logs' /\ log' # NoLog => passed' = {}
    <3>1. NoLog \in logs' => NoLog \in logs
      BY <1>1, <1>2, <1>4, <1>6
    <3> QED BY <2>1, <3>1 DEF Recorded
  <2>6. \A s \in Run : pc'[s] \in Early =>
          /\ log' = NoLog => passed' = {}
          /\ PS!Entries(log') = loaded'[s] => Covered(loaded'[s], passed')
    <3>1. \A s \in Run : pc'[s] \in Early => Len(loaded[s]) <= Len(PS!Entries(log))
      BY <1>9 DEF Known, Early, Working
    <3>2. \A s \in Run : Len(loaded[s]) <= Len(PS!Entries(log)) =>
              PS!Entries(log') # loaded[s]
      BY <1>5, <1>6, ProductionTypes
    <3> QED BY <1>4, <1>6, <3>1, <3>2
  <2>7. \A s \in Run : pc'[s] = "flush" /\ Good(log') => Covered(loaded'[s], passed')
    <3>1. \A s \in Run : pc'[s] = "flush" => s = r
      BY <1>7
    <3>2. Good(g) => PS!Entries(log) = loaded[r]
      BY <1>4 DEF Good
    <3>3. Good(g) => Covered(loaded[r], passed)
      BY <3>2 DEF Recorded, Early
    <3> QED BY <1>6, <3>1, <3>3
  <2>8. \A s \in Run : pc'[s] = "install" => Broken(logs') \/ Covered(loaded'[s], passed')
    BY <1>7, <2>4 DEF Recorded
  <2>9. \A s \in Run : pc'[s] = "sync" =>
            anchor' # NoAnchor /\ (Broken(logs') \/ Has(anchor', entry'[s]))
    BY <1>7, <1>10, <2>3 DEF Recorded, Late
  <2> QED BY <2>4, <2>5, <2>6, <2>7, <2>8, <2>9 DEF Recorded
<1>14. Unhurt'
  <2> SUFFICES ASSUME clean' PROVE Unhurt'
    BY DEF Unhurt
  <2>1. \A s \in Run : pc'[s] \in Working => s = r
    BY <1>9 DEF Unhurt, Working
  <2>2. PS!Loads(log, anchor) /\ PS!Entries(log) = loaded[r] /\ Len(loaded[r]) + 1 <= MaxEntries
    BY DEF Unhurt, Early
  <2>3. ~f.tail /\ PS!Chained(f)
    BY <1>1, <2>2 DEF PS!Loads
  <2>4. /\ Good(g) /\ ~g.tail /\ PS!Bodies(g) = Append(loaded[r], entry[r])
        /\ Len(g.lines) <= MaxEntries
    BY <1>4, <2>2, <2>3 DEF Good
  <2> QED BY <1>6, <1>7, <2>1, <2>4 DEF Unhurt, Early, Late, Working
<1> QED BY <1>8, <1>11, <1>12, <1>13, <1>14

LEMMA AppendLineStep ==
    ASSUME ProductionInv, NEW r \in Run, PS!AppendLine(r)
    PROVE  ProductionInv'
<1> DEFINE f == PS!Opened(r)
           t == PS!File(f.lines, TRUE)
           free == \A s \in Run : pc[s] # "flush"
           parts == IF free THEN {f, t} ELSE {}
<1>1. /\ pc[r] = "write" /\ creates' = creates \ {r}
      /\ UNCHANGED <<anchor, anchors, passed, crashes, damage>>
  BY DEF PS!AppendLine
<1>2. CASE /\ free
           /\ log' = PS!WithLine(f, PS!Line(loaded[r], entry[r]))
           /\ logs' = logs \cup parts \cup {log'}
           /\ PS!Goto(r, "flush") /\ UNCHANGED <<entry, loaded, clean>>
  BY <1>1, <1>2, LineAppended DEF PS!Goto
<1>3. CASE /\ log' \in {log} \cup parts
           /\ logs' = logs \cup parts
           /\ PS!Fail(r) /\ clean' = FALSE
  <2>1. /\ f \in PS!Logs /\ PS!Bodies(f) = PS!Entries(log) /\ f # NoLog
        /\ log # NoLog => f = log
    BY <1>1, OpenedFile, BodiesShape
  <2> HIDE DEF f
  <2>2. /\ t \in PS!Logs /\ PS!Bodies(t) = PS!Entries(log) /\ t # NoLog
        /\ PS!Chained(t) <=> PS!Chained(f)
    BY <2>1, SameLines, BodiesShape
  <2>3. PS!Entries(f) = PS!Entries(log) /\ PS!Entries(t) = PS!Entries(log)
    BY <2>1, <2>2 DEF PS!Entries
  <2> HIDE DEF t
  <2>4. log # NoLog => (Good(f) <=> Good(log)) /\ (Good(t) <=> Good(log))
    BY <2>1, <2>2 DEF Good
  <2>5. \A l \in logs' \ logs : l = f \/ l = t
    BY <1>3
  <2>6. log' \in {log, f, t} /\ log' \in logs' /\ logs \subseteq logs'
    BY <1>3, ProductionTypes DEF ProductionInv
  <2>7. clean' \in BOOLEAN /\ ~clean'
    BY <1>3
  <2> QED BY <1>1, <1>3, <2>1, <2>2, <2>3, <2>4, <2>5, <2>6, <2>7, RunEnds
<1> QED BY <1>1, <1>2, <1>3 DEF PS!AppendLine

-----------------------------------------------------------------------------
(* What is left to a power cut is the log with the line, or no log.          *)
LEMMA LineFlushed ==
    ASSUME ProductionInv, NEW r \in Run, pc[r] = "flush",
           logs' = {log} \cup (logs \cap {NoLog}),
           pc' = [pc EXCEPT ![r] = "install"],
           UNCHANGED <<log, anchor, anchors, entry, creates, loaded, passed, clean,
                       crashes, damage>>
    PROVE  ProductionInv'
<1> USE DEF ProductionInv
<1>1. /\ pc' \in [Run -> PS!Places] /\ pc'[r] = "install"
      /\ \A s \in Run : s # r => pc'[s] = pc[s]
      /\ log # NoLog /\ log \in logs
  BY ProductionTypes DEF Shape, PS!TypeOK, PS!Places, Known, Late
<1>2. \A s \in Run : /\ pc'[s] \in Working <=> pc[s] \in Working
                     /\ pc'[s] \in Early <=> pc[s] \in Early
                     /\ pc'[s] \in Late <=> pc[s] \in Late
  BY <1>1 DEF Working, Early, Late
<1>3. /\ logs' \subseteq logs /\ log \in logs' /\ (NoLog \in logs' => NoLog \in logs)
      /\ \A l \in logs' : Good(l) => l = log
      /\ Broken(logs) => Broken(logs')
  <2>1. \A l \in logs' : Good(l) => l = log
    BY DEF Good
  <2> QED BY <1>1, <2>1 DEF Broken
<1>4. Shape'
  <2>1. PS!TypeOK'
    <3>1. \A s \in Run : entry'[s] = PS!NoEntry <=> pc'[s] \in {"idle", "passed", "failed"}
      BY <1>1 DEF Shape, PS!TypeOK
    <3> QED BY <1>1, <1>3, <3>1 DEF Shape, PS!TypeOK
  <2> QED BY <1>1, <2>1 DEF Shape
<1>5. LawfulLogs'
  BY <1>2, <1>3 DEF LawfulLogs
<1>6. Good(log) => Holds(PS!Bodies(log), loaded[r], entry[r])
  <2>1. loaded[r] \in Seq(PS!Entry) /\ entry[r] \in PS!Entry
    BY ProductionTypes DEF Working
  <2> QED BY <2>1, AppendProperties DEF Known, Holds
<1>7. Known'
  <2>1. \A s \in Seq(PS!Entry) : Past(s, pc) => Past(s, pc')
    BY <1>1, RunsOfEntries DEF Past
  <2>2. \A a \in anchors' : a # NoAnchor => Past(a, pc')
    BY <2>1, ProductionTypes DEF Known
  <2>3. \A s \in Run : Past(loaded'[s], pc')
    BY <2>1, ProductionTypes DEF Known
  <2>4. \A s \in Run : pc'[s] \in {"install", "sync"} =>
            \A l \in logs' : Good(l) => Holds(PS!Bodies(l), loaded'[s], entry'[s])
    BY <1>1, <1>3, <1>6 DEF Known
  <2> QED BY <1>1, <1>2, <2>2, <2>3, <2>4 DEF Known
<1>8. Recorded'
  <2>1. \A s : Broken(logs) \/ Covered(s, passed) => Broken(logs') \/ Covered(s, passed')
    BY <1>3
  <2>2. Broken(logs') \/ Covered(loaded[r], passed)
    <3>1. ~Good(log) => Broken(logs')
      BY <1>3 DEF Broken
    <3> QED BY <3>1 DEF Recorded
  <2>3. \A s \in Run : pc'[s] = "install" => Broken(logs') \/ Covered(loaded'[s], passed')
    BY <1>1, <2>1, <2>2 DEF Recorded
  <2> QED BY <1>1, <1>2, <1>3, <2>1, <2>3 DEF Recorded
<1>9. Unhurt'
  BY <1>1, <1>2 DEF Unhurt
<1> QED BY <1>4, <1>5, <1>7, <1>8, <1>9

LEMMA FlushLogStep ==
    ASSUME ProductionInv, NEW r \in Run, PS!FlushLog(r)
    PROVE  ProductionInv'
<1>1. /\ pc[r] = "flush"
      /\ UNCHANGED <<log, anchor, anchors, creates, passed, crashes, damage>>
  BY DEF PS!FlushLog
<1>2. CASE /\ logs' = {log} \cup (logs \cap {NoLog})
           /\ PS!Goto(r, "install") /\ UNCHANGED <<entry, loaded, clean>>
  BY <1>1, <1>2, LineFlushed DEF PS!Goto
<1>3. CASE UNCHANGED logs /\ PS!Fail(r) /\ clean' = FALSE
  <2>1. creates' = creates \ {r} /\ log \in logs
    BY <1>1 DEF ProductionInv, Shape, PS!TypeOK
  <2>2. clean' \in BOOLEAN /\ ~clean'
    BY <1>3
  <2> QED BY <1>1, <1>3, <2>1, <2>2, RunEnds
<1> QED BY <1>1, <1>2, <1>3 DEF PS!FlushLog

-----------------------------------------------------------------------------
(* The anchor is computed from what the run loaded and its entry: every unit  *)
(* reported as PASS is in it, unless nothing on the disk verifies.          *)
LEMMA AnchorInstalled ==
    ASSUME ProductionInv, NEW r \in Run, pc[r] = "install",
           anchor' = Append(loaded[r], entry[r]), anchors' = anchors \cup {anchor'},
           pc' = [pc EXCEPT ![r] = "sync"],
           UNCHANGED <<log, logs, entry, creates, loaded, passed, clean, crashes, damage>>
    PROVE  ProductionInv'
<1> USE DEF ProductionInv
<1>1. /\ pc' \in [Run -> PS!Places] /\ pc'[r] = "sync"
      /\ \A s \in Run : s # r => pc'[s] = pc[s]
  BY DEF Shape, PS!TypeOK, PS!Places
<1>2. \A s \in Run : /\ pc'[s] \in Working <=> pc[s] \in Working
                     /\ pc'[s] \in Early <=> pc[s] \in Early
                     /\ pc'[s] \in Late <=> pc[s] \in Late
  BY <1>1 DEF Working, Early, Late
<1>3. /\ anchor' \in Seq(PS!Entry) /\ anchor' # << >> /\ anchor' # NoAnchor
      /\ Len(anchor') = Len(loaded[r]) + 1 /\ Len(loaded[r]) \in Nat
      /\ \A i \in 1 .. Len(loaded[r]) : anchor'[i] = loaded[r][i]
      /\ anchor'[Len(loaded[r]) + 1] = entry[r]
      /\ entry[r].run = r
  <2>1. loaded[r] \in Seq(PS!Entry) /\ entry[r] \in PS!Entry /\ entry[r].run = r
    BY ProductionTypes DEF Working
  <2> DEFINE a == Append(loaded[r], entry[r])
  <2>2. /\ a \in Seq(PS!Entry) /\ a # << >> /\ Len(a) = Len(loaded[r]) + 1
        /\ \A i \in 1 .. Len(loaded[r]) : a[i] = loaded[r][i]
        /\ a[Len(loaded[r]) + 1] = entry[r]
    BY <2>1, AppendProperties
  <2>3. anchor' = a /\ Len(loaded[r]) \in Nat
    BY <2>1
  <2> HIDE DEF a
  <2> QED BY <2>1, <2>2, <2>3, ProductionConstants
<1>4. Shape'
  <2>1. PS!TypeOK'
    <3>1. \A s \in Run : entry'[s] = PS!NoEntry <=> pc'[s] \in {"idle", "passed", "failed"}
      BY <1>1 DEF Shape, PS!TypeOK
    <3> QED BY <1>1, <1>3, <3>1 DEF Shape, PS!TypeOK
  <2> QED BY <1>1, <2>1 DEF Shape
<1>5. LawfulLogs'
  BY <1>2 DEF LawfulLogs
<1>6. Known'
  <2>1. \A s \in Seq(PS!Entry) : Past(s, pc) => Past(s, pc')
    BY <1>1, RunsOfEntries DEF Past
  <2>2. Past(anchor', pc')
    <3>1. Past(loaded[r], pc')
      BY <2>1, ProductionTypes DEF Known
    <3>2. \A i \in 1 .. Len(anchor') : i \in 1 .. Len(loaded[r]) \/ i = Len(loaded[r]) + 1
      BY <1>3
    <3>3. \A i \in 1 .. Len(loaded[r]) :
              pc'[anchor'[i].run] \in {"sync", "passed", "failed"}
      BY <1>3, <3>1 DEF Past
    <3>4. pc'[anchor'[Len(loaded[r]) + 1].run] = "sync"
      BY <1>1, <1>3
    <3> QED BY <3>2, <3>3, <3>4 DEF Past
  <2>3. \A a \in anchors' : a # NoAnchor => Past(a, pc')
    BY <2>1, <2>2, ProductionTypes DEF Known
  <2>4. \A s \in Run : Past(loaded'[s], pc')
    BY <2>1, ProductionTypes DEF Known
  <2>5. \A s \in Run : pc'[s] \in {"install", "sync"} => pc[s] \in {"install", "sync"}
    BY <1>1
  <2> QED BY <1>1, <1>2, <2>3, <2>4, <2>5 DEF Known
<1>7. Recorded'
  <2>1. Broken(logs) \/ Covered(anchor', passed)
    <3>1. \A e : Has(loaded[r], e) => Has(anchor', e)
      BY <1>3 DEF Has
    <3>2. Covered(loaded[r], passed) => Covered(anchor', passed)
      BY <3>1 DEF Covered
    <3> QED BY <3>2 DEF Recorded
  <2>2. \A s \in Run : pc'[s] = "sync" => Broken(logs) \/ Has(anchor', entry[s])
    <3>1. Has(anchor', entry[r])
      BY <1>3 DEF Has
    <3>2. ASSUME NEW s \in Run, s # r, pc[s] = "sync", NEW l \in logs, Good(l)
          PROVE  Has(anchor', entry[s])
      <4>1. Holds(PS!Bodies(l), loaded[r], entry[r]) /\ Holds(PS!Bodies(l), loaded[s], entry[s])
        BY <3>2 DEF Known
      <4>2. PS!Bodies(l) \in Seq(PS!Entry)
        BY <3>2, ProductionTypes, BodiesShape DEF Good
      <4>3. Has(loaded[r], entry[s])
        BY <3>2, <4>1, <4>2, Meeting DEF Working
      <4> QED BY <1>3, <4>3 DEF Has
    <3> QED BY <1>1, <3>1, <3>2 DEF Broken
  <2>3. NoAnchor \in anchors' => passed' = {}
    BY <1>3 DEF Recorded
  <2>4. \A a \in anchors' : a # NoAnchor => Broken(logs') \/ Covered(a, passed')
    BY <2>1 DEF Recorded
  <2>5. \A s \in Run : pc'[s] = "install" => Broken(logs') \/ Covered(loaded'[s], passed')
    BY <1>1 DEF Recorded
  <2>6. \A s \in Run : pc'[s] = "sync" =>
            anchor' # NoAnchor /\ (Broken(logs') \/ Has(anchor', entry'[s]))
    BY <1>3, <2>2
  <2> QED BY <1>1, <1>2, <2>3, <2>4, <2>5, <2>6 DEF Recorded
<1>8. Unhurt'
  <2> SUFFICES ASSUME clean' PROVE Unhurt'
    BY DEF Unhurt
  <2>1. \A s \in Run : pc'[s] \in Working => s = r
    BY <1>2 DEF Unhurt, Working
  <2>2. /\ Good(log) /\ ~log.tail
        /\ PS!Bodies(log) = Append(loaded[r], entry[r])
        /\ Len(log.lines) <= MaxEntries
    BY DEF Unhurt, Late
  <2> QED BY <1>1, <2>1, <2>2 DEF Unhurt, Early, Late, Working
<1> QED BY <1>4, <1>5, <1>6, <1>7, <1>8

LEMMA InstallAnchorStep ==
    ASSUME ProductionInv, NEW r \in Run, PS!InstallAnchor(r)
    PROVE  ProductionInv'
<1>1. /\ pc[r] = "install"
      /\ UNCHANGED <<log, logs, creates, passed, crashes, damage>>
  BY DEF PS!InstallAnchor
<1>2. CASE /\ anchor' = PS!NewAnchor(r)
           /\ anchors' = anchors \cup {anchor'}
           /\ PS!Goto(r, "sync") /\ UNCHANGED <<entry, loaded, clean>>
  BY <1>1, <1>2, AnchorInstalled DEF PS!Goto, PS!NewAnchor
<1>3. CASE UNCHANGED <<anchor, anchors>> /\ PS!Fail(r) /\ clean' = FALSE
  <2>1. creates' = creates \ {r} /\ log \in logs
    BY <1>1 DEF ProductionInv, Shape, PS!TypeOK
  <2>2. clean' \in BOOLEAN /\ ~clean'
    BY <1>3
  <2> QED BY <1>1, <1>3, <2>1, <2>2, RunEnds
<1> QED BY <1>1, <1>2, <1>3 DEF PS!InstallAnchor

-----------------------------------------------------------------------------
(* The names of both files are on the disk, and the unit is a PASS.          *)
LEMMA UnitPasses ==
    ASSUME ProductionInv, NEW r \in Run, pc[r] = "sync",
           anchors' = {anchor}, logs' = logs \ {NoLog},
           passed' = passed \cup {entry[r]},
           pc' = [pc EXCEPT ![r] = "passed"],
           entry' = [entry EXCEPT ![r] = PS!NoEntry],
           loaded' = [loaded EXCEPT ![r] = << >>],
           UNCHANGED <<log, anchor, creates, clean, crashes, damage>>
    PROVE  ProductionInv'
<1> USE DEF ProductionInv
<1>1. /\ pc' \in [Run -> PS!Places] /\ pc'[r] = "passed"
      /\ entry'[r] = PS!NoEntry /\ loaded'[r] = << >> /\ Len(loaded'[r]) = 0
      /\ \A s \in Run : s # r =>
            pc'[s] = pc[s] /\ entry'[s] = entry[s] /\ loaded'[s] = loaded[s]
  BY DEF Shape, PS!TypeOK, PS!Places
<1>2. \A s \in Run : pc'[s] \in Working => s # r /\ pc[s] \in Working
  BY <1>1 DEF Working
<1>3. /\ log \in logs /\ log # NoLog /\ anchor \in anchors /\ anchor # NoAnchor
      /\ entry[r] \in PS!Entry /\ entry[r].run = r
      /\ Has(PS!Bodies(log), entry[r])
      /\ Broken(logs) \/ Has(anchor, entry[r])
  BY ProductionTypes DEF Known, Recorded, Late, Working
<1>4. Broken(logs) => Broken(logs')
  BY DEF Broken
<1>5. Shape'
  <2>1. PS!TypeOK'
    <3>1. entry' \in [Run -> PS!Entry \cup {PS!NoEntry}]
      BY DEF Shape, PS!TypeOK
    <3>2. loaded' \in [Run -> Seq(PS!Entry)]
      BY DEF Shape, PS!TypeOK
    <3>3. \A s \in Run : entry'[s] = PS!NoEntry <=> pc'[s] \in {"idle", "passed", "failed"}
      BY <1>1 DEF Shape, PS!TypeOK
    <3> QED BY <1>1, <1>3, <3>1, <3>2, <3>3 DEF Shape, PS!TypeOK
  <2> QED BY <1>1, <2>1 DEF Shape
<1>6. LawfulLogs'
  BY <1>1, <1>2 DEF LawfulLogs
<1>7. Known'
  <2>1. \A s \in Seq(PS!Entry) : Past(s, pc) => Past(s, pc')
    BY <1>1, RunsOfEntries DEF Past
  <2>2. \A a \in anchors' : a # NoAnchor => Past(a, pc')
    BY <1>3, <2>1, ProductionTypes DEF Known
  <2>3. \A s \in Run : Past(loaded'[s], pc')
    <3>1. \A s \in Run : loaded[s] \in Seq(PS!Entry) /\ Past(loaded[s], pc)
      BY ProductionTypes DEF Known
    <3>2. Past(loaded'[r], pc')
      BY <1>1 DEF Past
    <3> QED BY <1>1, <2>1, <3>1, <3>2
  <2>4. \A s \in Run : pc'[s] \in Working => Len(loaded'[s]) <= Len(PS!Entries(log'))
    BY <1>1, <1>2 DEF Known
  <2>5. \A s \in Run : pc'[s] \in Late => s # r /\ pc[s] \in Late
    BY <1>1 DEF Late
  <2>6. \A s \in Run : pc'[s] \in {"install", "sync"} =>
            \A l \in logs' : Good(l) => Holds(PS!Bodies(l), loaded'[s], entry'[s])
    BY <1>1 DEF Known
  <2> QED BY <1>1, <2>2, <2>3, <2>4, <2>5, <2>6 DEF Known
<1>8. Recorded'
  <2>1. \A s : Covered(s, passed) /\ Has(s, entry[r]) => Covered(s, passed')
    BY DEF Covered
  <2>2. Broken(logs') \/ Covered(anchor, passed')
    BY <1>3, <1>4, <2>1 DEF Recorded
  <2>3. \A s \in Run : pc'[s] \in Early =>
          /\ log' = NoLog => passed' = {}
          /\ PS!Entries(log') = loaded'[s] => Covered(loaded'[s], passed')
    <3>1. \A s \in Run : pc'[s] \in Early => s # r /\ pc[s] \in Early /\ loaded'[s] = loaded[s]
      BY <1>1 DEF Early
    <3>2. PS!Entries(log) = PS!Bodies(log)
      BY <1>3 DEF PS!Entries
    <3> QED BY <1>3, <2>1, <3>1, <3>2 DEF Recorded
  <2>4. \A s \in Run : pc'[s] = "flush" /\ Good(log') => Covered(loaded'[s], passed')
    <3> SUFFICES ASSUME NEW s \in Run, pc'[s] = "flush", Good(log)
                 PROVE  Covered(loaded[s], passed')
      BY <1>1
    <3>1. s # r /\ pc[s] = "flush" /\ Covered(loaded[s], passed)
          /\ PS!Bodies(log) = Append(loaded[s], entry[s])
      BY <1>1 DEF Recorded, Known
    <3>2. Holds(PS!Bodies(log), loaded[r], entry[r])
      BY <1>3 DEF Known
    <3>3. /\ loaded[s] \in Seq(PS!Entry) /\ entry[s] \in PS!Entry /\ entry[s].run = s
          /\ Len(loaded[r]) \in Nat
      BY <3>1, ProductionTypes DEF Working
    <3>4. Len(loaded[r]) + 1 \in 1 .. Len(loaded[s]) + 1
      BY <3>1, <3>2, <3>3 DEF Holds
    <3>5. Len(loaded[r]) + 1 # Len(loaded[s]) + 1
      BY <1>3, <3>1, <3>2, <3>3 DEF Holds
    <3>6. Has(loaded[s], entry[r])
      BY <3>1, <3>2, <3>3, <3>4, <3>5 DEF Holds, Has
    <3> QED BY <2>1, <3>1, <3>6
  <2>5. \A s \in Run : pc'[s] = "install" => Broken(logs') \/ Covered(loaded'[s], passed')
    <3> SUFFICES ASSUME NEW s \in Run, pc'[s] = "install", NEW l \in logs, Good(l)
                 PROVE  Covered(loaded[s], passed')
      BY <1>1 DEF Broken
    <3>1. s # r /\ pc[s] = "install" /\ Covered(loaded[s], passed)
      BY <1>1 DEF Recorded, Broken
    <3>2. Holds(PS!Bodies(l), loaded[r], entry[r]) /\ Holds(PS!Bodies(l), loaded[s], entry[s])
      BY <3>1 DEF Known
    <3>3. PS!Bodies(l) \in Seq(PS!Entry)
      BY ProductionTypes, BodiesShape DEF Good
    <3>4. Has(loaded[s], entry[r])
      BY <3>1, <3>2, <3>3, Meeting DEF Working
    <3> QED BY <2>1, <3>1, <3>4
  <2>6. \A s \in Run : pc'[s] = "sync" =>
            anchor' # NoAnchor /\ (Broken(logs') \/ Has(anchor', entry'[s]))
    BY <1>1, <1>3, <1>4 DEF Recorded
  <2>7. NoAnchor \notin anchors' /\ NoLog \notin logs'
    BY <1>3
  <2> QED BY <2>2, <2>3, <2>4, <2>5, <2>6, <2>7 DEF Recorded
<1>9. Unhurt'
  <2> SUFFICES ASSUME clean' PROVE Unhurt'
    BY DEF Unhurt
  <2>1. \A s \in Run : pc'[s] \notin Working
    BY <1>2 DEF Unhurt, Working
  <2>2. /\ Good(log) /\ ~log.tail
        /\ PS!Bodies(log) = anchor /\ Len(log.lines) <= MaxEntries
    BY DEF Unhurt, Late
  <2>3. log.lines # << >>
    <3>1. log \in PS!Logs /\ Len(PS!Bodies(log)) = Len(log.lines)
      BY <1>3, ProductionTypes, BodiesShape
    <3>2. Len(anchor) > 0
      BY <1>3, ProductionTypes
    <3> QED BY <2>2, <3>1, <3>2
  <2>4. (log # NoLog => PS!Readable(log)) => PS!Loads(log, anchor)
    BY <1>3, <2>2, <2>3 DEF PS!Loads, PS!AnchorAgrees, Good
  <2> QED BY <2>1, <2>4 DEF Unhurt, Early, Late, Working
<1> QED BY <1>5, <1>6, <1>7, <1>8, <1>9

LEMMA SyncAnchorStep ==
    ASSUME ProductionInv, NEW r \in Run, PS!SyncAnchor(r)
    PROVE  ProductionInv'
<1>1. /\ pc[r] = "sync"
      /\ UNCHANGED <<log, anchor, creates, crashes, damage>>
  BY DEF PS!SyncAnchor
<1>2. CASE /\ anchors' = {anchor} /\ logs' = logs \ {NoLog}
           /\ passed' = passed \cup {entry[r]}
           /\ PS!Goto(r, "passed") /\ UNCHANGED clean
           /\ entry' = [entry EXCEPT ![r] = PS!NoEntry]
           /\ loaded' = [loaded EXCEPT ![r] = << >>]
  BY <1>1, <1>2, UnitPasses DEF PS!Goto
<1>3. CASE UNCHANGED <<anchors, logs, passed>> /\ PS!Fail(r) /\ clean' = FALSE
  <2>1. creates' = creates \ {r} /\ log \in logs
    BY <1>1 DEF ProductionInv, Shape, PS!TypeOK
  <2>2. clean' \in BOOLEAN /\ ~clean'
    BY <1>3
  <2> QED BY <1>1, <1>3, <2>1, <2>2, RunEnds
<1> QED BY <1>1, <1>2, <1>3 DEF PS!SyncAnchor

-----------------------------------------------------------------------------
(* An older log is put back, or the log removed, while nobody appends.       *)
LEMMA DamageStep == ASSUME ProductionInv, PS!Damage PROVE ProductionInv'
<1> USE DEF ProductionInv
<1>1. /\ log # NoLog /\ PS!Loads(log, anchor) /\ logs' = {log'}
      /\ \A r \in Run : pc[r] \notin Working
      /\ clean' = FALSE /\ damage' = damage + 1 /\ damage < MaxDamage
      /\ UNCHANGED <<anchor, anchors, pc, entry, creates, loaded, passed, crashes>>
  BY DEF PS!Damage, PS!Appending, Working
<1>2. log \in PS!Logs /\ log \in logs /\ Good(log) /\ Lawful(PS!Bodies(log))
  BY <1>1, ProductionTypes DEF PS!Loads, Good, LawfulLogs
<1>3. /\ log' \in PS!Logs \cup {NoLog}
      /\ Good(log') => Lawful(PS!Bodies(log'))
  <2>1. CASE log' = NoLog
    BY <2>1 DEF Good
  <2>2. ASSUME NEW n \in 0 .. Len(log.lines) - 1,
               log' = PS!File(SubSeq(log.lines, 1, n), FALSE)
        PROVE  log' \in PS!Logs /\ Lawful(PS!Bodies(log'))
    <3>1. n \in 0 .. Len(log.lines) /\ Len(PS!Bodies(log)) = Len(log.lines)
      BY <1>2, BodiesShape
    <3>2. log' \in PS!Logs /\ PS!Bodies(log') = SubSeq(PS!Bodies(log), 1, n)
      BY <1>2, <2>2, <3>1, FirstLines DEF Good
    <3> QED BY <1>2, <3>1, <3>2, BodiesShape, LawfulBeginning
  <2> QED BY <2>1, <2>2 DEF PS!Damage
<1>4. Shape'
  <2>1. damage' \in 0 .. MaxDamage
    BY <1>1, ProductionConstants DEF Shape, PS!TypeOK
  <2>2. PS!TypeOK'
    BY <1>1, <1>3, <2>1 DEF Shape, PS!TypeOK
  <2>3. creates' = {}
    BY <1>1 DEF Shape, Working
  <2> QED BY <1>1, <2>2, <2>3 DEF Shape
<1>5. LawfulLogs'
  BY <1>1, <1>3 DEF LawfulLogs
<1>6. Known'
  BY <1>1 DEF Known, Late, Working
<1>7. Recorded'
  <2>1. ~Broken(logs)
    BY <1>2 DEF Broken
  <2>2. \A a \in anchors' : a # NoAnchor => Covered(a, passed')
    BY <1>1, <2>1 DEF Recorded
  <2>3. NoLog \in logs' => log' = NoLog
    BY <1>1
  <2>4. \A r \in Run : pc'[r] \notin {"open", "write", "flush", "install", "sync"}
    BY <1>1 DEF Working
  <2> QED BY <1>1, <2>2, <2>3, <2>4 DEF Recorded, Early
<1>8. Unhurt'
  BY <1>1 DEF Unhurt
<1> QED BY <1>4, <1>5, <1>6, <1>7, <1>8

(* The power goes: of the log and of the anchor there is one that could be    *)
(* left, and every run under way is over.                                   *)
LEMMA PowerCut == ASSUME ProductionInv, PS!Crash PROVE ProductionInv'
<1> USE DEF ProductionInv
<1>1. /\ log' \in logs /\ logs' = {log'} /\ anchor' \in anchors /\ anchors' = {anchor'}
      /\ creates' = {} /\ clean' = FALSE
      /\ crashes' = crashes + 1 /\ crashes < StationCrashes
      /\ passed' = passed /\ damage' = damage
  BY DEF PS!Crash
<1>2. /\ pc' \in [Run -> PS!Places]
      /\ \A r \in Run : /\ pc'[r] \in {"idle", "passed", "failed"}
                        /\ pc[r] \in {"sync", "passed", "failed"} => pc'[r] \in {"passed", "failed"}
                        /\ entry'[r] = PS!NoEntry
                        /\ loaded'[r] = << >> /\ Len(loaded'[r]) = 0
  BY DEF PS!Crash, Shape, PS!TypeOK, PS!Places
<1>3. \A r \in Run : pc'[r] \notin Working
  BY <1>2 DEF Working
<1>4. Shape'
  <2>1. crashes' \in 0 .. StationCrashes
    BY <1>1, ProductionConstants DEF Shape, PS!TypeOK
  <2>2. entry' \in [Run -> PS!Entry \cup {PS!NoEntry}] /\ loaded' \in [Run -> Seq(PS!Entry)]
    BY DEF PS!Crash
  <2>3. log' \in logs' /\ logs' \subseteq PS!Logs \cup {NoLog}
    BY <1>1 DEF Shape, PS!TypeOK
  <2>4. anchor' \in anchors'
        /\ \A a \in anchors' : a \in Seq(PS!Entry) \ {<< >>} \/ a = NoAnchor
    BY <1>1 DEF Shape, PS!TypeOK
  <2>5. PS!TypeOK'
    BY <1>1, <1>2, <2>1, <2>2, <2>3, <2>4 DEF Shape, PS!TypeOK
  <2> QED BY <1>1, <1>2, <2>5 DEF Shape
<1>5. LawfulLogs'
  BY <1>1, <1>3 DEF LawfulLogs
<1>6. Known'
  <2>1. \A s \in Seq(PS!Entry) : Past(s, pc) => Past(s, pc')
    BY <1>2, RunsOfEntries DEF Past
  <2>2. \A a \in anchors' : a # NoAnchor => Past(a, pc')
    BY <1>1, <2>1, ProductionTypes DEF Known
  <2>3. \A r \in Run : Past(loaded'[r], pc')
    BY <1>2 DEF Past
  <2> QED BY <1>3, <2>2, <2>3 DEF Known, Late, Working
<1>7. Recorded'
  <2>1. Broken(logs) => Broken(logs')
    BY <1>1 DEF Broken
  <2>2. \A a \in anchors' : a # NoAnchor => Broken(logs') \/ Covered(a, passed')
    BY <1>1, <2>1 DEF Recorded
  <2>3. NoAnchor \in anchors' => passed' = {}
    BY <1>1 DEF Recorded
  <2>4. NoLog \in logs' => log' = NoLog
    BY <1>1
  <2>5. \A r \in Run : pc'[r] \notin {"open", "write", "flush", "install", "sync"}
    BY <1>3 DEF Working
  <2> QED BY <2>2, <2>3, <2>4, <2>5 DEF Recorded, Early
<1>8. Unhurt'
  BY <1>1 DEF Unhurt
<1> QED BY <1>4, <1>5, <1>6, <1>7, <1>8

LEMMA ProductionStep == ASSUME ~CreateRaces, ProductionInv, PS!Next PROVE ProductionInv'
<1>1. ASSUME NEW r \in Run, PS!RunStep(r) PROVE ProductionInv'
  <2>1. CASE \E rev \in Revision, now \in Time : PS!Admit(r, rev, now)
    BY <2>1, AdmitStep
  <2>2. CASE \E uid \in Unit : PS!WriteUnit(r, uid)
    BY <2>2, WriteUnitStep
  <2>3. CASE PS!LoadAgain(r)
    BY <2>3, LoadAgainStep
  <2>4. CASE PS!ChooseMode(r)
    BY <2>4, ChooseModeStep
  <2>5. CASE PS!AppendLine(r)
    BY <2>5, AppendLineStep
  <2>6. CASE PS!FlushLog(r)
    BY <2>6, FlushLogStep
  <2>7. CASE PS!InstallAnchor(r)
    BY <2>7, InstallAnchorStep
  <2>8. CASE PS!SyncAnchor(r)
    BY <2>8, SyncAnchorStep
  <2> QED BY <1>1, <2>1, <2>2, <2>3, <2>4, <2>5, <2>6, <2>7, <2>8 DEF PS!RunStep
<1> QED BY <1>1, DamageStep, PowerCut DEF PS!Next

-----------------------------------------------------------------------------
(* The suite: the production state is at work, or its variables are not.     *)
StorageProduction == subject = "production" => ProductionInv

LEMMA StorageProductionInvariant ==
    ASSUME ~CreateRaces PROVE Spec => []StorageProduction
<1>1. Init => StorageProduction
  BY ProductionInit DEF Init, StorageProduction
<1>2. StorageProduction /\ [Next]_vars => StorageProduction'
  BY ProductionStep, ProductionStutter DEF Next, StorageProduction, vars, PS!vars
<1> QED BY <1>1, <1>2, PTL DEF Spec

(* A production state that loads, now or after a power cut, holds every unit  *)
(* ever reported as PASS, whatever failed, was cut off, put back or           *)
(* overlapped, if nobody comes between the look for the log and opening it    *)
(* (AppendProductionState).                                                 *)
THEOREM PassedIsAlwaysRecorded == ASSUME ~CreateRaces PROVE Spec => []PassedIsRecorded
<1>1. StorageProduction => PassedIsRecorded
  BY ProductionSafety DEF StorageProduction, PassedIsRecorded
<1> QED BY <1>1, StorageProductionInvariant, PTL

(* What loads is a lawful history, and a station that met no failure is not    *)
(* locked out while its file is within the size that is read, under the same   *)
(* condition (LoadProductionStateEx and CheckProductionAdmission).           *)
THEOREM StateIsAlwaysLawful == ASSUME ~CreateRaces PROVE Spec => []StateIsLawful
<1>1. StorageProduction => StateIsLawful
  BY ProductionSafety DEF StorageProduction, StateIsLawful
<1> QED BY <1>1, StorageProductionInvariant, PTL
=============================================================================
