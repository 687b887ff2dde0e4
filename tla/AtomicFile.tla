----------------------------- MODULE AtomicFile -----------------------------
(***************************************************************************)
(* AtomicWriteDurable of prodevidence.pas (the POSIX form): write a sibling *)
(* under a unique name, flush it, install it over or beside the target,    *)
(* flush the directory.  Backups, recovery images, production anchors and   *)
(* evidence all reach the disk through it.  Several processes may write the *)
(* same name, every call can fail, and the power can go at any moment.     *)
(*                                                                         *)
(* A file is known by who writes it.  What a write puts in it is a number   *)
(* of chunks.  Of a directory entry, and of a chunk, the system may have    *)
(* put on the disk what it was told since the last flush, or not.          *)
(* Removing the temporary name does not fail: its answer is not asked for    *)
(* (prodevidence.pas:762, 782), and nothing but a left file comes of it.     *)
(***************************************************************************)
EXTENDS Naturals, FiniteSets

CONSTANTS
    Writer,         \* the calls, one each
    Replacing,      \* those with ReplaceExisting
    Chunks,         \* chunks of a whole content
    Before,         \* what was under the name before: OldFile or NoFile
    OldFile, NoFile,
    DirectoryOpens, \* can the directory be opened for reading?
    MaxCrashes

FileAssumption ==
    /\ Chunks \in Nat \ {0} /\ MaxCrashes \in Nat
    /\ Replacing \subseteq Writer
    /\ OldFile \notin Writer /\ NoFile \notin Writer /\ OldFile # NoFile
    /\ Before \in {OldFile, NoFile}
    /\ DirectoryOpens \in BOOLEAN

VARIABLES
    target,     \* the file the name leads to
    entries,    \* those it may lead to after a power cut
    temp,       \* the writers whose temporary name exists
    written,    \* chunks written by each
    flushed,    \* of those, the chunks certain to be on the disk
    pc,         \* where each call is
    crashes

vars == <<target, entries, temp, written, flushed, pc, crashes>>

Files  == Writer \cup {OldFile, NoFile}
Ended  == {"succeeded", "failed", "dead"}
Places == Ended \cup {"idle", "create", "write", "install", "unlink",
                      "syncDirectory", "finally"}

Init ==
    /\ target = Before /\ entries = {Before}
    /\ temp = {}
    /\ written = [w \in Writer |-> 0] /\ flushed = [w \in Writer |-> 0]
    /\ pc = [w \in Writer |-> "idle"]
    /\ crashes = 0

Goto(w, place) == pc' = [pc EXCEPT ![w] = place]

(* A file that exists and must not be replaced is refused at once.         *)
Begin(w) ==
    /\ pc[w] = "idle"
    /\ Goto(w, IF target # NoFile /\ w \notin Replacing THEN "failed"
                                                        ELSE "create")
    /\ UNCHANGED <<target, entries, temp, written, flushed, crashes>>

(* No directory, no unique name or no file: nothing to take back.          *)
CreateTemp(w) ==
    /\ pc[w] = "create"
    /\ \/ temp' = temp \cup {w} /\ Goto(w, "write")
       \/ UNCHANGED temp /\ Goto(w, "failed")
    /\ UNCHANGED <<target, entries, written, flushed, crashes>>

(* Mutant: the loop runs once more.                                        *)
WriteOneMore(w) ==
    /\ pc[w] = "write" /\ written[w] <= Chunks
    /\ \/ written' = [written EXCEPT ![w] = @ + 1] /\ UNCHANGED pc
       \/ UNCHANGED written /\ Goto(w, "finally")
    /\ UNCHANGED <<target, entries, temp, flushed, crashes>>

(* The loop over the chunks: an error or a short write ends it.            *)
WriteChunk(w) ==
    /\ pc[w] = "write" /\ written[w] < Chunks
    /\ \/ written' = [written EXCEPT ![w] = @ + 1] /\ UNCHANGED pc
       \/ UNCHANGED written /\ Goto(w, "finally")
    /\ UNCHANGED <<target, entries, temp, flushed, crashes>>

(* fsync and close.                                                        *)
FlushFile(w) ==
    /\ pc[w] = "write" /\ written[w] = Chunks
    /\ \/ flushed' = [flushed EXCEPT ![w] = Chunks] /\ Goto(w, "install")
       \/ UNCHANGED flushed /\ Goto(w, "finally")
    /\ UNCHANGED <<target, entries, temp, written, crashes>>

Lead(w) == target' = w /\ entries' = entries \cup {w}

(* rename: the temporary name is gone with it.                             *)
Rename(w) ==
    /\ w \in Replacing
    /\ Lead(w)
    /\ temp' = temp \ {w}
    /\ Goto(w, "syncDirectory")

(* Mutant: the check made at the beginning is relied upon.                 *)
LinkUnchecked(w) ==
    /\ w \notin Replacing
    /\ Lead(w)
    /\ UNCHANGED temp
    /\ Goto(w, "unlink")

(* link: refuses a name that leads to a file, whoever put it there since.  *)
Link(w) ==
    /\ w \notin Replacing /\ target = NoFile
    /\ Lead(w)
    /\ UNCHANGED temp
    /\ Goto(w, "unlink")

Install(w) ==
    /\ pc[w] = "install"
    /\ \/ Rename(w)
       \/ Link(w)
       \/ Goto(w, "finally") /\ UNCHANGED <<target, entries, temp>>
    /\ UNCHANGED <<written, flushed, crashes>>

UnlinkTemp(w) ==
    /\ pc[w] = "unlink"
    /\ temp' = temp \ {w}
    /\ Goto(w, "syncDirectory")
    /\ UNCHANGED <<target, entries, written, flushed, crashes>>

(* Mutant: the directory is not flushed.                                   *)
SkipDirectory(w) ==
    /\ pc[w] = "syncDirectory"
    /\ Goto(w, "succeeded")
    /\ UNCHANGED <<target, entries, temp, written, flushed, crashes>>

(* A directory that cannot be opened is passed over; one that cannot be     *)
(* flushed fails the call, whose file is installed all the same.           *)
SyncDirectory(w) ==
    /\ pc[w] = "syncDirectory"
    /\ \/ /\ entries' = IF DirectoryOpens THEN {target} ELSE entries
          /\ Goto(w, "succeeded")
       \/ /\ DirectoryOpens
          /\ UNCHANGED entries
          /\ Goto(w, "failed")
    /\ UNCHANGED <<target, temp, written, flushed, crashes>>

(* Mutant: a failed call leaves its temporary file.                        *)
FinallyLeaves(w) ==
    /\ pc[w] = "finally"
    /\ Goto(w, "failed")
    /\ UNCHANGED <<target, entries, temp, written, flushed, crashes>>

(* The finally clause of a call that did not install its file.             *)
Finally(w) ==
    /\ pc[w] = "finally"
    /\ temp' = temp \ {w}
    /\ Goto(w, "failed")
    /\ UNCHANGED <<target, entries, written, flushed, crashes>>

(* The power goes.  What was not flushed is there or not; the calls under   *)
(* way are no more; those not yet made may be made afterwards.             *)
Crash ==
    /\ crashes < MaxCrashes
    /\ crashes' = crashes + 1
    /\ target' \in entries /\ entries' = {target'}
    /\ temp' \in SUBSET temp
    /\ written' \in [Writer -> 0 .. Chunks]
    /\ \A w \in Writer : flushed[w] <= written'[w] /\ written'[w] <= written[w]
    /\ flushed' = written'
    /\ pc' = [w \in Writer |-> IF pc[w] = "idle" \/ pc[w] \in Ended
                               THEN pc[w] ELSE "dead"]

WriterStep(w) ==
    \/ Begin(w) \/ CreateTemp(w) \/ WriteChunk(w) \/ FlushFile(w)
    \/ Install(w) \/ UnlinkTemp(w) \/ SyncDirectory(w) \/ Finally(w)

Next == Crash \/ \E w \in Writer : WriterStep(w)
Spec == Init /\ [][Next]_vars

-----------------------------------------------------------------------------
TypeOK ==
    /\ target \in Files
    /\ entries \in SUBSET Files
    /\ temp \in SUBSET Writer
    /\ written \in [Writer -> 0 .. Chunks] /\ flushed \in [Writer -> 0 .. Chunks]
    /\ pc \in [Writer -> Places]
    /\ crashes \in 0 .. MaxCrashes

(* Whatever the name leads to, now or after a power cut, is the whole        *)
(* content of one write, and a write that has succeeded outlives the cut    *)
(* unless another came after it; a write that must not replace finds no     *)
(* file in its way at the moment it installs.                              *)
Content(f) == IF f \in Writer /\ written[f] # Chunks THEN <<f, written[f]>>
                                                     ELSE f
Held(f)    == IF f \in Writer /\ flushed[f] # Chunks THEN <<f, flushed[f]>>
                                                     ELSE f
R == INSTANCE Register WITH
        Value     <- Writer \cup {OldFile},
        Nothing   <- NoFile,
        Exclusive <- Writer \ Replacing,
        value     <- Content(target),
        may       <- {Held(f) : f \in entries},
        answered  <- {w \in Writer : pc[w] = "succeeded"}
IsRegister == R!RSpec

(* A call that answered true has left what it replaced behind for good:     *)
(* no power cut brings the old file, or no file, back.                      *)
SuccessSurvives ==
    (\E w \in Writer : pc[w] = "succeeded")
        => entries \cap {OldFile, NoFile} = {}

(* With no power cut, a call that has ended leaves no temporary file, and   *)
(* nothing half written anywhere.                                          *)
NothingLeftBehind ==
    crashes = 0 => \A w \in temp : pc[w] \notin Ended
=============================================================================
