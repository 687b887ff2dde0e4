----------------------------- MODULE SmartWrite -----------------------------
(***************************************************************************)
(* A Smart Write of a SPI NOR part from the first click to the end of the   *)
(* job, and its recovery after an interruption: MenuSmartWriteClick and the *)
(* recovery list of main.pas and workflowui.inc, writeworkflow.pas,         *)
(* recoveryworkflow.pas.  Each run reads the part, saves that reading as a  *)
(* backup, and plans; it goes on only if exactly this job was shown before,  *)
(* or nobody is to be asked: a batch and the command line.  A job about to   *)
(* change the part saves the patch and a journal beside the backup first.   *)
(* An interrupted job is taken up from these files alone.                   *)
(*                                                                         *)
(* The executor is what NORExecutor shows it to be: it writes only while     *)
(* the part and its whole content are those of the plan, and succeeds only   *)
(* after every step; its steps are atomic here, or interrupted half way.    *)
(* A file is written as AtomicFile and WriteJournal show; the marks of the   *)
(* journal are not looked at by a recovery and are left out.  A hash stands  *)
(* for the content it was made of.  Parts have unique ids.                 *)
(***************************************************************************)
EXTENDS NORPlanner

CONSTANTS
    Part,           \* the chips that can be put into the socket
    Patches,        \* the images a user may load: [address, length, data]
    Contents,       \* what the parts may hold at first
    MaxBundles, MaxCrashes, MaxTampering,
    None

Patch == [address : Addr, length : 1 .. ChipSize, data : Image]
Job   == [recovers : 0 .. MaxBundles, bundle : 0 .. MaxBundles, part : Part,
          before : Image, patch : Patch, asked : BOOLEAN]
Offers == [context : (Patch \cup {None}) \X (0 .. MaxBundles),
           identity : Image \X Patch \X Part]

(* What the constants are assumed to be; whoever instantiates this module    *)
(* assumes it.                                                             *)
SmartAssumption ==
    /\ Part # {} /\ Contents \subseteq Image /\ Patches \subseteq Patch
    /\ MaxBundles \in Nat /\ MaxCrashes \in Nat /\ MaxTampering \in Nat
    /\ None \notin Part \cup Image \cup Patch \cup Job \cup Offers

VARIABLES
    mem,        \* what each part holds
    socket,     \* the part connected
    bundles,    \* the recovery files on the disk, one bundle a job
    buffer,     \* the image loaded, or None
    requested,  \* the bundle to recover, or 0
    gate,       \* the job last shown, ready to be accepted, or None
    phase,      \* where the run is
    job,        \* the job of the run, or None
    index,      \* the step of its plan it is at
    shown,      \* history: the job last shown
    promised,   \* history: what each bundle's job was to leave on its part
    owed,       \* history: the bundles whose job changed a part and did not end
    crashes, tampering

disk  == <<bundles, tampering>>
ui    == <<buffer, requested, gate, shown>>
ghost == <<promised, owed>>
vars  == <<mem, socket, disk, ui, phase, job, index, ghost, crashes>>

Ids    == 1 .. MaxBundles
NoFiles == [part |-> None, backup |-> None, image |-> None,
            backupHash |-> None, imageHash |-> None, journal |-> "none"]

Patched(image, p) == Overlay(image, p.data, p.address, p.length)
WholeChip(image)  == [address |-> 0, length |-> ChipSize, data |-> image]

Plan(j) == DifferentialPlan(j.before, j.patch.data, j.patch.address, j.patch.length)
Steps   == Plan(job).steps
Changes(j) == NORPlanHasDestructiveSteps(Plan(j))

-----------------------------------------------------------------------------
Init ==
    /\ mem \in [Part -> Contents] /\ socket \in Part
    /\ bundles = [b \in Ids |-> NoFiles] /\ tampering = 0
    /\ buffer = None /\ requested = 0 /\ gate = None /\ shown = None
    /\ phase = "idle" /\ job = None /\ index = 0
    /\ promised = [b \in Ids |-> None] /\ owed = {}
    /\ crashes = 0

(* NoteBufferFromFile: another image ends a recovery that was asked for.    *)
LoadImage(p) ==
    /\ phase = "idle"
    /\ buffer' = p /\ requested' = 0 /\ gate' = None /\ shown' = None
    /\ UNCHANGED <<mem, socket, disk, phase, job, index, ghost, crashes>>

(* Write, or its preview, or a unit of a batch, which asks nobody.          *)
Click(kind) ==
    /\ phase = "idle" /\ buffer # None
    /\ phase' = kind
    /\ UNCHANGED <<mem, socket, disk, ui, job, index, ghost, crashes>>

(* RecoveryPrepareClick: the journal must read back and the image be there   *)
(* at its size; its content is checked later.  A preview follows.          *)
RequestRecovery(b) ==
    /\ phase = "idle" /\ bundles[b].journal = "whole"
    /\ buffer' = bundles[b].image /\ requested' = b
    /\ gate' = None /\ shown' = None
    /\ phase' = "preview"
    /\ UNCHANGED <<mem, socket, disk, job, index, ghost, crashes>>

-----------------------------------------------------------------------------
FreshJob == [recovers |-> 0, bundle |-> 0, part |-> socket,
             before |-> mem[socket], patch |-> buffer, asked |-> phase # "batch"]

(* The whole chip as the interrupted job was to leave it.                  *)
Desired(b) == Patched(bundles[b].backup, bundles[b].image)

(* Mutant: the image is trusted as it is found.                            *)
ChipMatches(b) ==
    /\ bundles[b].journal = "whole"
    /\ bundles[b].part = socket
    /\ bundles[b].backup = bundles[b].backupHash

(* PrepareRecovery: the journal reads, the part is the one it names, and     *)
(* backup and image are what they were.                                    *)
RecoveryAllowed(b) ==
    /\ bundles[b].journal = "whole"
    /\ bundles[b].part = socket
    /\ bundles[b].backup = bundles[b].backupHash
    /\ bundles[b].image = bundles[b].imageHash

RecoveryJob == [recovers |-> requested, bundle |-> requested, part |-> socket,
                before |-> mem[socket], patch |-> WholeChip(Desired(requested)),
                asked |-> phase # "batch"]

PrepareRecovery == requested # 0 /\ RecoveryAllowed(requested)

(* CurrentWriteContext and WriteInputIdentity.                             *)
Context     == <<buffer, requested>>
Identity(j) == <<j.before, j.patch, j.part>>
Offer(j)    == [context |-> Context, identity |-> Identity(j)]

(* Mutant: the setup was shown, if not this job.                           *)
ReadyFor(j) == gate # None /\ gate.context = Context

(* TInlineWriteGate.Present, with a commit requested.                      *)
Accepts(j) == gate = Offer(j)

(* A deleted journal's name is gone for good once the directory is flushed   *)
(* by the backup that this run saves beside it.                            *)
DirectoryFlushed ==
    [b \in Ids |-> IF bundles[b].journal = "deleted"
                   THEN [bundles[b] EXCEPT !.journal = "none"] ELSE bundles[b]]

(* ConfirmSmartWritePreview: the gate decides, unless nobody is to be asked. *)
Present(j) ==
    \/ /\ phase = "batch" /\ phase' = "accepted" /\ job' = j
       /\ UNCHANGED <<gate, shown>>
    \/ /\ phase = "commit" /\ Accepts(j)
       /\ gate' = None /\ phase' = "accepted" /\ job' = j
       /\ UNCHANGED shown
    \/ /\ phase = "preview" \/ (phase = "commit" /\ ~Accepts(j))
       /\ gate' = Offer(j) /\ shown' = j /\ phase' = "idle"
       /\ UNCHANGED job

(* The part is read and that reading saved, the job prepared and presented.  *)
ReadAndPresent ==
    /\ phase \in {"preview", "commit", "batch"}
    /\ \/ requested = 0 /\ Present(FreshJob)
       \/ PrepareRecovery /\ Present(RecoveryJob)
    /\ bundles' = DirectoryFlushed
    /\ UNCHANGED <<mem, socket, tampering, buffer, requested, index, ghost, crashes>>

(* A run that has sent nothing to change the part ends early: a failed read  *)
(* or backup, a refused recovery, a guard, a cancellation.                 *)
Abort ==
    /\ phase \in {"preview", "commit", "batch", "accepted"}
    /\ phase' = "idle" /\ job' = None
    /\ UNCHANGED <<mem, socket, disk, ui, index, ghost, crashes>>

-----------------------------------------------------------------------------
(* A recovery goes on under the journal it has, a job without destructive    *)
(* steps needs none, any other saves its recovery inputs, and first of all   *)
(* compares the backup with the snapshot of the job.                       *)
ChooseJournal ==
    /\ phase = "accepted"
    /\ \/ /\ job.recovers # 0 \/ ~Changes(job)
          /\ phase' = "open"
          /\ UNCHANGED <<bundles, promised, job>>
       \/ /\ job.recovers = 0 /\ Changes(job)
          /\ \E b \in Ids :
                /\ \A c \in Ids : bundles[c] = NoFiles <=> c >= b
                /\ bundles' = [bundles EXCEPT ![b] =
                      [NoFiles EXCEPT !.part = job.part, !.backup = job.before,
                                      !.backupHash = job.before,
                                      !.imageHash = job.patch]]
                /\ promised' = [promised EXCEPT ![b] =
                                    Patched(job.before, job.patch)]
                /\ job' = [job EXCEPT !.bundle = b]
          /\ phase' = "image"
    /\ UNCHANGED <<mem, socket, tampering, ui, index, owed, crashes>>

(* AtomicWriteDurable, which may fail with the file installed.             *)
SaveImage ==
    /\ phase = "image"
    /\ \/ /\ bundles' = [bundles EXCEPT ![job.bundle].image = job.patch]
          /\ phase' \in {"journal", "idle"}
       \/ UNCHANGED bundles /\ phase' = "idle"
    /\ job' = IF phase' = "idle" THEN None ELSE job
    /\ UNCHANGED <<mem, socket, tampering, ui, index, ghost, crashes>>

BeginJournal ==
    /\ phase = "journal"
    /\ \/ /\ bundles' = [bundles EXCEPT ![job.bundle].journal = "whole"]
          /\ phase' \in {"open", "idle"}
       \/ /\ bundles' = [bundles EXCEPT ![job.bundle].journal = "torn"]
          /\ phase' = "idle"
    /\ job' = IF phase' = "idle" THEN None ELSE job
    /\ UNCHANGED <<mem, socket, tampering, ui, index, ghost, crashes>>

(* Mutant: the part is known by its content.                               *)
SameContent == mem[socket] = job.before

(* ExecuteBound: the session that writes proves id and content again.       *)
SameChip == socket = job.part /\ mem[socket] = job.before

OpenSession ==
    /\ phase = "open"
    /\ \/ SameChip /\ phase' = "writing" /\ index' = 1 /\ UNCHANGED job
       \/ phase' = "idle" /\ job' = None /\ UNCHANGED index
    /\ UNCHANGED <<mem, socket, disk, ui, ghost, crashes>>

Current == Steps[index]
Take(cells) == mem' = [mem EXCEPT ![socket] = Effect(@, Current, cells)]
Owing == owed' = owed \cup {job.bundle}

(* A destructive step is done.                                             *)
Change ==
    /\ phase = "writing" /\ index <= Len(Steps) /\ Destructive(Current)
    /\ Take(StepRange(Current)) /\ Owing
    /\ index' = index + 1
    /\ UNCHANGED <<socket, disk, ui, phase, job, promised, crashes>>

(* A verify step reads what the plan says.                                 *)
Verify ==
    /\ phase = "writing" /\ index <= Len(Steps) /\ ~Destructive(Current)
    /\ \A a \in StepRange(Current) : mem[socket][a] = Current.data[a]
    /\ index' = index + 1
    /\ UNCHANGED <<mem, socket, disk, ui, phase, job, ghost, crashes>>

(* Mutant: the journal goes with the run, however the run ends.             *)
InterruptDeletes ==
    /\ phase = "writing"
    /\ \/ /\ index <= Len(Steps) /\ Destructive(Current)
          /\ \E cells \in SUBSET StepRange(Current) : Take(cells)
          /\ Owing
       \/ UNCHANGED <<mem, owed>>
    /\ bundles' = [b \in Ids |-> IF b = job.bundle
                       THEN [bundles[b] EXCEPT !.journal = "deleted"]
                       ELSE bundles[b]]
    /\ phase' = "idle" /\ job' = None /\ index' = 0
    /\ UNCHANGED <<socket, tampering, ui, promised, crashes>>

(* The run fails, or is cancelled: the command under way takes in some of    *)
(* its cells.                                                              *)
Interrupt ==
    /\ phase = "writing"
    /\ \/ /\ index <= Len(Steps) /\ Destructive(Current)
          /\ \E cells \in SUBSET StepRange(Current) : Take(cells)
          /\ Owing
       \/ UNCHANGED <<mem, owed>>
    /\ phase' = "idle" /\ job' = None /\ index' = 0
    /\ UNCHANGED <<socket, disk, ui, promised, crashes>>

(* Every step done: the journal is deleted, if that works, and a recovery is  *)
(* no longer asked for.  The image stays.                                  *)
Succeed ==
    /\ phase = "writing" /\ index > Len(Steps)
    /\ \/ /\ job.bundle # 0
          /\ bundles' = [bundles EXCEPT ![job.bundle].journal = "deleted"]
       \/ UNCHANGED bundles
    /\ phase' = "succeeded"
    /\ owed' = owed \ {job.bundle}
    /\ requested' = 0
    /\ UNCHANGED <<mem, socket, tampering, buffer, gate, shown, job, index,
                   promised, crashes>>

(* Mutant: the job of the run before stays around.                         *)
ReturnKeepsJob ==
    /\ phase = "succeeded"
    /\ phase' = "idle" /\ index' = 0
    /\ UNCHANGED <<mem, socket, disk, ui, job, ghost, crashes>>

Return ==
    /\ phase = "succeeded"
    /\ phase' = "idle" /\ job' = None /\ index' = 0
    /\ UNCHANGED <<mem, socket, disk, ui, ghost, crashes>>

-----------------------------------------------------------------------------
(* Another part is connected: not while one is written, which fails first.   *)
Exchange(p) ==
    /\ phase \notin {"writing", "succeeded"}
    /\ socket' = p
    /\ UNCHANGED <<mem, disk, ui, phase, job, index, ghost, crashes>>

(* Somebody changes a backup or an image on the disk.                      *)
Tamper(b) ==
    /\ tampering < MaxTampering /\ bundles[b].journal = "whole"
    /\ tampering' = tampering + 1
    /\ \/ \E c \in Contents \ {bundles[b].backup} :
             bundles' = [bundles EXCEPT ![b].backup = c]
       \/ \E p \in Patches \ {bundles[b].image} :
             /\ p.length = bundles[b].image.length
             /\ bundles' = [bundles EXCEPT ![b].image = p]
    /\ UNCHANGED <<mem, socket, ui, phase, job, index, ghost, crashes>>

(* What a power cut may leave of a bundle.  A deletion may be undone.       *)
Left(b) ==
    CASE phase = "image" /\ b = job.bundle ->
             {[bundles[b] EXCEPT !.image = i] : i \in {bundles[b].image, job.patch}}
      [] phase = "journal" /\ b = job.bundle ->
             {[bundles[b] EXCEPT !.journal = j] : j \in {"none", "torn", "whole"}}
      [] bundles[b].journal = "deleted" ->
             {[bundles[b] EXCEPT !.journal = j] : j \in {"none", "whole"}}
      [] OTHER -> {bundles[b]}

Crash ==
    /\ crashes < MaxCrashes
    /\ crashes' = crashes + 1
    /\ bundles' \in [Ids -> UNION {Left(b) : b \in Ids}]
    /\ \A b \in Ids : bundles'[b] \in Left(b)
    /\ \/ /\ phase = "writing" /\ index <= Len(Steps) /\ Destructive(Current)
          /\ \E cells \in SUBSET StepRange(Current) : Take(cells)
          /\ Owing
       \/ UNCHANGED <<mem, owed>>
    /\ buffer' = None /\ requested' = 0 /\ gate' = None /\ shown' = None
    /\ phase' = "idle" /\ job' = None /\ index' = 0
    /\ UNCHANGED <<socket, tampering, promised>>

Next ==
    \/ \E p \in Patches : LoadImage(p)
    \/ \E kind \in {"preview", "commit", "batch"} : Click(kind)
    \/ \E b \in Ids : RequestRecovery(b) \/ Tamper(b)
    \/ ReadAndPresent \/ Abort \/ ChooseJournal \/ SaveImage \/ BeginJournal
    \/ OpenSession \/ Change \/ Verify \/ Interrupt \/ Succeed \/ Return
    \/ \E p \in Part : Exchange(p)
    \/ Crash
Spec == Init /\ [][Next]_vars

-----------------------------------------------------------------------------
Bundle == [part : Part \cup {None}, backup : Image \cup {None},
           image : Patch \cup {None}, backupHash : Image \cup {None},
           imageHash : Patch \cup {None},
           journal : {"none", "torn", "whole", "deleted"}]

TypeOK ==
    /\ mem \in [Part -> Image] /\ socket \in Part
    /\ bundles \in [Ids -> Bundle]
    /\ buffer \in Patch \cup {None} /\ requested \in 0 .. MaxBundles
    /\ phase \in {"idle", "preview", "commit", "batch", "accepted", "image",
                  "journal", "open", "writing", "succeeded"}
    /\ job \in Job \cup {None} /\ shown \in Job \cup {None}
    /\ job = None <=> phase \in {"idle", "preview", "commit", "batch"}
    /\ phase \in {"writing", "succeeded"} => index \in 1 .. Len(Steps) + 1
    /\ promised \in [Ids -> Image \cup {None}] /\ owed \in SUBSET Ids
    /\ crashes \in 0 .. MaxCrashes /\ tampering \in 0 .. MaxTampering

(* Whenever a job has changed a part and has not come to its end, the files  *)
(* on the disk are enough to finish it: they name the part, and unless they   *)
(* were changed they make the very content the job was to leave.            *)
AlwaysRecoverable ==
    \A b \in owed :
        /\ b \in Ids /\ bundles[b].journal = "whole" /\ bundles[b].part # None
        /\ tampering = 0 => /\ Desired(b) = promised[b]
                            /\ bundles[b].backup = bundles[b].backupHash
                            /\ bundles[b].image = bundles[b].imageHash

(* A run that succeeds leaves on the part exactly what was promised, a        *)
(* recovery what the job it takes up was to leave, outside the patch too.   *)
SuccessKeepsPromise ==
    phase = "succeeded" =>
        mem[job.part] = IF job.bundle = 0 THEN Patched(job.before, job.patch)
                                          ELSE promised[job.bundle]

(* Whatever a user is asked about and is written was shown to him before, for *)
(* this part and from this content, and written because of a Write that came  *)
(* after.  A batch and the command line write a plan that is logged and        *)
(* nobody was asked about.                                                 *)
AcceptedWasShown ==
    phase \in {"image", "journal", "open", "writing"} /\ job.asked =>
        /\ shown # None
        /\ shown.recovers = job.recovers /\ shown.part = job.part
        /\ Plan(shown) = Plan(job)

(* Only the part a job was accepted for is written, and a recovery writes     *)
(* only the part its journal names.                                        *)
OwnChipOnly ==
    phase = "writing" =>
        /\ socket = job.part
        /\ job.recovers # 0 => socket = bundles[job.recovers].part
=============================================================================
