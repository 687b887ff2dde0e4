-------------------------- MODULE OperationRunner --------------------------
(***************************************************************************)
(* TNOROperationRunner.Execute and ReadSession (operationrunner.pas): a    *)
(* SPI NOR read, or a Smart Write with its trusted read, plan, backup and  *)
(* bound run.  The run itself is NORExecutor; here it is the transaction   *)
(* its caller sees (DeviceTransaction), behind the preimage check.         *)
(* Contacts come and go and the part may be exchanged between any two      *)
(* calls; another thread may cancel.                                       *)
(***************************************************************************)
EXTENDS OperationModel

CONSTANTS
    Images,     \* what a part may hold
    NoData,     \* no bytes at all
    Inputs,     \* what a caller may ask for
    Faults,     \* how a call may fail: some IOErrors, or "raised"
    MaxPasses,  \* the passes that are tried
    MaxChanges  \* how often the part or its contact changes

(* valid stands for the checks on geometry, capacity, range and patch; wants *)
(* is what the patch makes of an image; sink says whether a backup handler  *)
(* was supplied.                                                           *)
Input == [mode : {"read", "preview", "write"}, passes : 0 .. MaxPasses, valid : BOOLEAN,
          wants : [Images -> Images], backup : BOOLEAN, sink : BOOLEAN]

RunnerAssumption ==
    /\ NoData \notin Images
    /\ Inputs \subseteq Input
    /\ Faults \subseteq IOErrors \cup {"raised"}
    /\ MaxPasses \in Nat /\ MaxChanges \in Nat

VARIABLES
    input, executing, foreign,
    pc, op, failure, pass, cancelled, token,
    ses,        \* Opened and Initialized of ReadSession
    data,       \* Data: the first pass
    part,       \* what the part answers with: its content, or a bad contact's
    changes,
    seen,       \* history: every pass
    backup,     \* history: what the sink published
    overwritten \* history: what the run wrote over

vars == <<input, executing, foreign, pc, op, failure, pass, cancelled, token, ses,
          data, part, changes, seen, backup, overwritten>>
given == <<input, foreign>>
history == <<seen, backup, overwritten>>

Init ==
    /\ input \in Inputs
    /\ executing \in BOOLEAN /\ foreign = executing
    /\ pc = "start" /\ op = NewOutcome /\ failure = NoPending
    /\ pass = 1 /\ cancelled = FALSE /\ token = FALSE
    /\ ses = [opened |-> FALSE, inited |-> FALSE]
    /\ data = NoData /\ part \in Images /\ changes = 0
    /\ seen = {} /\ backup = NoData /\ overwritten = NoData

-----------------------------------------------------------------------------
(* FailedOutcome: a run that ends without touching the device.             *)
FailedOutcome(code) ==
    /\ op' = Fail(AdvanceTo(Start(NewOutcome), opValidating), code, ddNotOpened)
    /\ pc' = "done"
    /\ executing' = foreign

Begin ==
    /\ pc = "start"
    /\ \/ executing /\ FailedOutcome("deviceBusy") /\ UNCHANGED failure
       \/ /\ ~executing /\ ~input.valid
          /\ FailedOutcome("invalid") /\ UNCHANGED failure
       \/ /\ ~executing /\ input.valid
          /\ executing' = TRUE
          /\ IF input.passes \in 2 .. 16
             THEN /\ op' = AdvanceTo(Start(op), opOpening)
                  /\ pc' = "open"
                  /\ UNCHANGED failure
             ELSE /\ op' = AdvanceTo(Start(op), opValidating)
                  /\ failure' = SetPending(failure, "invalid", ddNotOpened)
                  /\ pc' = "quiesce"
    /\ UNCHANGED <<given, pass, cancelled, token, ses, data, part, changes, history>>

(* A failed call, or one that raised, of a read session.                   *)
Fails(f, rejected, disp) ==
    /\ failure' = IF f = "raised" THEN SetPending(failure, "transport", ddModeUnknown)
                  ELSE SetPending(failure, MapIOError(f, rejected), disp)
    /\ pc' = "quiesce"

Open ==
    /\ pc = "open"
    /\ \/ /\ ses' = [ses EXCEPT !.opened = TRUE]
          /\ failure' = [failure EXCEPT !.disp = ddKnownSafe]
          /\ op' = AdvanceTo(op, opInitializingBus)
          /\ pc' = "initialize"
       \/ /\ \E f \in Faults : Fails(f, "openFailed", ddNotOpened)
          /\ UNCHANGED <<ses, op>>
    /\ UNCHANGED <<given, executing, pass, cancelled, token, data, part, changes, history>>

Initialize ==
    /\ pc = "initialize"
    /\ \/ /\ ses' = [ses EXCEPT !.inited = TRUE]
          /\ op' = AdvanceTo(op, opCheckingContact)
          /\ pc' = "pass"
          /\ UNCHANGED failure
       \/ /\ \E f \in Faults : Fails(f, "busInitFailed", ddKnownSafe)
          /\ UNCHANGED <<ses, op>>
    /\ UNCHANGED <<given, executing, pass, cancelled, token, data, part, changes, history>>

(* Mutant: each pass is kept, and compared with the one before.            *)
ReadPassLast ==
    /\ pc = "pass" /\ ~token /\ pass <= input.passes
    /\ data' = part
    /\ seen' = seen \cup {part}
    /\ pass' = pass + 1
    /\ UNCHANGED <<given, executing, pc, op, failure, cancelled, token, ses, part,
                   changes, backup, overwritten>>

(* One pass: the first is kept, each other must agree with it.             *)
ReadPass ==
    /\ pc = "pass" /\ ~token /\ pass <= input.passes
    /\ \/ /\ pass = 1 \/ part = data
          /\ data' = part
          /\ seen' = seen \cup {part}
          /\ pass' = pass + 1
          /\ UNCHANGED <<pc, failure>>
       \/ /\ \/ /\ pass > 1 /\ part # data
                /\ failure' = SetPending(failure, "contactUnstable", ddKnownSafe)
                /\ pc' = "quiesce"
                /\ seen' = seen \cup {part}
             \/ /\ \E f \in Faults : Fails(f, "transport", ddKnownSafe)
                /\ UNCHANGED seen
             \/ /\ failure' = SetPending(failure, "shortTransfer", ddKnownSafe)
                /\ pc' = "quiesce"
                /\ UNCHANGED seen
          /\ UNCHANGED <<data, pass>>
    /\ UNCHANGED <<given, executing, op, cancelled, token, ses, part, changes,
                   backup, overwritten>>

EndPasses ==
    /\ pc = "pass" /\ (token \/ pass > input.passes)
    /\ cancelled' = (pass <= input.passes)
    /\ pc' = "quiesce"
    /\ UNCHANGED <<given, executing, op, failure, pass, token, ses, data, part,
                   changes, history>>

-----------------------------------------------------------------------------
Quiesce ==
    /\ pc = "quiesce"
    /\ op' = AdvanceTo(op, opQuiescing)
    /\ pc' = "cleanup"
    /\ UNCHANGED <<given, executing, failure, pass, cancelled, token, ses, data,
                   part, changes, history>>

(* Mutant: the device is closed only behind a bus that was initialized.    *)
OwedInside == IF ses.inited THEN {"opened", "inited"} ELSE {}

Owed == {k \in {"opened", "inited"} : ses[k]}

(* Deinitialize and Close, each tried whatever became of the other.        *)
Cleanup ==
    /\ pc = "cleanup"
    /\ ses' = [opened |-> ses.opened /\ "opened" \notin Owed,
               inited |-> ses.inited /\ "inited" \notin Owed]
    /\ failure' \in {failure} \cup {SetPending(failure, "cleanupFailed", ddModeUnknown) : k \in Owed}
    /\ pc' = "read"
    /\ UNCHANGED <<given, executing, op, pass, cancelled, token, data, part, changes, history>>

Leave == pc' = "done" /\ executing' = foreign

(* The outcome of the session; only a success goes on to a plan.  An image  *)
(* the patch does not change leaves nothing destructive to do.             *)
EndRead ==
    /\ pc = "read"
    /\ op' = IF failure.code # "none" THEN Fail(op, failure.code, failure.disp)
             ELSE IF cancelled \/ token THEN Cancel(op, ddKnownSafe)
             ELSE Complete(op)
    /\ IF op'.status = "succeeded" /\ input.mode # "read"
       THEN pc' = "plan" /\ UNCHANGED executing
       ELSE Leave
    /\ UNCHANGED <<given, failure, pass, cancelled, token, ses, data, part, changes, history>>

Destructive == input.wants[data] # data

(* Mutant: the backup is left to the caller.                               *)
BackupLater == FALSE

BackupFirst == input.backup /\ Destructive

Plan ==
    /\ pc = "plan"
    /\ \/ FailedOutcome("invalid")          \* Prepare refused
       \/ /\ input.mode = "preview"         \* the preview's own outcome
          /\ op' = Complete(AdvanceTo(Start(NewOutcome), opQuiescing))
          /\ Leave
       \/ /\ input.mode = "write"
          /\ pc' = IF BackupFirst THEN "backup" ELSE "bound"
          /\ op' = AdvanceTo(Start(NewOutcome), opOpening)
          /\ UNCHANGED executing
    /\ UNCHANGED <<given, failure, pass, cancelled, token, ses, data, part, changes, history>>

(* The sink publishes the snapshot, refuses, raises, or is missing.        *)
CommitBackup ==
    /\ pc = "backup"
    /\ \/ /\ input.sink
          /\ backup' = data
          /\ pc' = "bound"
          /\ UNCHANGED <<op, executing>>
       \/ FailedOutcome("backupUntrusted") /\ UNCHANGED backup
    /\ UNCHANGED <<given, failure, pass, cancelled, token, ses, data, part, changes,
                   seen, overwritten>>

(* Mutant: plain Execute, which does not ask for the snapshot.             *)
Unbound == TRUE

(* ExecuteBound sends its first command only over the snapshot.            *)
Bound == part = data

(* TPreparedNORWrite.Execute: commands go out, or the run ends before.     *)
StartJob ==
    /\ pc = "bound"
    /\ \/ /\ Bound /\ ~token /\ Destructive
          /\ overwritten' = part
          /\ part' \in Images
          /\ pc' = "job"
          /\ UNCHANGED <<op, executing>>
       \/ /\ \/ \E d \in Dispositions : op' = Fail(op, "transport", d)
             \/ op' = Cancel(op, ddKnownSafe)
          /\ Leave
          /\ UNCHANGED <<part, overwritten>>
       \/ /\ Bound /\ ~Destructive
          /\ op' = Complete(op)
          /\ Leave
          /\ UNCHANGED <<part, overwritten>>
    /\ UNCHANGED <<given, failure, pass, cancelled, token, ses, data, changes, seen, backup>>

(* Success promises what was planned; every other end leaves anything.     *)
EndJob ==
    /\ pc = "job"
    /\ \/ op' = Complete(op) /\ part' = input.wants[data]
       \/ op' = Cancel(op, ddKnownSafe) /\ part' \in Images
       \/ \E d \in Dispositions \ {ddNotOpened} : op' = Fail(op, "transport", d) /\ part' \in Images
    /\ Leave
    /\ UNCHANGED <<given, failure, pass, cancelled, token, ses, data, changes, history>>

-----------------------------------------------------------------------------
(* A bad contact, or another part in the socket.                           *)
PartChanges ==
    /\ changes < MaxChanges /\ pc \notin {"job", "done"}
    /\ part' \in Images \ {part}
    /\ changes' = changes + 1
    /\ UNCHANGED <<given, executing, pc, op, failure, pass, cancelled, token, ses, data, history>>

RequestCancellation ==
    /\ pc # "done" /\ ~token
    /\ token' = TRUE
    /\ UNCHANGED <<given, executing, pc, op, failure, pass, cancelled, ses, data, part,
                   changes, history>>

Next ==
    \/ Begin \/ Open \/ Initialize \/ ReadPass \/ EndPasses \/ Quiesce \/ Cleanup \/ EndRead
    \/ Plan \/ CommitBackup \/ StartJob \/ EndJob \/ PartChanges \/ RequestCancellation

Spec == Init /\ [][Next]_vars

-----------------------------------------------------------------------------
TypeOK ==
    /\ input \in Inputs /\ executing \in BOOLEAN
    /\ op \in Outcomes /\ failure \in Pendings
    /\ pass \in 1 .. MaxPasses + 1 /\ cancelled \in BOOLEAN /\ token \in BOOLEAN
    /\ ses \in [opened : BOOLEAN, inited : BOOLEAN]
    /\ {data, backup, overwritten} \subseteq Images \cup {NoData}
    /\ part \in Images /\ seen \subseteq Images

(* A backup is made of passes that all agreed, and of no fewer than two.   *)
BackupIsUnanimous == backup # NoData => seen = {backup} /\ pass > 2

(* Nothing is written but over the image that every pass saw, and that is   *)
(* published first where a trusted backup is required.                     *)
WritesOverTheBackup ==
    overwritten # NoData => /\ seen = {overwritten}
                            /\ input.mode = "write"
                            /\ input.backup => backup = overwritten

(* A read that succeeds returns what every pass saw.                       *)
ReadIsUnanimous ==
    pc = "done" /\ op.status = "succeeded" => seen = {data} /\ pass = input.passes + 1

(* Whatever failed, the session is closed and the runner can run again.    *)
Released == pc = "done" => /\ ~ses.opened /\ ~ses.inited
                           /\ executing = foreign /\ IsTerminal(op)
=============================================================================
