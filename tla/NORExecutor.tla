---------------------------- MODULE NORExecutor ----------------------------
(***************************************************************************)
(* TNORPlanExecutor.ExecuteInternal (norengine.pas): one transactional run *)
(* of a plan on a NOR part, one action for each call it makes on the       *)
(* device.  Three parties interleave: the worker thread that executes the  *)
(* plan, the user-interface thread that may request cancellation at any    *)
(* moment, and the chip, which finishes an erase or a program in its own   *)
(* time.  Every device call may fail with any of Faults, and a failed call *)
(* leaves open whether its opcode reached the chip.                        *)
(***************************************************************************)
EXTENDS OperationModel, NORPlanner

CONSTANTS
    Requests,   \* the requests a caller may bring, good and bad
    Contents,   \* what the part may hold when the run begins
    LeftOver,   \* commands an earlier run may have left at work in the part
    IdentityGate, \* the adapter reads the chip's identity while initializing
    Faults,     \* how a device call may fail: some IOErrors, or "raised"
    MaxPolls    \* FOptions.MaxStatusPolls

(* bind: ExecuteBound with an expected preimage, or plain Execute.  patch   *)
(* is what the caller wanted written, where the planner made the plan.     *)
(* consistent stands for the checks on the request alone: a device exists, *)
(* its range is the plan's, its capacity the geometry's, limits are set.   *)
RequestShape == [plan : [steps : Seq(Step), address : Nat, length : Nat],
                 bind : BOOLEAN, expected : Image, patch : Image,
                 fullVerify : BOOLEAN, evidence : BOOLEAN,
                 consistent : BOOLEAN]

ASSUME ExecutorAssumption ==
    /\ Requests \subseteq RequestShape
    /\ Contents \subseteq Image
    /\ LeftOver \subseteq {s \in Step : Destructive(s)}
    /\ IdentityGate \in BOOLEAN
    /\ Faults \subseteq IOErrors \cup {"raised"}
    /\ MaxPolls \in Nat \ {0}

VARIABLES
    req,        \* the request this run executes
    executing,  \* FExecuting: a run is inside this executor
    foreign,    \* that run is another thread's: it was there before us
    pc,         \* the next device call, or decision, of the worker
    ret,        \* where PerformCleanup returns to
    op,         \* the TOperationStateMachine
    pending,    \* the TPendingFailure
    ses,        \* the Opened and Initialized locals
    step,       \* StepIndex, VerifyIndex
    polls,      \* Polls
    cancelled,  \* CancelAfterDrain
    token,      \* the cancellation token, set by another thread
    chip,       \* the part in the socket
    wire,       \* history: what became of each step's opcode
    marks,      \* history: the steps announced by CommandFinished
    cause       \* history: what an exception that unwound the run means

vars == <<req, executing, foreign, pc, ret, op, pending, ses, step, polls,
          cancelled, token, chip, wire, marks, cause>>

given   == <<req, foreign>>
history == <<wire, marks, cause>>

Steps   == req.plan.steps
Current == Steps[step]

Calls == {"open", "initialize", "preimage", "writeEnable", "checkLatch",
          "issue", "drain", "verify", "writeDisable", "deinitialize", "close",
          "reopen", "reinitialize", "reverify", "commit"}
Locations == Calls \cup {"start", "loop", "finished", "verified", "fresh",
                         "quiesce", "finish", "unwind", "except", "done"}

TypeOK ==
    /\ req \in Requests
    /\ executing \in BOOLEAN /\ foreign \in BOOLEAN
    /\ pc \in Locations
    /\ ret \in {"fresh", "finish", "except"}
    /\ op \in Outcomes /\ pending \in Pendings
    /\ ses \in [opened : BOOLEAN, inited : BOOLEAN]
    /\ step \in 1 .. Len(Steps) + 1 /\ polls \in 0 .. MaxPolls - 1
    /\ cancelled \in BOOLEAN /\ token \in BOOLEAN
    /\ chip \in Chips
    /\ wire \in [DOMAIN Steps -> {"none", "worked", "ignored", "doubtful"}]
    /\ marks \subseteq DOMAIN Steps
    /\ cause \in ErrorCodes

(* An earlier run may have left the latch set, or a command at work.       *)
Init ==
    /\ req \in Requests
    /\ executing \in BOOLEAN /\ foreign = executing
    /\ pc = "start" /\ ret = "finish"
    /\ op = NewOutcome /\ pending = NoPending
    /\ ses = [opened |-> FALSE, inited |-> FALSE]
    /\ step = 1 /\ polls = 0 /\ cancelled = FALSE /\ token = FALSE
    /\ \E mem \in Contents, wel \in BOOLEAN, flight \in LeftOver \cup {NoCommand} :
          /\ flight # NoCommand => wel
          /\ chip = [mem |-> mem, wel |-> wel, flight |-> flight]
    /\ wire = [i \in DOMAIN Steps |-> "none"]
    /\ marks = {} /\ cause = "none"

-----------------------------------------------------------------------------
(* Device calls.  Erroneous(f): the call returned the error f; Raised: it   *)
(* raised.  An exception leaves the body for the finally clause.           *)
Erroneous(f) == f \in Faults \ {"raised"}
Raised == "raised" \in Faults

Unwind ==
    /\ Raised
    /\ pc' = "unwind"
    /\ cause' = IF pending.code = "none" THEN "transport" ELSE pending.code
    /\ UNCHANGED <<op, pending, ses, step, polls, cancelled, wire, marks>>

(* A failure that ends the run's body: only quiescing is left to do.       *)
FailAt(p) ==
    /\ pending' = p
    /\ pc' = "quiesce"
    /\ UNCHANGED <<ses, step, polls, cancelled, history>>

(* Mutant: a device that opened but did not initialize is not closed.      *)
CleanupWithoutClose(next) ==
    /\ ret' = next
    /\ pc' = IF ses.inited THEN "writeDisable" ELSE next

(* PerformCleanup, returning to next.                                      *)
Cleanup(next) ==
    /\ ret' = next
    /\ pc' = IF ses.inited THEN "writeDisable"
             ELSE IF ses.opened THEN "close" ELSE next

-----------------------------------------------------------------------------
(* State.Start, the FExecuting guard and the opValidating checks.          *)
InvalidCode ==
    IF ~ValidateNORPlan(req.plan) THEN "invalid"
    ELSE IF ~req.consistent THEN "invalid"
    ELSE IF req.fullVerify /\ ~NORPlanVerifyCoversRequestedRange(req.plan)
         THEN "invalid"
    ELSE IF ~NORPlanDestructiveStepsVerifiedAfterward(req.plan)
         THEN "invalid"
    ELSE "none"

Begin ==
    /\ pc = "start"
    /\ IF executing
       THEN /\ op' = Fail(Start(op), "deviceBusy", ddNotOpened)
            /\ pc' = "done"
            /\ UNCHANGED <<executing, pending>>
       ELSE LET validating == AdvanceTo(Start(op), opValidating)
            IN /\ executing' = TRUE
               /\ IF InvalidCode = "none"
                  THEN /\ op' = AdvanceTo(AdvanceTo(validating,
                                    opReservingDevice), opOpening)
                       /\ pc' = "open"
                       /\ UNCHANGED pending
                  ELSE /\ op' = validating
                       /\ pending' = SetPending(pending, InvalidCode,
                                                ddNotOpened)
                       /\ pc' = "quiesce"
    /\ UNCHANGED <<given, ret, ses, step, polls, cancelled, token, chip,
                   history>>

OpenDevice ==
    /\ pc = "open"
    /\ \/ /\ ses' = [ses EXCEPT !.opened = TRUE]
          /\ pending' = [pending EXCEPT !.disp = ddKnownSafe]
          /\ op' = AdvanceTo(op, opInitializingBus)
          /\ pc' = "initialize"
          /\ UNCHANGED <<step, polls, cancelled, history>>
       \/ \E f \in Faults :
             /\ Erroneous(f)
             /\ FailAt(FailFromIO(pending, f, "openFailed", FALSE))
             /\ UNCHANGED op
       \/ Unwind
    /\ UNCHANGED <<given, executing, ret, token, chip>>

EnterLoop(o) == AdvanceTo(AdvanceTo(o, opPlanning), opExecuting)

(* A busy chip does not answer the identity read: behind the gate           *)
(* initialization succeeds only on an idle one.                            *)
Answers == IdentityGate => Idle(chip)

InitializeBus ==
    /\ pc = "initialize"
    /\ \/ /\ Answers
          /\ ses' = [ses EXCEPT !.inited = TRUE]
          /\ op' = IF req.bind THEN AdvanceTo(op, opCheckingContact)
                   ELSE EnterLoop(op)
          /\ pc' = IF req.bind THEN "preimage" ELSE "loop"
          /\ UNCHANGED <<pending, step, polls, cancelled, history>>
       \/ \E f \in Faults :
             /\ Erroneous(f)
             /\ FailAt(FailFromIO(pending, f, "busInitFailed", FALSE))
             /\ UNCHANGED op
       \/ /\ ~Answers
          /\ FailAt(FailFromIO(pending, "disconnected", "busInitFailed", FALSE))
          /\ UNCHANGED op
       \/ Unwind
    /\ UNCHANGED <<given, executing, ret, token, chip>>

(* Mutant: only the requested range is compared.                           *)
RangeAgrees ==
    \A a \in req.plan.address .. (req.plan.address + req.plan.length - 1) :
        Shown(chip)[a] = req.expected[a]

PreimageAgrees == Shown(chip) = req.expected

(* ExecuteBound: the whole chip must still be the planning snapshot.  A     *)
(* read may come back different from the cells (a bad contact).            *)
ReadPreimage ==
    /\ pc = "preimage"
    /\ \/ /\ PreimageAgrees
          /\ op' = EnterLoop(op)
          /\ pc' = "loop"
          /\ UNCHANGED <<pending, ses, step, polls, cancelled, history>>
       \/ /\ \E code \in {"contactUnstable", "shortTransfer"} :
                FailAt(SetPending(pending, code, ddKnownSafe))
          /\ UNCHANGED op
       \/ \E f \in Faults :
             /\ Erroneous(f)
             /\ FailAt(FailFromIO(pending, f, "transport", FALSE))
             /\ UNCHANGED op
       \/ Unwind
    /\ UNCHANGED <<given, executing, ret, token, chip>>

-----------------------------------------------------------------------------
(* The head of the step loop, where cancellation is honoured.              *)
NextStep ==
    /\ pc = "loop"
    /\ IF step > Len(Steps)
       THEN pc' = "verified" /\ UNCHANGED cancelled
       ELSE IF token THEN cancelled' = TRUE /\ pc' = "quiesce"
       ELSE /\ pc' = IF Destructive(Current) THEN "writeEnable" ELSE "verify"
            /\ UNCHANGED cancelled
    /\ UNCHANGED <<given, executing, ret, op, pending, ses, step, polls, token,
                   chip, history>>

(* Even an acknowledged WREN may leave the latch clear: it is read back.   *)
WriteEnable ==
    /\ pc = "writeEnable"
    /\ chip' \in {chip, WREN(chip)}
    /\ \/ /\ pc' = "checkLatch"
          /\ UNCHANGED <<pending, ses, step, polls, cancelled, history>>
       \/ \E f \in Faults :
             /\ Erroneous(f)
             /\ FailAt(FailFromIO(pending, f, "writeEnableRejected", FALSE))
       \/ Unwind
    /\ UNCHANGED <<given, executing, ret, op, token>>

(* Mutant: the latch is not read back.                                     *)
LatchUnread == Idle(chip)

LatchReady == Idle(chip) /\ chip.wel

(* Status must show idle and latched; then TryBeginCriticalCommand looks at *)
(* the token for the last time before the opcode.                          *)
CheckLatch ==
    /\ pc = "checkLatch"
    /\ \/ /\ LatchReady
          /\ IF MayBeginCritical(op, token)
             THEN /\ op' = BeginCritical(op)
                  /\ pc' = "issue"
                  /\ UNCHANGED cancelled
             ELSE /\ cancelled' = token
                  /\ pc' = "quiesce"
                  /\ UNCHANGED op
          /\ UNCHANGED <<pending, ses, step, polls, history>>
       \/ /\ ~Idle(chip)
          /\ FailAt(SetPending(pending, "deviceBusy", ddBusyUnknown))
          /\ UNCHANGED op
       \/ /\ Idle(chip) /\ ~chip.wel
          /\ FailAt(SetPending(pending, "writeEnableRejected", ddKnownSafe))
          /\ UNCHANGED op
       \/ \E f \in Faults :
             /\ Erroneous(f)
             /\ FailAt(FailFromIO(pending, f, "writeEnableRejected", FALSE))
             /\ UNCHANGED op
       \/ Unwind /\ UNCHANGED op
    /\ UNCHANGED <<given, executing, ret, token, chip>>

(* Erase or ProgramPage.  A protected block ignores the opcode and answers  *)
(* nothing; a failed or raising call may have put it on the wire.  All of   *)
(* them go on to the drain.                                                *)
IssueCommand ==
    /\ pc = "issue"
    /\ \/ /\ wire' = [wire EXCEPT ![step] = "worked"]
          /\ chip' = Accept(chip, Current)
          /\ UNCHANGED pending
       \/ /\ wire' = [wire EXCEPT ![step] = "ignored"]
          /\ UNCHANGED <<chip, pending>>
       \/ \E f \in Faults :
             /\ wire' = [wire EXCEPT ![step] = "doubtful"]
             /\ chip' \in {chip, Accept(chip, Current)}
             /\ pending' = FailFromIO(pending,
                             IF f = "raised" THEN "transport" ELSE f,
                             "commandRejected", TRUE)
    /\ polls' = 0
    /\ pc' = "drain"
    /\ UNCHANGED <<given, executing, ret, op, ses, step, cancelled, token,
                   marks, cause>>

(* An event listener raised: CommandStarted before the opcode, or           *)
(* CommandFinished before the step was recorded.                           *)
ListenerRaises ==
    /\ pc \in {"issue", "finished"}
    /\ Unwind
    /\ UNCHANGED <<given, executing, ret, token, chip>>

(* An idle status restores certainty about a command whose call failed.    *)
Drained(p) == IF p.disp = ddBusyUnknown THEN [p EXCEPT !.disp = ddKnownSafe]
              ELSE p

(* Mutant: one poll too many.                                              *)
OnePollMore == polls < MaxPolls

PollsLeft == polls + 1 < MaxPolls

(* Mutant: a command whose call failed is announced as finished work.      *)
AnnounceAnyway(p) == "finished"

AfterDrain(p) == IF p.code = "none" THEN "finished" ELSE "quiesce"

(* Mutant: cancellation cuts the wait for the part short.                  *)
DrainUntilCancelled ==
    /\ pc = "drain"
    /\ Idle(chip) \/ token
    /\ cancelled' = token
    /\ op' = EndCritical(op)
    /\ pc' = "quiesce"
    /\ UNCHANGED <<given, executing, ret, pending, ses, step, polls, token, chip,
                   history>>

(* DrainCriticalCommand: poll until idle, whatever the token says.  The     *)
(* elapsed-time limit may strike at any busy poll.                         *)
Drain ==
    /\ pc = "drain"
    /\ \/ /\ Idle(chip)
          /\ pending' = Drained(pending)
          /\ op' = EndCritical(op)
          /\ pc' = AfterDrain(pending)
          /\ UNCHANGED <<ses, step, polls, cancelled, history>>
       \/ /\ ~Idle(chip) /\ PollsLeft
          /\ polls' = polls + 1
          /\ UNCHANGED <<op, pending, pc, ses, step, cancelled, history>>
       \/ /\ ~Idle(chip)
          /\ FailAt(SetPending(pending, "timeout", ddBusyUnknown))
          /\ op' = EndCritical(op)
       \/ \E f \in Faults :
             /\ Erroneous(f)
             /\ FailAt(FailFromIO(pending, f, "transport", TRUE))
             /\ op' = EndCritical(op)
       \/ Unwind /\ UNCHANGED op
    /\ UNCHANGED <<given, executing, ret, token, chip>>

(* Mutant: the step index stays where it is.                               *)
FinishedWithoutAdvance ==
    /\ pc = "finished"
    /\ marks' = marks \cup {step}
    /\ pc' = IF token THEN "quiesce" ELSE "loop"
    /\ cancelled' = token
    /\ UNCHANGED <<given, executing, ret, op, pending, ses, step, polls, token,
                   chip, wire, cause>>

(* State.CommandFinished, then the cancellation check that follows it.     *)
CommandFinished ==
    /\ pc = "finished"
    /\ marks' = marks \cup {step}
    /\ IF token THEN /\ cancelled' = TRUE
                     /\ pc' = "quiesce"
                     /\ UNCHANGED step
       ELSE /\ step' = step + 1
            /\ pc' = "loop"
            /\ UNCHANGED cancelled
    /\ UNCHANGED <<given, executing, ret, op, pending, ses, polls, token, chip,
                   wire, cause>>

(* A verify read, in the writing session or in the fresh one.  It shows a   *)
(* match only if the cells do match.                                       *)
VerifyRead(at, goOn) ==
    /\ pc = at
    /\ \/ /\ Matches(chip, Current)
          /\ step' = step + 1
          /\ pc' = goOn
          /\ UNCHANGED <<pending, ses, polls, cancelled, history>>
       \/ \E code \in {"verifyMismatch", "shortTransfer"} :
             FailAt(SetPending(pending, code, ddKnownSafe))
       \/ \E f \in Faults :
             Erroneous(f) /\ FailAt(FailFromIO(pending, f, "transport", FALSE))
       \/ Unwind
    /\ UNCHANGED <<given, executing, ret, op, token, chip>>

VerifyStep == VerifyRead("verify", "loop")

-----------------------------------------------------------------------------
(* The body ended without failure: close the session that wrote.           *)
PhysicallyVerified ==
    /\ pc = "verified"
    /\ op' = [AdvanceTo(op, opVerifying) EXCEPT !.physical = TRUE]
    /\ Cleanup("fresh")
    /\ UNCHANGED <<given, executing, pending, ses, step, polls, cancelled,
                   token, chip, history>>

(* A second session proves the result independently of the first.          *)
BeforeFreshSession ==
    /\ pc = "fresh"
    /\ IF pending.code # "none" THEN pc' = "quiesce" /\ UNCHANGED cancelled
       ELSE IF token THEN pc' = "quiesce" /\ cancelled' = TRUE
       ELSE pc' = "reopen" /\ UNCHANGED cancelled
    /\ UNCHANGED <<given, executing, ret, op, pending, ses, step, polls, token,
                   chip, history>>

Reopen ==
    /\ pc = "reopen"
    /\ \/ /\ ses' = [ses EXCEPT !.opened = TRUE]
          /\ pc' = "reinitialize"
          /\ UNCHANGED <<pending, step, polls, cancelled, history>>
       \/ \E f \in Faults :
             Erroneous(f) /\ FailAt(FailFromIO(pending, f, "openFailed", FALSE))
       \/ Unwind
    /\ UNCHANGED <<given, executing, ret, op, token, chip>>

Reinitialize ==
    /\ pc = "reinitialize"
    /\ \/ /\ Answers
          /\ ses' = [ses EXCEPT !.inited = TRUE]
          /\ step' = 1
          /\ pc' = "reverify"
          /\ UNCHANGED <<pending, polls, cancelled, history>>
       \/ \E f \in Faults :
             /\ Erroneous(f)
             /\ FailAt(FailFromIO(pending, f, "busInitFailed", FALSE))
       \/ Unwind
    /\ UNCHANGED <<given, executing, ret, op, token, chip>>

(* The fresh-session loop visits the verify steps only.                    *)
FreshLoop ==
    /\ pc = "reverify"
    /\ \/ /\ step > Len(Steps)
          /\ op' = [op EXCEPT !.fresh = TRUE]
          /\ pc' = "quiesce"
          /\ UNCHANGED <<step, cancelled>>
       \/ /\ step <= Len(Steps) /\ Destructive(Current)
          /\ step' = step + 1
          /\ UNCHANGED <<op, pc, cancelled>>
       \/ /\ step <= Len(Steps) /\ ~Destructive(Current) /\ token
          /\ cancelled' = TRUE
          /\ pc' = "quiesce"
          /\ UNCHANGED <<op, step>>
    /\ UNCHANGED <<given, executing, ret, pending, ses, polls, token, chip,
                   history>>

FreshVerify ==
    /\ step <= Len(Steps) /\ ~Destructive(Current) /\ ~token
    /\ VerifyRead("reverify", "reverify")

-----------------------------------------------------------------------------
Quiesce ==
    /\ pc = "quiesce"
    /\ op' = IF op.phase < opQuiescing THEN AdvanceTo(op, opQuiescing) ELSE op
    /\ Cleanup("finish")
    /\ UNCHANGED <<given, executing, pending, ses, step, polls, cancelled,
                   token, chip, history>>

(* PerformCleanup: three calls, each tried whatever became of the last.    *)
WriteDisable ==
    /\ pc = "writeDisable"
    /\ \/ chip' = WRDI(chip) /\ UNCHANGED pending
       \/ \E f \in Faults :
             /\ chip' \in {chip, WRDI(chip)}
             /\ pending' = SetPending(pending, "cleanupFailed",
                   IF f = "raised" THEN ddModeUnknown
                   ELSE DispositionForIO(f, pending.disp = ddBusyUnknown))
    /\ pc' = "deinitialize"
    /\ UNCHANGED <<given, executing, ret, op, ses, step, polls, cancelled,
                   token, history>>

Deinitialize ==
    /\ pc = "deinitialize"
    /\ pending' \in {pending} \cup
          {SetPending(pending, "cleanupFailed", ddModeUnknown) : f \in Faults}
    /\ ses' = [ses EXCEPT !.inited = FALSE]
    /\ pc' = IF ses.opened THEN "close" ELSE ret
    /\ UNCHANGED <<given, executing, ret, op, step, polls, cancelled, token,
                   chip, history>>

CloseDevice ==
    /\ pc = "close"
    /\ pending' \in {pending} \cup
          {SetPending(pending, "cleanupFailed", ddModeUnknown) : f \in Faults}
    /\ ses' = [ses EXCEPT !.opened = FALSE]
    /\ pc' = ret
    /\ UNCHANGED <<given, executing, ret, op, step, polls, cancelled, token,
                   chip, history>>

-----------------------------------------------------------------------------
(* The terminal outcome, and FExecuting given back.                        *)
Terminate(o) == op' = o /\ pc' = "done" /\ executing' = FALSE

Finish ==
    /\ pc = "finish"
    /\ IF pending.code = "none" /\ cancelled
       THEN Terminate(Cancel(op, ddKnownSafe))
       ELSE IF pending.code # "none"
       THEN Terminate(Fail(op, pending.code, pending.disp))
       ELSE IF req.evidence
       THEN /\ op' = AdvanceTo(op, opCommittingEvidence)
            /\ pc' = "commit"
            /\ UNCHANGED executing
       ELSE Terminate(Complete(op))
    /\ UNCHANGED <<given, ret, pending, ses, step, polls, cancelled, token,
                   chip, history>>

(* The evidence handler commits, refuses, raises, or is missing.           *)
CommitEvidence ==
    /\ pc = "commit"
    /\ \/ Terminate(Complete(op)) /\ UNCHANGED pending
       \/ /\ pending' = SetPending(pending, "evidenceFailed", ddKnownSafe)
          /\ Terminate(Fail(op, pending'.code, pending'.disp))
    /\ UNCHANGED <<given, ret, ses, step, polls, cancelled, token, chip,
                   history>>

(* Mutant: the unwound command is not recorded as possibly at work.        *)
FinallyForgets ==
    /\ pc = "unwind"
    /\ op' = EndCritical(op)
    /\ Cleanup("except")
    /\ UNCHANGED <<given, executing, pending, ses, step, polls, cancelled, token,
                   chip, history>>

(* The finally clause after an exception.                                  *)
Finally ==
    /\ pc = "unwind"
    /\ op' = EndCritical(op)
    /\ pending' = IF op.critical /\ pending.code = "none"
                  THEN SetPending(pending, "transport", ddBusyUnknown)
                  ELSE pending
    /\ Cleanup("except")
    /\ UNCHANGED <<given, executing, ses, step, polls, cancelled, token, chip,
                   history>>

(* The except clause names the exception only if nothing else failed yet.  *)
ExceptClause ==
    /\ pc = "except"
    /\ pending' = IF pending.code = "none"
                  THEN SetPending(pending, "transport", ddModeUnknown)
                  ELSE pending
    /\ Terminate(Fail(op, pending'.code, pending'.disp))
    /\ UNCHANGED <<given, ret, ses, step, polls, cancelled, token, chip,
                   history>>

-----------------------------------------------------------------------------
Body ==
    \/ Begin \/ OpenDevice \/ InitializeBus \/ ReadPreimage \/ NextStep
    \/ WriteEnable \/ CheckLatch \/ IssueCommand \/ ListenerRaises \/ Drain
    \/ CommandFinished
    \/ VerifyStep \/ PhysicallyVerified \/ BeforeFreshSession \/ Reopen
    \/ Reinitialize \/ FreshLoop \/ FreshVerify

Ending ==
    \/ Quiesce \/ WriteDisable \/ Deinitialize \/ CloseDevice \/ Finish
    \/ CommitEvidence \/ Finally \/ ExceptClause

Worker == Body \/ Ending

(* The chip ends its command.  Worn cells may not have taken it.           *)
ChipSettles ==
    /\ ~Idle(chip)
    /\ \E part \in SUBSET StepRange(chip.flight) : chip' = Settle(chip, part)
    /\ UNCHANGED <<given, executing, pc, ret, op, pending, ses, step, polls,
                   cancelled, token, history>>

(* Another thread presses cancel.                                          *)
RequestCancellation ==
    /\ pc # "done" /\ ~token
    /\ token' = TRUE
    /\ UNCHANGED <<given, executing, pc, ret, op, pending, ses, step, polls,
                   cancelled, chip, history>>

(* The run is over and the program waits for the next one.                 *)
Over == pc = "done" /\ Idle(chip) /\ UNCHANGED vars

Next == Worker \/ ChipSettles \/ RequestCancellation \/ Over

Spec == Init /\ [][Next]_vars

(* Only the worker thread is scheduled fairly: nothing is owed by the user, *)
(* and the chip may never become idle.                                     *)
FairSpec == Spec /\ WF_vars(Worker)

-----------------------------------------------------------------------------
(* Properties.                                                             *)

Issued == \E i \in DOMAIN Steps : wire[i] # "none"

(* The memory agrees with a step, if it is a verify step.                  *)
Agrees(i) == Steps[i].kind = "verify" =>
                \A a \in StepRange(Steps[i]) : chip.mem[a] = Steps[i].data[a]

(* What was asked for: the memory agrees with every verify step.           *)
Holds == \A i \in DOMAIN Steps : Agrees(i)

(* A finished run that sent a command and reports a known-safe device       *)
(* leaves a part at rest: no erase or program is still changing it.        *)
SafeMeansIdle ==
    IsTerminal(op) /\ op.disp = ddKnownSafe /\ Issued => Idle(chip)

(* Away from the drain loop a busy part is always known to be one: cleanup, *)
(* cancellation and the except clause cannot turn it into a safe outcome.  *)
BusyIsKnown ==
    Issued /\ ~Idle(chip) /\ pc \notin {"drain", "unwind"}
        => pending.disp > ddKnownSafe

(* Success means what the plan verifies is on the part after both sessions, *)
(* with nothing at work, and nothing destructive went unverified.          *)
SuccessMeansHolds ==
    IdentityGate /\ op.status = "succeeded" =>
        /\ Holds /\ Idle(chip)
        /\ op.physical /\ op.fresh
        /\ \A i \in DOMAIN Steps : Destructive(Steps[i]) => i \in marks
        /\ req.fullVerify => NORPlanVerifyCoversRequestedRange(req.plan)

(* A bound run of a plan the planner made from the snapshot leaves the      *)
(* snapshot with the patch over it on the whole part, outside the          *)
(* requested range included (Policy.PreserveOutsideRange).                 *)
Planned ==
    req.bind /\ req.plan = DifferentialPlan(req.expected, req.patch,
                                            req.plan.address, req.plan.length)

SuccessMeansPatched ==
    IdentityGate /\ op.status = "succeeded" /\ Planned =>
        chip.mem = Overlay(req.expected, req.patch,
                           req.plan.address, req.plan.length)

(* A mark stands for a command whose call succeeded, and the marks are the  *)
(* first destructive steps of the plan, without a gap.                     *)
MarksAreDone ==
    \A i \in marks :
        /\ wire[i] \in {"worked", "ignored"}
        /\ \A j \in 1 .. i - 1 : Destructive(Steps[j]) => j \in marks

(* No command goes out over a snapshot the session did not see itself.     *)
PreimageHolds ==
    IdentityGate /\ req.bind /\ ~Issued
    /\ pc \in {"writeEnable", "checkLatch", "issue"} => chip.mem = req.expected

(* A run gives back the bus, the device and the executor, whatever failed; *)
(* a refused one leaves them to the run that holds them.                   *)
EverythingReleased ==
    pc = "done" => /\ ~ses.opened /\ ~ses.inited
                   /\ executing = foreign
                   /\ IsTerminal(op) /\ ~op.critical

(* The outcome of a failed run names the first failure it met; cleanup may *)
(* only worsen the disposition (the comment on SetPending).                *)
FirstCauseKept ==
    op.status = "failed" /\ cause # "none" => op.code = cause

(* An opcode goes out only while nothing has failed or been cancelled, to   *)
(* an idle part with the latch read back set, and once for a step; a step  *)
(* is announced only while the part is idle; a terminal outcome is final.  *)
(* No cancellation stands when the executor commits itself to an opcode;   *)
(* one that comes later waits for the drain.                               *)
CleanIssue ==
    [][/\ wire' # wire => /\ pending.code = "none" /\ ~cancelled
                          /\ Idle(chip) /\ chip.wel
                          /\ wire[step] = "none"
       /\ op'.critical /\ ~op.critical => ~token
       /\ marks' # marks => Idle(chip) /\ pending.code = "none"
       /\ IsTerminal(op) => op' = op /\ wire' = wire]_vars

(* Whatever the device calls answer, a run ends: no loop of it waits for a  *)
(* part that may never become idle.                                        *)
Terminates == <>(pc = "done")

-----------------------------------------------------------------------------
(* The run as the transaction its caller sees.  A failure before the first  *)
(* command promises nothing: the part may be busy with an earlier one.     *)
SeenOutcome ==
    IF ~IsTerminal(op) THEN "running"
    ELSE IF op.status # "failed" THEN op.status
    ELSE IF op.disp = ddKnownSafe /\ Issued THEN "failedSafe"
    ELSE "failedUnknown"

Transaction == INSTANCE DeviceTransaction WITH
    Memory <- Image, mem <- chip.mem, holds <- Holds, busy <- ~Idle(chip),
    outcome <- SeenOutcome

(* Behind the identity gate the executor implements the transaction: it     *)
(* promises no outcome the part does not bear out.                         *)
IsTransaction == Transaction!TSpec

-----------------------------------------------------------------------------
(* The invariant of a run, in parts.  Each location is in one stage.       *)
Opening == {"open", "initialize", "preimage"}
Writing == {"loop", "writeEnable", "checkLatch", "issue", "drain", "finished",
            "verify", "verified"}
Proving == {"reopen", "reinitialize", "reverify"}
Cleaning == {"writeDisable", "deinitialize", "close"}

(* Which of the device and the bus a location holds.                       *)
SessionFlags ==
    /\ pc \in {"start", "open", "fresh", "reopen", "finish", "commit", "except",
               "done"} => ~ses.opened /\ ~ses.inited
    /\ pc \in {"initialize", "reinitialize", "close"} => ses.opened /\ ~ses.inited
    /\ pc \in (Writing \cup {"preimage", "reverify", "writeDisable", "deinitialize"})
          => ses.opened /\ ses.inited
    /\ ses.inited => ses.opened

(* Who runs, and where a command may be in flight.                         *)
Running ==
    /\ pc = "start" => op = NewOutcome /\ pending = NoPending /\ executing = foreign
    /\ pc = "done" => IsTerminal(op) /\ executing = foreign
    /\ pc \notin {"start", "done"} => op.status = "running" /\ executing /\ ~foreign
    /\ op.critical => pc \in {"issue", "drain", "unwind"}
    /\ pc \in {"issue", "drain"} => op.critical

(* How far the phase has come, so that no advance is ever refused.         *)
PhaseReached ==
    /\ pc = "open" => op.phase = opOpening
    /\ pc = "initialize" => op.phase = opInitializingBus
    /\ pc = "preimage" => op.phase = opCheckingContact
    /\ pc \in Writing => op.phase = opExecuting
    /\ pc \in Proving \cup {"fresh"} => op.phase = opVerifying
    /\ pc = "quiesce" => op.phase < opQuiescing
    /\ pc \in Cleaning /\ ret = "fresh" => op.phase = opVerifying
    /\ pc \in Cleaning /\ ret = "finish" => op.phase = opQuiescing
    /\ pc = "finish" => op.phase = opQuiescing
    /\ pc = "commit" => op.phase = opCommittingEvidence

(* The body goes on only while nothing has failed or been cancelled.       *)
Unspoiled ==
    /\ pc \in (Opening \cup Writing \cup Proving \cup {"start", "commit"}) \ {"drain"}
          => pending.code = "none"
    /\ pc \in Opening \cup Writing \cup Proving \cup {"start", "commit", "fresh"}
          => ~cancelled
    /\ pc \in Cleaning /\ ret = "fresh" => ~cancelled
    /\ pc = "drain" /\ pending.code # "none" => pending.disp > ddKnownSafe

(* Where the part is at rest, and what is known where it is not.           *)
Sure == IdentityGate \/ Issued

AtRest ==
    /\ Sure /\ pc \in (Writing \cup Proving \cup {"preimage", "fresh", "commit"})
                         \ {"drain"} => Idle(chip)
    /\ Sure /\ pc \in {"quiesce", "finish"} /\ pending.code = "none" => Idle(chip)
    /\ Sure /\ pc \in Cleaning /\ ret # "except" /\ pending.code = "none"
          => Idle(chip)
    /\ Issued /\ ~Idle(chip) /\ pc \in Cleaning \cup {"quiesce", "finish", "except"}
          => pending.code # "none" /\ pending.disp > ddKnownSafe
    /\ Issued /\ ~Idle(chip) /\ pc = "unwind" =>
          /\ op.critical
          /\ pending.code # "none" => pending.disp > ddKnownSafe
    /\ Issued /\ ~Idle(chip) /\ pc = "done" =>
          op.status = "failed" /\ op.disp > ddKnownSafe /\ pending.disp > ddKnownSafe
    /\ Sure /\ op.physical => Idle(chip)
    /\ Sure /\ op.status = "cancelled" => Idle(chip)
    /\ pc = "issue" => Idle(chip) /\ chip.wel

(* What has gone out and what was announced, step by step.                 *)
DestructiveBefore(n) == {j \in DOMAIN Steps : j < n /\ Destructive(Steps[j])}

Bookkeeping ==
    /\ pc \in {"start"} \cup Opening => step = 1
    /\ pc \in {"start"} \cup Opening \cup (Writing \ {"drain", "finished"}) =>
          \A i \in DOMAIN Steps : i >= step => wire[i] = "none"
    /\ pc \in {"drain", "finished"} =>
          /\ \A i \in DOMAIN Steps : i > step => wire[i] = "none"
          /\ wire[step] # "none"
          /\ pending.code = "none" => wire[step] \in {"worked", "ignored"}
    /\ pc \in Writing \ {"loop", "verify", "verified"} =>
          step \in DOMAIN Steps /\ Destructive(Current)
    /\ pc = "verify" => step \in DOMAIN Steps /\ ~Destructive(Current)
    /\ pc = "verified" => step > Len(Steps)
    /\ pc \in {"start"} \cup Opening \cup Writing => marks = DestructiveBefore(step)
    /\ op.physical => \A i \in DOMAIN Steps : Destructive(Steps[i]) => i \in marks
    /\ MarksAreDone

(* What the two sessions have verified so far.                             *)
Verified ==
    /\ pc \in {"start"} \cup Opening \cup Writing => ~op.physical /\ ~op.fresh
    /\ pc \in Proving \cup {"fresh"} => op.physical
    /\ pc \in Cleaning /\ ret = "fresh" => op.physical
    /\ op.fresh => op.physical
    /\ pc \in {"quiesce", "finish"} /\ pending.code = "none" /\ ~cancelled => op.fresh
    /\ pc \in Cleaning /\ ret = "finish" /\ pending.code = "none" /\ ~cancelled
          => op.fresh
    /\ pc = "commit" \/ op.status = "succeeded" => op.fresh
    /\ pc = "reverify" /\ Sure => \A i \in 1 .. step - 1 : Agrees(i)
    /\ op.fresh /\ Sure => Holds
    /\ pc \in Opening \cup Writing \/ op.physical => InvalidCode = "none"

SnapshotSeen ==
    IdentityGate /\ req.bind /\ ~Issued /\ pc \in Writing => chip.mem = req.expected

IInv ==
    /\ TypeOK /\ SessionFlags /\ Running /\ PhaseReached /\ Unspoiled
    /\ AtRest /\ Bookkeeping /\ Verified /\ SnapshotSeen
=============================================================================
