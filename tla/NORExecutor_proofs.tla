------------------------- MODULE NORExecutor_proofs -------------------------
(* Theorems about one run of the NOR plan executor, for every plan, part,   *)
(* fault set and poll limit: what the actions make of the outcome record,   *)
(* a lemma for each part of the invariant IInv with one step for each       *)
(* action, and what follows from IInv.                                      *)
EXTENDS NORExecutor, NORPlanner_proofs

USE DEF opCreated, opValidating, opReservingDevice, opOpening,
        opInitializingBus, opCheckingContact, opPlanning, opExecuting,
        opVerifying, opQuiescing, opCommittingEvidence, opCompleted, Phases,
        ddNotOpened, ddKnownSafe, ddBusyUnknown, ddDisconnectedUnknown,
        ddModeUnknown, Dispositions

-----------------------------------------------------------------------------
(* The operators on outcomes and pending failures stay inside their types. *)
LEMMA OutcomeTypes ==
    ASSUME NEW o \in Outcomes, NEW code \in ErrorCodes,
           NEW disp \in Dispositions, NEW phase \in Phases
    PROVE  /\ Fail(o, code, disp) \in Outcomes
           /\ Start(o) \in Outcomes
           /\ AdvanceTo(o, phase) \in Outcomes
           /\ BeginCritical(o) \in Outcomes
           /\ EndCritical(o) \in Outcomes
           /\ Cancel(o, disp) \in Outcomes
           /\ Complete(o) \in Outcomes
<1> USE DEF Outcomes, Statuses, ErrorCodes
<1>1. \A c \in ErrorCodes, d \in Dispositions : Fail(o, c, d) \in Outcomes
  <2>1. "failed" \in Statuses
    OBVIOUS
  <2> HIDE DEF Statuses, ErrorCodes
  <2> TAKE c \in ErrorCodes, d \in Dispositions
  <2>2. [o EXCEPT !.status = "failed", !.code = c, !.disp = d] \in Outcomes
    BY <2>1
  <2> QED BY <2>2 DEF Fail
<1>2. \A p \in Phases : AdvanceTo(o, p) \in Outcomes
  <2> TAKE p \in Phases
  <2>1. Fail(o, "internalState", o.disp) \in Outcomes
    BY <1>1
  <2>2. [o EXCEPT !.phase = p] \in Outcomes
    OBVIOUS
  <2> QED BY <2>1, <2>2 DEF AdvanceTo
<1>3. Start(o) \in Outcomes
  BY DEF Start
<1>4. BeginCritical(o) \in Outcomes /\ EndCritical(o) \in Outcomes
  BY DEF BeginCritical, EndCritical
<1>5. Cancel(o, disp) \in Outcomes
  BY DEF Cancel, IsTerminal, Terminal
<1>6. Complete(o) \in Outcomes
  <2>1. Fail(o, "internalState", o.disp) \in Outcomes
    BY <1>1
  <2>2. AdvanceTo(o, opCompleted) \in Outcomes
    BY <1>2
  <2>3. \A r \in Outcomes :
           [r EXCEPT !.status = "succeeded", !.code = "none",
                     !.disp = ddKnownSafe] \in Outcomes
    <3>1. "succeeded" \in Statuses /\ "none" \in ErrorCodes
      OBVIOUS
    <3>2. ddKnownSafe \in Dispositions
      OBVIOUS
    <3> HIDE DEF Statuses, ErrorCodes, Dispositions, ddKnownSafe
    <3> QED BY <3>1, <3>2
  <2> HIDE DEF Outcomes
  <2> DEFINE done == IF o.phase = opCompleted THEN o
                     ELSE AdvanceTo(o, opCompleted)
  <2>4. done \in Outcomes
    BY <2>2
  <2> QED BY <2>1, <2>3, <2>4 DEF Complete
<1> QED BY <1>1, <1>2, <1>3, <1>4, <1>5, <1>6

LEMMA PendingTypes ==
    ASSUME NEW p \in Pendings, NEW code \in ErrorCodes,
           NEW disp \in Dispositions
    PROVE  SetPending(p, code, disp) \in Pendings
BY DEF Pendings, SetPending, Max2

LEMMA IOTypes ==
    ASSUME NEW p \in Pendings, NEW f \in IOErrors, NEW code \in ErrorCodes,
           NEW flying \in BOOLEAN
    PROVE  /\ DispositionForIO(f, flying) \in Dispositions
           /\ FailFromIO(p, f, code, flying) \in Pendings
<1>1. DispositionForIO(f, flying) \in Dispositions
  BY DEF DispositionForIO
<1>2. MapIOError(f, code) \in ErrorCodes
  BY DEF MapIOError, ErrorCodes, IOErrors
<1> QED BY <1>1, <1>2, PendingTypes DEF FailFromIO

(* What one failure does to a pending record: it always names a cause, and  *)
(* the disposition never gets better once there is one.                    *)
LEMMA PendingWorsens ==
    ASSUME NEW p \in Pendings, NEW code \in ErrorCodes \ {"none"},
           NEW disp \in Dispositions
    PROVE  /\ SetPending(p, code, disp).code # "none"
           /\ p.code # "none" =>
                 /\ SetPending(p, code, disp).code = p.code
                 /\ SetPending(p, code, disp).disp >= p.disp
           /\ p.code = "none" => SetPending(p, code, disp).disp = disp
           /\ SetPending(p, code, disp).disp >= disp
BY DEF Pendings, SetPending, Max2

(* What the state machine of a running operation answers, field by field.  *)
LEMMA Advanced ==
    ASSUME NEW o \in Outcomes, o.status = "running",
           NEW p \in Phases, p > o.phase
    PROVE  /\ AdvanceTo(o, p) \in Outcomes
           /\ AdvanceTo(o, p).status = "running"
           /\ AdvanceTo(o, p).phase = p
           /\ AdvanceTo(o, p).critical = o.critical
           /\ AdvanceTo(o, p).physical = o.physical
           /\ AdvanceTo(o, p).fresh = o.fresh
<1>1. AdvanceTo(o, p) = [o EXCEPT !.phase = p]
  BY DEF AdvanceTo
<1> QED BY <1>1 DEF Outcomes

LEMMA Failed ==
    ASSUME NEW o \in Outcomes, o.status = "running",
           NEW c \in ErrorCodes, NEW d \in Dispositions
    PROVE  /\ Fail(o, c, d) \in Outcomes
           /\ Fail(o, c, d).status = "failed" /\ IsTerminal(Fail(o, c, d))
           /\ Fail(o, c, d).code = c /\ Fail(o, c, d).disp = d
           /\ Fail(o, c, d).critical = o.critical
           /\ Fail(o, c, d).physical = o.physical
           /\ Fail(o, c, d).fresh = o.fresh
<1>1. Fail(o, c, d) \in Outcomes
  BY OutcomeTypes
<1>2. Fail(o, c, d) = [o EXCEPT !.status = "failed", !.code = c, !.disp = d]
  BY DEF Fail, IsTerminal, Terminal
<1> QED BY <1>1, <1>2 DEF Outcomes, IsTerminal, Terminal

LEMMA Cancelled ==
    ASSUME NEW o \in Outcomes, o.status = "running", ~o.critical,
           NEW d \in Dispositions
    PROVE  /\ Cancel(o, d) \in Outcomes
           /\ Cancel(o, d).status = "cancelled" /\ IsTerminal(Cancel(o, d))
           /\ Cancel(o, d).disp = d
           /\ Cancel(o, d).critical = o.critical
           /\ Cancel(o, d).physical = o.physical
           /\ Cancel(o, d).fresh = o.fresh
<1>1. Cancel(o, d) \in Outcomes
  <2>1. "none" \in ErrorCodes /\ 0 \in Phases /\ 0 \in Dispositions
    BY DEF ErrorCodes
  <2> QED BY <2>1, OutcomeTypes
<1>2. Cancel(o, d) = [o EXCEPT !.status = "cancelled", !.code = "cancelled",
                               !.disp = d]
  BY DEF Cancel, IsTerminal, Terminal
<1> QED BY <1>1, <1>2 DEF Outcomes, IsTerminal, Terminal

LEMMA Completed ==
    ASSUME NEW o \in Outcomes, o.status = "running", ~o.critical,
           o.phase < opCompleted
    PROVE  /\ Complete(o) \in Outcomes
           /\ Complete(o).status = "succeeded" /\ IsTerminal(Complete(o))
           /\ Complete(o).disp = ddKnownSafe
           /\ Complete(o).critical = o.critical
           /\ Complete(o).physical = o.physical
           /\ Complete(o).fresh = o.fresh
<1>1. Complete(o) \in Outcomes
  <2>1. "none" \in ErrorCodes /\ 0 \in Phases /\ 0 \in Dispositions
    BY DEF ErrorCodes
  <2> QED BY <2>1, OutcomeTypes
<1>2. AdvanceTo(o, opCompleted) = [o EXCEPT !.phase = opCompleted]
  BY DEF AdvanceTo, Outcomes
<1>3. [o EXCEPT !.phase = opCompleted].status = "running"
  BY DEF Outcomes
<1>4. Complete(o) = [[o EXCEPT !.phase = opCompleted] EXCEPT
                        !.status = "succeeded", !.code = "none",
                        !.disp = ddKnownSafe]
  BY <1>2, <1>3 DEF Complete, Outcomes
<1> QED BY <1>1, <1>4 DEF Outcomes, IsTerminal, Terminal

-----------------------------------------------------------------------------
(* What the actions that change the outcome make of it.                    *)
LEMMA LoopEntered ==
    ASSUME NEW o \in Outcomes, o.status = "running", o.phase < opPlanning
    PROVE  /\ EnterLoop(o) \in Outcomes
           /\ EnterLoop(o).status = "running"
           /\ EnterLoop(o).phase = opExecuting
           /\ EnterLoop(o).critical = o.critical
           /\ EnterLoop(o).physical = o.physical
           /\ EnterLoop(o).fresh = o.fresh
<1>1. opPlanning \in Phases /\ opExecuting \in Phases /\ opExecuting > opPlanning
  OBVIOUS
<1> DEFINE p == AdvanceTo(o, opPlanning)
<1>2. /\ p \in Outcomes /\ p.status = "running" /\ p.phase = opPlanning
      /\ p.critical = o.critical /\ p.physical = o.physical /\ p.fresh = o.fresh
  BY <1>1, Advanced DEF Outcomes
<1> HIDE DEF p
<1>3. /\ AdvanceTo(p, opExecuting) \in Outcomes
      /\ AdvanceTo(p, opExecuting).status = "running"
      /\ AdvanceTo(p, opExecuting).phase = opExecuting
      /\ AdvanceTo(p, opExecuting).critical = p.critical
      /\ AdvanceTo(p, opExecuting).physical = p.physical
      /\ AdvanceTo(p, opExecuting).fresh = p.fresh
  BY <1>1, <1>2, Advanced
<1> QED BY <1>2, <1>3 DEF EnterLoop, p

LEMMA BeginOutcome ==
    ASSUME Running, Begin
    PROVE  /\ op' \in Outcomes
           /\ ~op'.critical /\ ~op'.physical /\ ~op'.fresh
           /\ executing =>
                /\ op'.status = "failed" /\ IsTerminal(op') /\ pc' = "done"
                /\ op'.disp = ddNotOpened /\ executing' /\ UNCHANGED pending
           /\ ~executing =>
                /\ op'.status = "running" /\ executing'
                /\ \/ /\ InvalidCode = "none" /\ UNCHANGED pending
                      /\ pc' = "open" /\ op'.phase = opOpening
                   \/ /\ InvalidCode # "none"
                      /\ pending' = SetPending(pending, InvalidCode, ddNotOpened)
                      /\ pc' = "quiesce" /\ op'.phase = opValidating
<1>1. pc = "start" /\ op = NewOutcome
  BY DEF Begin, Running
<1> DEFINE s == [NewOutcome EXCEPT !.status = "running"]
<1>2. Start(op) = s
  BY <1>1 DEF Start, NewOutcome
<1>3. /\ s \in Outcomes /\ s.status = "running" /\ s.phase = opCreated
      /\ ~s.critical /\ ~s.physical /\ ~s.fresh
  <2>1. NewOutcome \in Outcomes
    BY DEF NewOutcome, Outcomes, Statuses, ErrorCodes
  <2>2. s \in Outcomes
    BY <1>1, <1>2, <2>1, OutcomeTypes DEF Statuses, ErrorCodes
  <2> QED BY <2>2 DEF NewOutcome
<1> HIDE DEF s
<1>4. CASE executing
  <2>1. op' = Fail(s, "deviceBusy", ddNotOpened) /\ pc' = "done"
        /\ UNCHANGED <<executing, pending>>
    BY <1>2, <1>4 DEF Begin
  <2>2. "deviceBusy" \in ErrorCodes /\ ddNotOpened \in Dispositions
    BY DEF ErrorCodes
  <2> QED BY <1>3, <1>4, <2>1, <2>2, Failed
<1>5. CASE ~executing
  <2> DEFINE v == AdvanceTo(s, opValidating)
             r == AdvanceTo(v, opReservingDevice)
  <2>1. /\ v \in Outcomes /\ v.status = "running" /\ v.phase = opValidating
        /\ ~v.critical /\ ~v.physical /\ ~v.fresh
    <3>1. opValidating \in Phases /\ opValidating > opCreated
      OBVIOUS
    <3> QED BY <1>3, <3>1, Advanced
  <2>2. /\ r \in Outcomes /\ r.status = "running" /\ r.phase = opReservingDevice
        /\ ~r.critical /\ ~r.physical /\ ~r.fresh
    <3>1. opReservingDevice \in Phases /\ opReservingDevice > opValidating
      OBVIOUS
    <3> HIDE DEF v
    <3> QED BY <2>1, <3>1, Advanced
  <2>3. /\ AdvanceTo(r, opOpening) \in Outcomes
        /\ AdvanceTo(r, opOpening).status = "running"
        /\ AdvanceTo(r, opOpening).phase = opOpening
        /\ ~AdvanceTo(r, opOpening).critical
        /\ ~AdvanceTo(r, opOpening).physical /\ ~AdvanceTo(r, opOpening).fresh
    <3>1. opOpening \in Phases /\ opOpening > opReservingDevice
      OBVIOUS
    <3> HIDE DEF r
    <3> QED BY <2>2, <3>1, Advanced
  <2>4. executing' /\ IF InvalidCode = "none"
                     THEN /\ op' = AdvanceTo(r, opOpening)
                          /\ pc' = "open" /\ UNCHANGED pending
                     ELSE /\ op' = v
                          /\ pending' = SetPending(pending, InvalidCode,
                                                   ddNotOpened)
                          /\ pc' = "quiesce"
    BY <1>2, <1>5 DEF Begin
  <2> HIDE DEF v, r
  <2> QED BY <1>5, <2>1, <2>3, <2>4
<1> QED BY <1>4, <1>5

(* The actions that only move the phase on.                                *)
Advancing == OpenDevice \/ InitializeBus \/ ReadPreimage \/ Quiesce

LEMMA AdvancingOutcome ==
    ASSUME TypeOK, Running, PhaseReached, Advancing
    PROVE  /\ op' \in Outcomes /\ op'.status = "running"
           /\ op'.critical = op.critical
           /\ op'.physical = op.physical /\ op'.fresh = op.fresh
           /\ OpenDevice => \/ op' = op /\ pc' \in {"quiesce", "unwind"}
                            \/ op'.phase = opInitializingBus /\ pc' = "initialize"
           /\ InitializeBus =>
                 \/ op' = op /\ pc' \in {"quiesce", "unwind"}
                 \/ op'.phase = opCheckingContact /\ pc' = "preimage"
                 \/ op'.phase = opExecuting /\ pc' = "loop"
           /\ ReadPreimage => \/ op' = op /\ pc' \in {"quiesce", "unwind"}
                              \/ op'.phase = opExecuting /\ pc' = "loop"
           /\ Quiesce => op'.phase = opQuiescing
<1>1. op \in Outcomes /\ op.status = "running"
  BY DEF TypeOK, Running, Advancing, OpenDevice, InitializeBus, ReadPreimage,
         Quiesce
<1> DEFINE Same(n) == /\ n \in Outcomes /\ n.status = "running"
                      /\ n.critical = op.critical
                      /\ n.physical = op.physical /\ n.fresh = op.fresh
<1>2. Same(op)
  BY <1>1
<1>3. ASSUME NEW p \in Phases, p > op.phase
      PROVE  Same(AdvanceTo(op, p)) /\ AdvanceTo(op, p).phase = p
  BY <1>1, <1>3, Advanced
<1>4. op.phase < opPlanning =>
         Same(EnterLoop(op)) /\ EnterLoop(op).phase = opExecuting
  BY <1>1, LoopEntered
<1> HIDE DEF Same
<1>5. CASE OpenDevice
  <2>1. pc = "open" /\ op.phase = opOpening
    BY <1>5 DEF OpenDevice, PhaseReached
  <2>2. \/ op' = op /\ pc' \in {"quiesce", "unwind"}
        \/ op' = AdvanceTo(op, opInitializingBus) /\ pc' = "initialize"
    BY <1>5 DEF OpenDevice, FailAt, Unwind
  <2>3. opInitializingBus \in Phases /\ opInitializingBus > op.phase
    BY <2>1
  <2>4. Same(op')
    BY <1>2, <1>3, <2>2, <2>3
  <2>5. ~InitializeBus /\ ~ReadPreimage /\ ~Quiesce
    BY <2>1 DEF InitializeBus, ReadPreimage, Quiesce
  <2> QED BY <1>3, <2>2, <2>3, <2>4, <2>5 DEF Same
<1>6. CASE InitializeBus
  <2>1. pc = "initialize" /\ op.phase = opInitializingBus
    BY <1>6 DEF InitializeBus, PhaseReached
  <2>2. \/ op' = op /\ pc' \in {"quiesce", "unwind"}
        \/ op' = AdvanceTo(op, opCheckingContact) /\ pc' = "preimage"
        \/ op' = EnterLoop(op) /\ pc' = "loop"
    BY <1>6 DEF InitializeBus, FailAt, Unwind
  <2>3. opCheckingContact \in Phases /\ opCheckingContact > op.phase
        /\ op.phase < opPlanning
    BY <2>1
  <2>4. Same(op')
    BY <1>2, <1>3, <1>4, <2>2, <2>3
  <2>5. ~OpenDevice /\ ~ReadPreimage /\ ~Quiesce
    BY <2>1 DEF OpenDevice, ReadPreimage, Quiesce
  <2> QED BY <1>3, <1>4, <2>2, <2>3, <2>4, <2>5 DEF Same
<1>7. CASE ReadPreimage
  <2>1. pc = "preimage" /\ op.phase = opCheckingContact
    BY <1>7 DEF ReadPreimage, PhaseReached
  <2>2. \/ op' = op /\ pc' \in {"quiesce", "unwind"}
        \/ op' = EnterLoop(op) /\ pc' = "loop"
    BY <1>7 DEF ReadPreimage, FailAt, Unwind
  <2>3. op.phase < opPlanning
    BY <2>1
  <2>4. Same(op')
    BY <1>2, <1>4, <2>2, <2>3
  <2>5. ~OpenDevice /\ ~InitializeBus /\ ~Quiesce
    BY <2>1 DEF OpenDevice, InitializeBus, Quiesce
  <2> QED BY <1>4, <2>2, <2>3, <2>4, <2>5 DEF Same
<1>8. CASE Quiesce
  <2>1. pc = "quiesce" /\ op.phase < opQuiescing
    BY <1>8 DEF Quiesce, PhaseReached
  <2>2. op' = AdvanceTo(op, opQuiescing)
    BY <1>8, <2>1 DEF Quiesce
  <2>3. opQuiescing \in Phases /\ opQuiescing > op.phase
    BY <1>1, <2>1 DEF Outcomes
  <2>4. Same(op') /\ op'.phase = opQuiescing
    BY <1>3, <2>2, <2>3
  <2>5. ~OpenDevice /\ ~InitializeBus /\ ~ReadPreimage
    BY <2>1 DEF OpenDevice, InitializeBus, ReadPreimage
  <2> QED BY <2>4, <2>5 DEF Same
<1> QED BY <1>5, <1>6, <1>7, <1>8 DEF Advancing

LEMMA PhysicalOutcome ==
    ASSUME TypeOK, Running, PhaseReached, PhysicallyVerified
    PROVE  /\ op' \in Outcomes /\ op'.status = "running"
           /\ op'.phase = opVerifying /\ op'.critical = op.critical
           /\ op'.physical /\ op'.fresh = op.fresh
<1>1. op \in Outcomes /\ op.status = "running" /\ op.phase = opExecuting
  BY DEF TypeOK, Running, PhaseReached, PhysicallyVerified, Writing
<1>2. opVerifying \in Phases /\ opVerifying > op.phase
  BY <1>1
<1> DEFINE v == AdvanceTo(op, opVerifying)
<1>3. /\ v \in Outcomes /\ v.status = "running" /\ v.phase = opVerifying
      /\ v.critical = op.critical /\ v.fresh = op.fresh
  BY <1>1, <1>2, Advanced
<1> HIDE DEF v
<1>4. op' = [v EXCEPT !.physical = TRUE]
  BY DEF PhysicallyVerified, v
<1> QED BY <1>3, <1>4 DEF Outcomes

(* Finish, CommitEvidence and ExceptClause.                                *)
Closing == Finish \/ CommitEvidence \/ ExceptClause

LEMMA ClosingOutcome ==
    ASSUME TypeOK, Running, PhaseReached, Closing
    PROVE  /\ op' \in Outcomes
           /\ op'.critical = op.critical
           /\ op'.physical = op.physical /\ op'.fresh = op.fresh
           /\ \/ pc' = "commit" /\ op'.status = "running"
                 /\ op'.phase = opCommittingEvidence /\ executing' = executing
                 /\ UNCHANGED pending /\ pending.code = "none" /\ ~cancelled
                 /\ pc = "finish"
              \/ /\ pc' = "done" /\ executing' = FALSE /\ IsTerminal(op')
                 /\ \/ /\ op'.status = "cancelled" /\ op'.disp = ddKnownSafe
                       /\ UNCHANGED pending /\ pending.code = "none"
                       /\ pc = "finish"
                    \/ /\ op'.status = "succeeded" /\ op'.disp = ddKnownSafe
                       /\ pc = "commit" \/ /\ pc = "finish" /\ ~cancelled
                                           /\ pending.code = "none"
                       /\ UNCHANGED pending
                    \/ /\ op'.status = "failed" /\ op'.disp = pending'.disp
                       /\ pending'.code # "none" /\ op'.code = pending'.code
                       /\ \/ UNCHANGED pending
                          \/ /\ pc = "commit"
                             /\ pending' = SetPending(pending, "evidenceFailed",
                                                      ddKnownSafe)
                          \/ /\ pc = "except" /\ pending.code = "none"
                             /\ pending' = SetPending(pending, "transport",
                                                      ddModeUnknown)
<1>1. /\ op \in Outcomes /\ op.status = "running" /\ ~op.critical
      /\ pc \in {"finish", "commit", "except"}
      /\ pc = "finish" => op.phase = opQuiescing
      /\ pc = "commit" => op.phase = opCommittingEvidence
  BY DEF TypeOK, Running, PhaseReached, Closing, Finish, CommitEvidence,
         ExceptClause
<1>2. pending \in Pendings
  BY DEF TypeOK
<1>3. /\ {"evidenceFailed", "transport"} \subseteq ErrorCodes \ {"none"}
      /\ ddKnownSafe \in Dispositions /\ ddModeUnknown \in Dispositions
  BY DEF ErrorCodes
<1>4. CASE Finish
  <2>1. CASE pending.code = "none" /\ cancelled
    <3>1. op' = Cancel(op, ddKnownSafe) /\ pc' = "done" /\ executing' = FALSE
          /\ UNCHANGED pending /\ pc = "finish"
      BY <1>4, <2>1 DEF Finish, Terminate
    <3> QED BY <1>1, <1>3, <2>1, <3>1, Cancelled
  <2>2. CASE pending.code # "none"
    <3>1. op' = Fail(op, pending.code, pending.disp) /\ pc' = "done"
          /\ executing' = FALSE /\ UNCHANGED pending /\ pc = "finish"
      BY <1>4, <2>2 DEF Finish, Terminate
    <3>2. pending.code \in ErrorCodes /\ pending.disp \in Dispositions
      BY <1>2 DEF Pendings
    <3> QED BY <1>1, <2>2, <3>1, <3>2, Failed
  <2>3. CASE pending.code = "none" /\ ~cancelled /\ req.evidence
    <3>1. op' = AdvanceTo(op, opCommittingEvidence) /\ pc' = "commit"
          /\ UNCHANGED <<executing, pending>> /\ pc = "finish"
      BY <1>4, <2>3 DEF Finish
    <3>2. opCommittingEvidence \in Phases /\ opCommittingEvidence > op.phase
      BY <1>1, <3>1
    <3> QED BY <1>1, <2>3, <3>1, <3>2, Advanced
  <2>4. CASE pending.code = "none" /\ ~cancelled /\ ~req.evidence
    <3>1. op' = Complete(op) /\ pc' = "done" /\ executing' = FALSE
          /\ UNCHANGED pending /\ pc = "finish"
      BY <1>4, <2>4 DEF Finish, Terminate
    <3>2. op.phase < opCompleted
      BY <1>1, <3>1
    <3> QED BY <1>1, <2>4, <3>1, <3>2, Completed
  <2> QED BY <2>1, <2>2, <2>3, <2>4
<1>5. CASE CommitEvidence
  <2>0. pc = "commit" /\ pc' = "done" /\ executing' = FALSE
    BY <1>5 DEF CommitEvidence, Terminate
  <2>1. CASE op' = Complete(op) /\ UNCHANGED pending
    <3>1. op.phase < opCompleted
      BY <1>1, <2>0
    <3> QED BY <1>1, <2>0, <2>1, <3>1, Completed
  <2>2. CASE /\ pending' = SetPending(pending, "evidenceFailed", ddKnownSafe)
             /\ op' = Fail(op, pending'.code, pending'.disp)
    <3>1. pending' \in Pendings /\ pending'.code # "none"
      BY <1>2, <1>3, <2>2, PendingTypes, PendingWorsens
    <3>2. pending'.code \in ErrorCodes /\ pending'.disp \in Dispositions
      BY <3>1 DEF Pendings
    <3> QED BY <1>1, <2>0, <2>2, <3>1, <3>2, Failed
  <2> QED BY <1>5, <2>1, <2>2 DEF CommitEvidence, Terminate
<1>6. CASE ExceptClause
  <2>1. /\ pc = "except" /\ pc' = "done" /\ executing' = FALSE
        /\ op' = Fail(op, pending'.code, pending'.disp)
        /\ \/ pending.code # "none" /\ UNCHANGED pending
           \/ /\ pending.code = "none"
              /\ pending' = SetPending(pending, "transport", ddModeUnknown)
    BY <1>6 DEF ExceptClause, Terminate
  <2>2. pending' \in Pendings /\ pending'.code # "none"
    BY <1>2, <1>3, <2>1, PendingTypes, PendingWorsens
  <2>3. pending'.code \in ErrorCodes /\ pending'.disp \in Dispositions
    BY <2>2 DEF Pendings
  <2> QED BY <1>1, <2>1, <2>2, <2>3, Failed
<1> QED BY <1>4, <1>5, <1>6 DEF Closing

-----------------------------------------------------------------------------
(* What a device call that is no command leaves.  It goes on, or one of two  *)
(* things happens: a failure is recorded and only quiescing is left, or an  *)
(* exception leaves the body.                                              *)
Failing ==
    /\ pc' = "quiesce"
    /\ pending' \in Pendings /\ pending'.code # "none"
    /\ UNCHANGED <<ses, step, polls, cancelled, history>>

Unwinding ==
    /\ pc' = "unwind"
    /\ cause' \in ErrorCodes
    /\ UNCHANGED <<op, pending, ses, step, polls, cancelled, wire, marks>>

LEMMA FailureRecorded ==
    ASSUME TypeOK
    PROVE  /\ \A f \in IOErrors, code \in ErrorCodes \ {"none"}, flying \in BOOLEAN :
                  FailAt(FailFromIO(pending, f, code, flying)) => Failing
           /\ \A code \in ErrorCodes \ {"none"}, disp \in Dispositions :
                  FailAt(SetPending(pending, code, disp)) => Failing
           /\ \A f \in Faults : Erroneous(f) => f \in IOErrors
           /\ Unwind => Unwinding
<1>1. pending \in Pendings
  BY DEF TypeOK
<1>2. \A f \in Faults : Erroneous(f) => f \in IOErrors
  BY ExecutorAssumption DEF Erroneous
<1>3. ASSUME NEW code \in ErrorCodes \ {"none"}, NEW disp \in Dispositions,
             FailAt(SetPending(pending, code, disp))
      PROVE  Failing
  BY <1>1, <1>3, PendingTypes, PendingWorsens DEF FailAt, Failing
<1>4. ASSUME NEW f \in IOErrors, NEW code \in ErrorCodes \ {"none"},
             NEW flying \in BOOLEAN, FailAt(FailFromIO(pending, f, code, flying))
      PROVE  Failing
  <2>1. DispositionForIO(f, flying) \in Dispositions
    BY IOTypes, <1>1
  <2>2. MapIOError(f, code) \in ErrorCodes \ {"none"}
    BY DEF MapIOError, ErrorCodes, IOErrors
  <2> QED BY <1>3, <1>4, <2>1, <2>2 DEF FailFromIO
<1>5. Unwind => Unwinding
  <2>1. pending.code \in ErrorCodes /\ "transport" \in ErrorCodes
    BY <1>1 DEF Pendings, ErrorCodes
  <2> QED BY <2>1 DEF Unwind, Unwinding
<1> QED BY <1>2, <1>3, <1>4, <1>5

LEMMA CodesNamed ==
    {"openFailed", "busInitFailed", "transport", "contactUnstable",
     "shortTransfer", "disconnected", "writeEnableRejected", "deviceBusy",
     "verifyMismatch", "timeout", "invalid", "cleanupFailed", "evidenceFailed",
     "commandRejected"} \subseteq ErrorCodes \ {"none"}
BY DEF ErrorCodes

LEMMA OpenDeviceCall ==
    ASSUME TypeOK, OpenDevice
    PROVE  /\ pc = "open"
           /\ UNCHANGED <<given, executing, ret, token, chip>>
           /\ \/ /\ pc' = "initialize" /\ ses' = [ses EXCEPT !.opened = TRUE]
                 /\ pending' = [pending EXCEPT !.disp = ddKnownSafe]
                 /\ UNCHANGED <<step, polls, cancelled, history>>
              \/ Failing /\ op' = op
              \/ Unwinding
<1>1. ASSUME NEW f \in Faults, Erroneous(f),
             FailAt(FailFromIO(pending, f, "openFailed", FALSE))
      PROVE  Failing
  BY <1>1, FailureRecorded, CodesNamed
<1> QED BY <1>1, FailureRecorded DEF OpenDevice

LEMMA InitializeBusCall ==
    ASSUME TypeOK, InitializeBus
    PROVE  /\ pc = "initialize"
           /\ UNCHANGED <<given, executing, ret, token, chip>>
           /\ \/ /\ Answers /\ ses' = [ses EXCEPT !.inited = TRUE]
                 /\ \/ req.bind /\ pc' = "preimage"
                    \/ ~req.bind /\ pc' = "loop"
                 /\ UNCHANGED <<pending, step, polls, cancelled, history>>
              \/ Failing /\ op' = op
              \/ Unwinding
<1>1. ASSUME NEW f \in Faults, Erroneous(f),
             FailAt(FailFromIO(pending, f, "busInitFailed", FALSE))
      PROVE  Failing
  BY <1>1, FailureRecorded, CodesNamed
<1>2. FailAt(FailFromIO(pending, "disconnected", "busInitFailed", FALSE)) => Failing
  BY FailureRecorded, CodesNamed DEF IOErrors
<1> QED BY <1>1, <1>2, FailureRecorded DEF InitializeBus

LEMMA ReadPreimageCall ==
    ASSUME TypeOK, ReadPreimage
    PROVE  /\ pc = "preimage"
           /\ UNCHANGED <<given, executing, ret, token, chip>>
           /\ \/ /\ PreimageAgrees /\ pc' = "loop"
                 /\ UNCHANGED <<pending, ses, step, polls, cancelled, history>>
              \/ Failing /\ op' = op
              \/ Unwinding
<1>1. ASSUME NEW f \in Faults, Erroneous(f),
             FailAt(FailFromIO(pending, f, "transport", FALSE))
      PROVE  Failing
  BY <1>1, FailureRecorded, CodesNamed
<1>2. \A code \in {"contactUnstable", "shortTransfer"} :
        FailAt(SetPending(pending, code, ddKnownSafe)) => Failing
  BY FailureRecorded, CodesNamed DEF IOErrors
<1> QED BY <1>1, <1>2, FailureRecorded DEF ReadPreimage

LEMMA WriteEnableCall ==
    ASSUME TypeOK, WriteEnable
    PROVE  /\ pc = "writeEnable"
           /\ UNCHANGED <<given, executing, ret, op, token>>
           /\ chip' \in {chip, WREN(chip)}
           /\ \/ /\ pc' = "checkLatch"
                 /\ UNCHANGED <<pending, ses, step, polls, cancelled, history>>
              \/ Failing
              \/ Unwinding
<1>1. ASSUME NEW f \in Faults, Erroneous(f),
             FailAt(FailFromIO(pending, f, "writeEnableRejected", FALSE))
      PROVE  Failing
  BY <1>1, FailureRecorded, CodesNamed
<1> QED BY <1>1, FailureRecorded DEF WriteEnable

LEMMA CheckLatchCall ==
    ASSUME TypeOK, CheckLatch
    PROVE  /\ pc = "checkLatch"
           /\ UNCHANGED <<given, executing, ret, token, chip>>
           /\ \/ /\ LatchReady /\ pc' = "issue" /\ op' = BeginCritical(op)
                 /\ UNCHANGED <<pending, ses, step, polls, cancelled, history>>
              \/ /\ LatchReady /\ pc' = "quiesce" /\ cancelled' = token
                 /\ ~MayBeginCritical(op, token)
                 /\ UNCHANGED <<op, pending, ses, step, polls, history>>
              \/ Failing /\ op' = op
              \/ Unwinding
<1>1. ASSUME NEW f \in Faults, Erroneous(f),
             FailAt(FailFromIO(pending, f, "writeEnableRejected", FALSE))
      PROVE  Failing
  BY <1>1, FailureRecorded, CodesNamed
<1>2. FailAt(SetPending(pending, "deviceBusy", ddBusyUnknown)) => Failing
  BY FailureRecorded, CodesNamed DEF IOErrors
<1>3. FailAt(SetPending(pending, "writeEnableRejected", ddKnownSafe)) => Failing
  BY FailureRecorded, CodesNamed DEF IOErrors
<1> QED BY <1>1, <1>2, <1>3, FailureRecorded DEF CheckLatch

LEMMA ReopenCall ==
    ASSUME TypeOK, Reopen
    PROVE  /\ pc = "reopen"
           /\ UNCHANGED <<given, executing, ret, op, token, chip>>
           /\ \/ /\ pc' = "reinitialize" /\ ses' = [ses EXCEPT !.opened = TRUE]
                 /\ UNCHANGED <<pending, step, polls, cancelled, history>>
              \/ Failing
              \/ Unwinding
<1>1. ASSUME NEW f \in Faults, Erroneous(f),
             FailAt(FailFromIO(pending, f, "openFailed", FALSE))
      PROVE  Failing
  BY <1>1, FailureRecorded, CodesNamed
<1> QED BY <1>1, FailureRecorded DEF Reopen

LEMMA ReinitializeCall ==
    ASSUME TypeOK, Reinitialize
    PROVE  /\ pc = "reinitialize"
           /\ UNCHANGED <<given, executing, ret, op, token, chip>>
           /\ \/ /\ Answers /\ pc' = "reverify" /\ step' = 1
                 /\ ses' = [ses EXCEPT !.inited = TRUE]
                 /\ UNCHANGED <<pending, polls, cancelled, history>>
              \/ Failing
              \/ Unwinding
<1>1. ASSUME NEW f \in Faults, Erroneous(f),
             FailAt(FailFromIO(pending, f, "busInitFailed", FALSE))
      PROVE  Failing
  BY <1>1, FailureRecorded, CodesNamed
<1> QED BY <1>1, FailureRecorded DEF Reinitialize

LEMMA VerifyStepCall ==
    ASSUME TypeOK, VerifyStep
    PROVE  /\ pc = "verify"
           /\ UNCHANGED <<given, executing, ret, op, token, chip>>
           /\ \/ /\ Matches(chip, Current) /\ step' = step + 1 /\ pc' = "loop"
                 /\ UNCHANGED <<pending, ses, polls, cancelled, history>>
              \/ Failing
              \/ Unwinding
<1>1. ASSUME NEW f \in Faults, Erroneous(f),
             FailAt(FailFromIO(pending, f, "transport", FALSE))
      PROVE  Failing
  BY <1>1, FailureRecorded, CodesNamed
<1>2. \A code \in {"verifyMismatch", "shortTransfer"} :
        FailAt(SetPending(pending, code, ddKnownSafe)) => Failing
  BY FailureRecorded, CodesNamed DEF IOErrors
<1> QED BY <1>1, <1>2, FailureRecorded DEF VerifyStep, VerifyRead

LEMMA FreshVerifyCall ==
    ASSUME TypeOK, FreshVerify
    PROVE  /\ pc = "reverify"
           /\ UNCHANGED <<given, executing, ret, op, token, chip>>
           /\ step <= Len(Steps) /\ ~Destructive(Current)
           /\ \/ /\ Matches(chip, Current) /\ step' = step + 1 /\ pc' = "reverify"
                 /\ UNCHANGED <<pending, ses, polls, cancelled, history>>
              \/ Failing
              \/ Unwinding
<1>1. ASSUME NEW f \in Faults, Erroneous(f),
             FailAt(FailFromIO(pending, f, "transport", FALSE))
      PROVE  Failing
  BY <1>1, FailureRecorded, CodesNamed
<1>2. \A code \in {"verifyMismatch", "shortTransfer"} :
        FailAt(SetPending(pending, code, ddKnownSafe)) => Failing
  BY FailureRecorded, CodesNamed DEF IOErrors
<1> QED BY <1>1, <1>2, FailureRecorded DEF FreshVerify, VerifyRead

(* The command itself, and the wait for the part.                          *)
LEMMA IssueCommandCall ==
    ASSUME TypeOK, IssueCommand
    PROVE  /\ pc = "issue" /\ pc' = "drain" /\ polls' = 0
           /\ UNCHANGED <<given, executing, ret, op, ses, step, cancelled, token,
                          marks, cause>>
           /\ chip' \in {chip, Accept(chip, Current)}
           /\ \/ /\ UNCHANGED pending
                 /\ \E w \in {"worked", "ignored"} : wire' = [wire EXCEPT ![step] = w]
              \/ /\ pending' \in Pendings /\ pending'.code # "none"
                 /\ pending'.disp > ddKnownSafe
                 /\ wire' = [wire EXCEPT ![step] = "doubtful"]
<1>1. ASSUME NEW f \in Faults,
             pending' = FailFromIO(pending, IF f = "raised" THEN "transport" ELSE f,
                                   "commandRejected", TRUE)
      PROVE  /\ pending' \in Pendings /\ pending'.code # "none"
             /\ pending'.disp > ddKnownSafe
  <2> DEFINE e == IF f = "raised" THEN "transport" ELSE f
  <2>1. e \in IOErrors
    BY ExecutorAssumption DEF IOErrors
  <2> HIDE DEF e
  <2>2. /\ MapIOError(e, "commandRejected") \in ErrorCodes \ {"none"}
        /\ DispositionForIO(e, TRUE) \in Dispositions
        /\ DispositionForIO(e, TRUE) > ddKnownSafe
    BY <2>1 DEF MapIOError, ErrorCodes, IOErrors, DispositionForIO
  <2>3. pending \in Pendings
    BY DEF TypeOK
  <2>4. pending' = SetPending(pending, MapIOError(e, "commandRejected"),
                              DispositionForIO(e, TRUE))
    BY <1>1 DEF FailFromIO, e
  <2>5. pending' \in Pendings /\ pending'.code # "none"
        /\ pending'.disp >= DispositionForIO(e, TRUE)
    BY <2>2, <2>3, <2>4, PendingTypes, PendingWorsens
  <2>6. pending'.disp \in Dispositions
    BY <2>5 DEF Pendings
  <2> DEFINE d == DispositionForIO(e, TRUE)
  <2>7. d \in Dispositions /\ d > ddKnownSafe /\ pending'.disp >= d
    BY <2>2, <2>5
  <2> HIDE DEF d
  <2>8. pending'.disp > ddKnownSafe
    BY <2>6, <2>7
  <2> QED BY <2>5, <2>8
<1> QED BY <1>1 DEF IssueCommand

LEMMA DrainCall ==
    ASSUME TypeOK, Drain
    PROVE  /\ pc = "drain"
           /\ UNCHANGED <<given, executing, ret, token, chip>>
           /\ \/ /\ Idle(chip)
                 /\ pending' = Drained(pending) /\ op' = EndCritical(op)
                 /\ \/ pending.code = "none" /\ pc' = "finished"
                    \/ pending.code # "none" /\ pc' = "quiesce"
                 /\ UNCHANGED <<ses, step, polls, cancelled, history>>
              \/ /\ polls + 1 < MaxPolls /\ polls' = polls + 1
                 /\ UNCHANGED <<op, pending, pc, ses, step, cancelled, history>>
              \/ /\ Failing /\ op' = EndCritical(op)
                 /\ pending'.disp > ddKnownSafe
              \/ Unwinding
<1>1. pending \in Pendings
  BY DEF TypeOK
<1>2. ASSUME NEW code \in ErrorCodes \ {"none"}, NEW disp \in Dispositions,
             disp > ddKnownSafe, FailAt(SetPending(pending, code, disp))
      PROVE  Failing /\ pending'.disp > ddKnownSafe
  <2>1. Failing /\ pending'.disp >= disp
    BY <1>1, <1>2, FailureRecorded, PendingWorsens DEF FailAt
  <2>2. pending'.disp \in Dispositions
    BY <2>1 DEF Failing, Pendings
  <2> QED BY <1>2, <2>1, <2>2
<1>3. FailAt(SetPending(pending, "timeout", ddBusyUnknown)) =>
         Failing /\ pending'.disp > ddKnownSafe
  BY <1>2, CodesNamed
<1>4. ASSUME NEW f \in Faults, Erroneous(f),
             FailAt(FailFromIO(pending, f, "transport", TRUE))
      PROVE  Failing /\ pending'.disp > ddKnownSafe
  <2>1. f \in IOErrors
    BY <1>4, FailureRecorded
  <2>2. /\ MapIOError(f, "transport") \in ErrorCodes \ {"none"}
        /\ DispositionForIO(f, TRUE) \in Dispositions
        /\ DispositionForIO(f, TRUE) > ddKnownSafe
    BY <2>1 DEF MapIOError, ErrorCodes, IOErrors, DispositionForIO
  <2> QED BY <1>2, <1>4, <2>2 DEF FailFromIO
<1> QED BY <1>3, <1>4, FailureRecorded DEF Drain, AfterDrain, PollsLeft

(* The calls of PerformCleanup change nothing but the session and, when     *)
(* they fail, what is pending.                                             *)
Noted == \/ UNCHANGED pending
         \/ /\ pending' \in Pendings /\ pending'.code # "none"
            /\ pending.code # "none" => pending'.disp >= pending.disp

LEMMA CleanupCalls ==
    ASSUME TypeOK
    PROVE  /\ WriteDisable =>
                 /\ pc = "writeDisable" /\ pc' = "deinitialize" /\ Noted
                 /\ chip' \in {chip, WRDI(chip)}
                 /\ UNCHANGED <<given, executing, ret, op, ses, step, polls,
                                cancelled, token, history>>
           /\ Deinitialize =>
                 /\ pc = "deinitialize" /\ Noted
                 /\ pc' = (IF ses.opened THEN "close" ELSE ret)
                 /\ ses' = [ses EXCEPT !.inited = FALSE]
                 /\ UNCHANGED <<given, executing, ret, op, step, polls, cancelled,
                                token, chip, history>>
           /\ CloseDevice =>
                 /\ pc = "close" /\ pc' = ret /\ Noted
                 /\ ses' = [ses EXCEPT !.opened = FALSE]
                 /\ UNCHANGED <<given, executing, ret, op, step, polls, cancelled,
                                token, chip, history>>
<1>1. pending \in Pendings
  BY DEF TypeOK
<1>2. ASSUME NEW disp \in Dispositions
      PROVE  pending' = SetPending(pending, "cleanupFailed", disp) => Noted
  <2>1. "cleanupFailed" \in ErrorCodes \ {"none"}
    BY CodesNamed
  <2> DEFINE p == SetPending(pending, "cleanupFailed", disp)
  <2>2. /\ p \in Pendings /\ p.code # "none"
        /\ pending.code # "none" => p.disp >= pending.disp
    BY <1>1, <2>1, PendingTypes, PendingWorsens
  <2> HIDE DEF p
  <2>3. pending' = p => Noted
    BY <2>2 DEF Noted
  <2> QED BY <2>3 DEF p
<1>3. ASSUME NEW f \in Faults
      PROVE  (IF f = "raised" THEN ddModeUnknown
              ELSE DispositionForIO(f, pending.disp = ddBusyUnknown)) \in Dispositions
  BY DEF DispositionForIO
<1>4. pending' \in {pending} \cup
         {SetPending(pending, "cleanupFailed", ddModeUnknown) : f \in Faults}
      => Noted
  BY <1>2 DEF Noted
<1>5. WriteDisable => Noted
  BY <1>2, <1>3 DEF WriteDisable, Noted
<1> QED BY <1>4, <1>5 DEF WriteDisable, Deinitialize, CloseDevice

-----------------------------------------------------------------------------
(* Every call keeps the account of which device and bus it holds.           *)
LEMMA SessionFlagsNext ==
    ASSUME TypeOK, SessionFlags, Next
    PROVE  SessionFlags'
<1> USE DEF TypeOK, SessionFlags, Writing, given, history
<1>1. CASE Begin
  BY <1>1 DEF Begin
<1>2. CASE OpenDevice
  BY <1>2 DEF OpenDevice, FailAt, Unwind
<1>3. CASE InitializeBus
  BY <1>3 DEF InitializeBus, EnterLoop, FailAt, Unwind
<1>4. CASE ReadPreimage
  BY <1>4 DEF ReadPreimage, EnterLoop, FailAt, Unwind
<1>5. CASE NextStep
  BY <1>5 DEF NextStep
<1>6. CASE WriteEnable
  BY <1>6 DEF WriteEnable, FailAt, Unwind
<1>7. CASE CheckLatch
  BY <1>7 DEF CheckLatch, FailAt, Unwind
<1>8. CASE IssueCommand
  BY <1>8 DEF IssueCommand
<1>9. CASE ListenerRaises
  BY <1>9 DEF ListenerRaises, Unwind
<1>10. CASE Drain
  BY <1>10 DEF Drain, AfterDrain, FailAt, Unwind
<1>11. CASE CommandFinished
  BY <1>11 DEF CommandFinished
<1>12. CASE VerifyStep
  BY <1>12 DEF VerifyStep, VerifyRead, FailAt, Unwind
<1>13. CASE FreshVerify
  BY <1>13 DEF FreshVerify, VerifyRead, FailAt, Unwind
<1>14. CASE PhysicallyVerified
  BY <1>14 DEF PhysicallyVerified, Cleanup
<1>15. CASE BeforeFreshSession
  BY <1>15 DEF BeforeFreshSession
<1>16. CASE Reopen
  BY <1>16 DEF Reopen, FailAt, Unwind
<1>17. CASE Reinitialize
  BY <1>17 DEF Reinitialize, FailAt, Unwind
<1>18. CASE FreshLoop
  BY <1>18 DEF FreshLoop
<1>19. CASE Quiesce
  BY <1>19 DEF Quiesce, Cleanup
<1>20. CASE WriteDisable
  BY <1>20 DEF WriteDisable
<1>21. CASE Deinitialize
  BY <1>21 DEF Deinitialize
<1>22. CASE CloseDevice
  BY <1>22 DEF CloseDevice
<1>23. CASE Finish
  BY <1>23 DEF Finish, Terminate
<1>24. CASE CommitEvidence
  BY <1>24 DEF CommitEvidence, Terminate
<1>25. CASE Finally
  BY <1>25 DEF Finally, Cleanup
<1>26. CASE ExceptClause
  BY <1>26 DEF ExceptClause, Terminate
<1>27. CASE ChipSettles
  BY <1>27 DEF ChipSettles
<1>28. CASE RequestCancellation
  BY <1>28 DEF RequestCancellation
<1>29. CASE Over
  BY <1>29 DEF Over, vars
<1> QED BY <1>1, <1>2, <1>3, <1>4, <1>5, <1>6, <1>7, <1>8, <1>9, <1>10, <1>11,
           <1>12, <1>13, <1>14, <1>15, <1>16, <1>17, <1>18, <1>19, <1>20,
           <1>21, <1>22, <1>23, <1>24, <1>25, <1>26, <1>27, <1>28, <1>29
       DEF Next, Worker, Body, Ending

(* A run keeps to itself from its first call to its last.                   *)
LEMMA RunningNext ==
    ASSUME TypeOK, Running, PhaseReached, SessionFlags, Next
    PROVE  Running'
<1> USE DEF Running, Opening, Writing, Proving, Cleaning, given, history
<1>a. op \in Outcomes /\ op.phase \in Phases /\ op.disp \in Dispositions
  BY DEF TypeOK, Outcomes
<1>c. ret \in {"fresh", "finish", "except"}
  BY DEF TypeOK
<1>d. foreign \in BOOLEAN
  BY DEF TypeOK
<1>1. CASE Begin
  <2>1. pc = "start" /\ UNCHANGED given /\ executing = foreign
    BY <1>1 DEF Begin
  <2>2. CASE executing
    <3>1. pc' = "done" /\ IsTerminal(op') /\ executing' /\ ~op'.critical
      BY <1>1, <2>2, BeginOutcome
    <3> QED BY <2>1, <2>2, <3>1
  <2>3. CASE ~executing
    <3>1. pc' \in {"open", "quiesce"} /\ op'.status = "running" /\ executing'
          /\ ~op'.critical
      BY <1>1, <2>3, BeginOutcome
    <3> QED BY <2>1, <2>3, <3>1
  <2> QED BY <2>2, <2>3
<1>2. CASE OpenDevice
  BY <1>2, AdvancingOutcome DEF OpenDevice, FailAt, Unwind, Advancing
<1>3. CASE InitializeBus
  BY <1>3, AdvancingOutcome
     DEF InitializeBus, EnterLoop, FailAt, Unwind, Advancing
<1>4. CASE ReadPreimage
  BY <1>4, AdvancingOutcome
     DEF ReadPreimage, EnterLoop, FailAt, Unwind, Advancing
<1>5. CASE NextStep
  BY <1>5 DEF NextStep
<1>6. CASE WriteEnable
  BY <1>6 DEF WriteEnable, FailAt, Unwind
<1>7. CASE CheckLatch
  BY <1>7, <1>a
     DEF CheckLatch, FailAt, Unwind, MayBeginCritical, BeginCritical, Outcomes
<1>8. CASE IssueCommand
  BY <1>8 DEF IssueCommand
<1>9. CASE ListenerRaises
  BY <1>9 DEF ListenerRaises, Unwind
<1>10. CASE Drain
  BY <1>10, <1>a DEF Drain, AfterDrain, FailAt, Unwind, EndCritical, Outcomes
<1>11. CASE CommandFinished
  BY <1>11 DEF CommandFinished
<1>12. CASE VerifyStep
  BY <1>12 DEF VerifyStep, VerifyRead, FailAt, Unwind
<1>13. CASE FreshVerify
  BY <1>13 DEF FreshVerify, VerifyRead, FailAt, Unwind
<1>14. CASE PhysicallyVerified
  BY <1>14, PhysicalOutcome DEF PhysicallyVerified, Cleanup
<1>15. CASE BeforeFreshSession
  BY <1>15 DEF BeforeFreshSession
<1>16. CASE Reopen
  BY <1>16 DEF Reopen, FailAt, Unwind
<1>17. CASE Reinitialize
  BY <1>17 DEF Reinitialize, FailAt, Unwind
<1>18. CASE FreshLoop
  BY <1>18, <1>a DEF FreshLoop, Outcomes
<1>19. CASE Quiesce
  BY <1>19, AdvancingOutcome DEF Quiesce, Cleanup, Advancing
<1>20. CASE WriteDisable
  BY <1>20 DEF WriteDisable
<1>21. CASE Deinitialize
  BY <1>21, <1>c DEF Deinitialize
<1>22. CASE CloseDevice
  BY <1>22, <1>c DEF CloseDevice
<1>23. CASE Finish
  <2>1. pc = "finish" /\ foreign' = foreign /\ Closing
    BY <1>23 DEF Finish, Closing
  <2>2. op.status = "running" /\ executing /\ foreign = FALSE /\ ~op.critical
    BY <1>d, <2>1
  <2>3. CASE pc' = "commit"
    <3>1. op'.status = "running" /\ executing' = executing /\ op'.critical = op.critical
      BY <2>1, <2>3, ClosingOutcome
    <3> QED BY <2>1, <2>2, <2>3, <3>1
  <2>4. CASE pc' = "done"
    <3>1. IsTerminal(op') /\ executing' = FALSE /\ op'.critical = op.critical
      BY <2>1, <2>4, ClosingOutcome
    <3> QED BY <2>1, <2>2, <2>4, <3>1
  <2>5. pc' \in {"commit", "done"}
    BY <2>1, ClosingOutcome
  <2> QED BY <2>3, <2>4, <2>5
<1>24. CASE CommitEvidence
  <2>1. pc = "commit" /\ foreign' = foreign /\ Closing
    BY <1>24 DEF CommitEvidence, Closing
  <2>2. op.status = "running" /\ executing /\ foreign = FALSE /\ ~op.critical
    BY <1>d, <2>1
  <2>3. CASE pc' = "commit"
    <3>1. op'.status = "running" /\ executing' = executing /\ op'.critical = op.critical
      BY <2>1, <2>3, ClosingOutcome
    <3> QED BY <2>1, <2>2, <2>3, <3>1
  <2>4. CASE pc' = "done"
    <3>1. IsTerminal(op') /\ executing' = FALSE /\ op'.critical = op.critical
      BY <2>1, <2>4, ClosingOutcome
    <3> QED BY <2>1, <2>2, <2>4, <3>1
  <2>5. pc' \in {"commit", "done"}
    BY <2>1, ClosingOutcome
  <2> QED BY <2>3, <2>4, <2>5
<1>25. CASE Finally
  BY <1>25, <1>a DEF Finally, Cleanup, EndCritical, Outcomes
<1>26. CASE ExceptClause
  <2>1. pc = "except" /\ foreign' = foreign /\ Closing
    BY <1>26 DEF ExceptClause, Closing
  <2>2. op.status = "running" /\ executing /\ foreign = FALSE /\ ~op.critical
    BY <1>d, <2>1
  <2>3. CASE pc' = "commit"
    <3>1. op'.status = "running" /\ executing' = executing /\ op'.critical = op.critical
      BY <2>1, <2>3, ClosingOutcome
    <3> QED BY <2>1, <2>2, <2>3, <3>1
  <2>4. CASE pc' = "done"
    <3>1. IsTerminal(op') /\ executing' = FALSE /\ op'.critical = op.critical
      BY <2>1, <2>4, ClosingOutcome
    <3> QED BY <2>1, <2>2, <2>4, <3>1
  <2>5. pc' \in {"commit", "done"}
    BY <2>1, ClosingOutcome
  <2> QED BY <2>3, <2>4, <2>5
<1>27. CASE ChipSettles
  BY <1>27 DEF ChipSettles
<1>28. CASE RequestCancellation
  BY <1>28 DEF RequestCancellation
<1>29. CASE Over
  BY <1>29 DEF Over, vars
<1> QED BY <1>1, <1>2, <1>3, <1>4, <1>5, <1>6, <1>7, <1>8, <1>9, <1>10, <1>11,
           <1>12, <1>13, <1>14, <1>15, <1>16, <1>17, <1>18, <1>19, <1>20,
           <1>21, <1>22, <1>23, <1>24, <1>25, <1>26, <1>27, <1>28, <1>29
       DEF Next, Worker, Body, Ending

(* The phase follows the calls, always forward.                            *)
LEMMA PhaseReachedNext ==
    ASSUME TypeOK, Running, PhaseReached, Next
    PROVE  PhaseReached'
<1> USE DEF PhaseReached, Opening, Writing, Proving, Cleaning, given, history
<1>a. op \in Outcomes /\ op.phase \in Phases /\ op.disp \in Dispositions
  BY DEF TypeOK, Outcomes
<1>c. ret \in {"fresh", "finish", "except"}
  BY DEF TypeOK
<1>1. CASE Begin
  <2>1. \/ pc' = "open" /\ op'.phase = opOpening
        \/ pc' = "quiesce" /\ op'.phase = opValidating
        \/ pc' = "done"
    BY <1>1, BeginOutcome
  <2> QED BY <2>1
<1>2. CASE OpenDevice
  <2>1. \/ op' = op /\ pc' \in {"quiesce", "unwind"}
        \/ op'.phase = opInitializingBus /\ pc' = "initialize"
    BY <1>2, AdvancingOutcome DEF Advancing
  <2>2. pc = "open" /\ ret' = ret
    BY <1>2 DEF OpenDevice
  <2> QED BY <2>1, <2>2
<1>3. CASE InitializeBus
  <2>1. \/ op' = op /\ pc' \in {"quiesce", "unwind"}
        \/ op'.phase = opCheckingContact /\ pc' = "preimage"
        \/ op'.phase = opExecuting /\ pc' = "loop"
    BY <1>3, AdvancingOutcome DEF Advancing
  <2>2. pc = "initialize" /\ ret' = ret
    BY <1>3 DEF InitializeBus
  <2> QED BY <2>1, <2>2
<1>4. CASE ReadPreimage
  <2>1. \/ op' = op /\ pc' \in {"quiesce", "unwind"}
        \/ op'.phase = opExecuting /\ pc' = "loop"
    BY <1>4, AdvancingOutcome DEF Advancing
  <2>2. pc = "preimage" /\ ret' = ret
    BY <1>4 DEF ReadPreimage
  <2> QED BY <2>1, <2>2
<1>5. CASE NextStep
  BY <1>5 DEF NextStep
<1>6. CASE WriteEnable
  BY <1>6, WriteEnableCall DEF Failing, Unwinding
<1>7. CASE CheckLatch
  BY <1>7, CheckLatchCall, <1>a
     DEF Failing, Unwinding, BeginCritical, Outcomes
<1>8. CASE IssueCommand
  BY <1>8, IssueCommandCall
<1>9. CASE ListenerRaises
  BY <1>9 DEF ListenerRaises, Unwind
<1>10. CASE Drain
  BY <1>10, DrainCall, <1>a DEF Failing, Unwinding, EndCritical, Outcomes
<1>11. CASE CommandFinished
  BY <1>11 DEF CommandFinished
<1>12. CASE VerifyStep
  BY <1>12, VerifyStepCall DEF Failing, Unwinding
<1>13. CASE FreshVerify
  BY <1>13, FreshVerifyCall DEF Failing, Unwinding
<1>14. CASE PhysicallyVerified
  <2>1. op'.phase = opVerifying
    BY <1>14, PhysicalOutcome
  <2>2. ret' = "fresh" /\ pc' \in Cleaning \cup {"fresh"}
    BY <1>14 DEF PhysicallyVerified, Cleanup
  <2> QED BY <2>1, <2>2
<1>15. CASE BeforeFreshSession
  BY <1>15 DEF BeforeFreshSession
<1>16. CASE Reopen
  BY <1>16, ReopenCall DEF Failing, Unwinding
<1>17. CASE Reinitialize
  BY <1>17, ReinitializeCall DEF Failing, Unwinding
<1>18. CASE FreshLoop
  BY <1>18, <1>a DEF FreshLoop, Outcomes
<1>19. CASE Quiesce
  <2>1. op'.phase = opQuiescing
    BY <1>19, AdvancingOutcome DEF Advancing
  <2>2. ret' = "finish" /\ pc' \in Cleaning \cup {"finish"}
    BY <1>19 DEF Quiesce, Cleanup
  <2> QED BY <2>1, <2>2
<1>20. CASE WriteDisable
  BY <1>20, <1>c, CleanupCalls DEF Noted
<1>21. CASE Deinitialize
  BY <1>21, <1>c, CleanupCalls DEF Noted
<1>22. CASE CloseDevice
  BY <1>22, <1>c, CleanupCalls DEF Noted
<1>23. CASE Finish
  <2>1. \/ pc' = "commit" /\ op'.phase = opCommittingEvidence
        \/ pc' = "done"
    BY <1>23, ClosingOutcome DEF Closing
  <2> QED BY <2>1
<1>24. CASE CommitEvidence
  <2>1. \/ pc' = "commit" /\ op'.phase = opCommittingEvidence
        \/ pc' = "done"
    BY <1>24, ClosingOutcome DEF Closing
  <2> QED BY <2>1
<1>25. CASE Finally
  BY <1>25, <1>a DEF Finally, Cleanup, EndCritical, Outcomes
<1>26. CASE ExceptClause
  <2>1. \/ pc' = "commit" /\ op'.phase = opCommittingEvidence
        \/ pc' = "done"
    BY <1>26, ClosingOutcome DEF Closing
  <2> QED BY <2>1
<1>27. CASE ChipSettles
  BY <1>27 DEF ChipSettles
<1>28. CASE RequestCancellation
  BY <1>28 DEF RequestCancellation
<1>29. CASE Over
  BY <1>29 DEF Over, vars
<1> QED BY <1>1, <1>2, <1>3, <1>4, <1>5, <1>6, <1>7, <1>8, <1>9, <1>10, <1>11,
           <1>12, <1>13, <1>14, <1>15, <1>16, <1>17, <1>18, <1>19, <1>20,
           <1>21, <1>22, <1>23, <1>24, <1>25, <1>26, <1>27, <1>28, <1>29
       DEF Next, Worker, Body, Ending

(* A failure or a cancellation leads out of the body.                      *)
LEMMA UnspoiledNext ==
    ASSUME TypeOK, Running, PhaseReached, Unspoiled, Next
    PROVE  Unspoiled'
<1> USE DEF Unspoiled, Opening, Writing, Proving, Cleaning, given, history
<1>b. pending \in Pendings /\ pending.code \in ErrorCodes
      /\ pending.disp \in Dispositions
  BY DEF TypeOK, Pendings
<1>c. ret \in {"fresh", "finish", "except"}
  BY DEF TypeOK
<1>d. cancelled \in BOOLEAN /\ token \in BOOLEAN
  BY DEF TypeOK
<1>1. CASE Begin
  <2>1. pc = "start" /\ cancelled' = cancelled /\ ~cancelled
        /\ pending.code = "none"
    BY <1>1 DEF Begin
  <2>2. \/ pc' \in {"quiesce", "done"}
        \/ pc' = "open" /\ pending' = pending
    BY <1>1, BeginOutcome
  <2> QED BY <2>1, <2>2
<1>2. CASE OpenDevice
  BY <1>2, OpenDeviceCall, <1>b DEF Failing, Unwinding, Pendings
<1>3. CASE InitializeBus
  BY <1>3, InitializeBusCall DEF Failing, Unwinding
<1>4. CASE ReadPreimage
  BY <1>4, ReadPreimageCall DEF Failing, Unwinding
<1>5. CASE NextStep
  BY <1>5 DEF NextStep
<1>6. CASE WriteEnable
  BY <1>6, WriteEnableCall DEF Failing, Unwinding
<1>7. CASE CheckLatch
  BY <1>7, CheckLatchCall, <1>d DEF Failing, Unwinding
<1>8. CASE IssueCommand
  BY <1>8, IssueCommandCall
<1>9. CASE ListenerRaises
  BY <1>9 DEF ListenerRaises, Unwind
<1>10. CASE Drain
  BY <1>10, DrainCall, <1>b DEF Failing, Unwinding, Drained, Pendings
<1>11. CASE CommandFinished
  BY <1>11 DEF CommandFinished
<1>12. CASE VerifyStep
  BY <1>12, VerifyStepCall DEF Failing, Unwinding
<1>13. CASE FreshVerify
  BY <1>13, FreshVerifyCall DEF Failing, Unwinding
<1>14. CASE PhysicallyVerified
  BY <1>14 DEF PhysicallyVerified, Cleanup
<1>15. CASE BeforeFreshSession
  BY <1>15 DEF BeforeFreshSession
<1>16. CASE Reopen
  BY <1>16, ReopenCall DEF Failing, Unwinding
<1>17. CASE Reinitialize
  BY <1>17, ReinitializeCall DEF Failing, Unwinding
<1>18. CASE FreshLoop
  BY <1>18 DEF FreshLoop
<1>19. CASE Quiesce
  BY <1>19 DEF Quiesce, Cleanup
<1>20. CASE WriteDisable
  BY <1>20, <1>c, CleanupCalls DEF Noted
<1>21. CASE Deinitialize
  BY <1>21, <1>c, CleanupCalls DEF Noted
<1>22. CASE CloseDevice
  BY <1>22, <1>c, CleanupCalls DEF Noted
<1>23. CASE Finish
  <2>1. \/ /\ pc' = "commit" /\ pending' = pending
           /\ pending.code = "none" /\ ~cancelled
        \/ pc' = "done"
    BY <1>23, ClosingOutcome DEF Closing
  <2>2. cancelled' = cancelled
    BY <1>23 DEF Finish
  <2> QED BY <2>1, <2>2
<1>24. CASE CommitEvidence
  <2>1. \/ /\ pc' = "commit" /\ pending' = pending
           /\ pending.code = "none" /\ ~cancelled
        \/ pc' = "done"
    BY <1>24, ClosingOutcome DEF Closing
  <2>2. cancelled' = cancelled
    BY <1>24 DEF CommitEvidence
  <2> QED BY <2>1, <2>2
<1>25. CASE Finally
  BY <1>25 DEF Finally, Cleanup
<1>26. CASE ExceptClause
  <2>1. \/ /\ pc' = "commit" /\ pending' = pending
           /\ pending.code = "none" /\ ~cancelled
        \/ pc' = "done"
    BY <1>26, ClosingOutcome DEF Closing
  <2>2. cancelled' = cancelled
    BY <1>26 DEF ExceptClause
  <2> QED BY <2>1, <2>2
<1>27. CASE ChipSettles
  BY <1>27 DEF ChipSettles
<1>28. CASE RequestCancellation
  BY <1>28 DEF RequestCancellation
<1>29. CASE Over
  BY <1>29 DEF Over, vars
<1> QED BY <1>1, <1>2, <1>3, <1>4, <1>5, <1>6, <1>7, <1>8, <1>9, <1>10, <1>11,
           <1>12, <1>13, <1>14, <1>15, <1>16, <1>17, <1>18, <1>19, <1>20,
           <1>21, <1>22, <1>23, <1>24, <1>25, <1>26, <1>27, <1>28, <1>29
       DEF Next, Worker, Body, Ending

-----------------------------------------------------------------------------
(* The part is at rest where the run counts on it, and known not to be      *)
(* elsewhere.                                                              *)
LEMMA AtRestNext ==
    ASSUME TypeOK, Running, PhaseReached, Unspoiled, AtRest, Bookkeeping,
           Verified, Next
    PROVE  AtRest'
<1> USE DEF Sure, Opening, Writing, Proving, Cleaning, given, history
<1>b. op \in Outcomes /\ pending \in Pendings /\ chip \in Chips
  BY DEF TypeOK
<1>c. ret \in {"fresh", "finish", "except"}
  BY DEF TypeOK
<1>d. pc \in {"start"} \cup Opening => ~Issued
  BY DEF Bookkeeping, Issued, Steps, TypeOK
<1>e. Issued /\ ~Idle(chip) =>
         pc \in Cleaning \cup {"drain", "quiesce", "finish", "except",
                            "unwind", "done"}
  BY <1>d DEF TypeOK, Locations, Calls, AtRest
<1>f. UNCHANGED <<req, wire>> => (Issued' <=> Issued)
  BY DEF Issued, Steps
<1>g. /\ Idle(WRDI(chip)) <=> Idle(chip)
      /\ Idle(WREN(chip)) <=> Idle(chip)
  BY <1>b DEF WRDI, WREN, Idle, Chips
<1>1. CASE Begin
  <2>1. /\ Issued' <=> Issued
        /\ Idle(chip') <=> Idle(chip)
    BY <1>1, <1>f, <1>g DEF Begin
  <2>2. /\ pc = "start" /\ pc' \in {"open", "quiesce", "done"} /\ ret' = ret
        /\ ~op'.physical /\ op'.status # "cancelled"
        /\ pc' = "quiesce" => pending'.code # "none"
    <3>1. pc = "start" /\ ret' = ret /\ pending = NoPending
      BY <1>1 DEF Begin, Running
    <3>2. InvalidCode \in {"none", "invalid"}
      BY DEF InvalidCode
    <3>3. SetPending(NoPending, "invalid", ddNotOpened).code # "none"
      BY DEF SetPending, NoPending
    <3> QED BY <1>1, <3>1, <3>2, <3>3, BeginOutcome
  <2> QED BY <1>d, <2>1, <2>2 DEF AtRest
<1>2. CASE OpenDevice
  <2>1. /\ Issued' <=> Issued
        /\ Issued => Idle(chip)
        /\ Idle(chip') <=> Idle(chip)
    <3>1. UNCHANGED <<req, wire>>
      BY <1>2, OpenDeviceCall DEF Failing, Unwinding
    <3> QED BY <1>2, <3>1, OpenDeviceCall, <1>e, <1>f
  <2>2. op'.status = "running" /\ (op'.physical <=> op.physical)
    BY <1>2, AdvancingOutcome DEF Advancing
  <2> QED BY <1>2, <2>1, <2>2, <1>d, OpenDeviceCall
       DEF AtRest, Failing, Unwinding
<1>3. CASE InitializeBus
  <2>1. /\ Issued' <=> Issued
        /\ Issued => Idle(chip)
        /\ Idle(chip') <=> Idle(chip)
    <3>1. UNCHANGED <<req, wire>>
      BY <1>3, InitializeBusCall DEF Failing, Unwinding
    <3> QED BY <1>3, <3>1, InitializeBusCall, <1>e, <1>f
  <2>2. op'.status = "running" /\ (op'.physical <=> op.physical)
    BY <1>3, AdvancingOutcome DEF Advancing
  <2> QED BY <1>3, <2>1, <2>2, <1>d, InitializeBusCall
       DEF AtRest, Failing, Unwinding, Answers
<1>4. CASE ReadPreimage
  <2>1. /\ Issued' <=> Issued
        /\ Issued => Idle(chip)
        /\ Idle(chip') <=> Idle(chip)
    <3>1. UNCHANGED <<req, wire>>
      BY <1>4, ReadPreimageCall DEF Failing, Unwinding
    <3> QED BY <1>4, <3>1, ReadPreimageCall, <1>e, <1>f
  <2>2. op'.status = "running" /\ (op'.physical <=> op.physical)
    BY <1>4, AdvancingOutcome DEF Advancing
  <2> QED BY <1>4, <2>1, <2>2, <1>d, ReadPreimageCall
       DEF AtRest, Failing, Unwinding
<1>5. CASE NextStep
  <2>1. /\ Issued' <=> Issued
        /\ Idle(chip') <=> Idle(chip)
    BY <1>5, <1>f DEF NextStep
  <2> QED BY <1>5, <2>1, <1>e DEF AtRest, NextStep
<1>6. CASE WriteEnable
  <2>1. /\ Issued' <=> Issued
        /\ Issued => Idle(chip)
        /\ Idle(chip') <=> Idle(chip)
    BY <1>6, WriteEnableCall, <1>e, <1>f, <1>g DEF Failing, Unwinding
  <2> QED BY <1>6, <2>1, WriteEnableCall
       DEF AtRest, Failing, Unwinding
<1>7. CASE CheckLatch
  <2>1. /\ Issued' <=> Issued
        /\ Issued => Idle(chip)
        /\ Idle(chip') <=> Idle(chip)
    <3>1. UNCHANGED <<req, wire>>
      BY <1>7, CheckLatchCall DEF Failing, Unwinding
    <3> QED BY <1>7, <3>1, CheckLatchCall, <1>e, <1>f
  <2>2. op'.status = op.status /\ op'.physical = op.physical
    BY <1>7, <1>b, CheckLatchCall DEF BeginCritical, Outcomes, Unwinding
  <2>3. chip' = chip /\ ret' = ret /\ pc = "checkLatch"
    BY <1>7, CheckLatchCall
  <2>4. \/ Idle(chip) /\ chip.wel /\ pc' = "issue"
        \/ Idle(chip) /\ pc' = "quiesce"
        \/ pc' = "quiesce" /\ pending'.code # "none"
        \/ pc' = "unwind"
    BY <1>7, CheckLatchCall DEF LatchReady, Failing, Unwinding
  <2> QED BY <2>1, <2>2, <2>3, <2>4 DEF AtRest
<1>8. CASE IssueCommand
  <2>1. pc = "issue" /\ pc' = "drain" /\ op' = op
    BY <1>8, IssueCommandCall
  <2>2. op.status = "running" /\ ~op.physical
    BY <2>1 DEF Running, Verified
  <2> QED BY <2>1, <2>2 DEF AtRest
<1>9. CASE ListenerRaises
  <2>1. /\ Issued' <=> Issued
        /\ Idle(chip') <=> Idle(chip)
    BY <1>9, <1>f DEF ListenerRaises, Unwind
  <2> QED BY <1>9, <2>1, <1>e DEF AtRest, ListenerRaises, Unwind
<1>10. CASE Drain
  <2>1. pc = "drain" /\ UNCHANGED <<req, wire, chip, ret>>
    BY <1>10, DrainCall DEF Failing, Unwinding
  <2>2. /\ Issued' <=> Issued
        /\ Idle(chip') <=> Idle(chip)
    BY <2>1, <1>f
  <2>3. op.status = "running" /\ ~op.physical /\ op.critical
    BY <2>1 DEF Running, Verified
  <2>4. op'.status = "running" /\ ~op'.physical
    BY <1>10, <1>b, <2>3, DrainCall DEF EndCritical, Outcomes, Unwinding
  <2>5. \/ Idle(chip) /\ pc' \in {"finished", "quiesce"}
        \/ pc' = "drain"
        \/ pc' = "quiesce" /\ pending'.code # "none" /\ pending'.disp > ddKnownSafe
        \/ pc' = "unwind" /\ op' = op /\ pending' = pending
    BY <1>10, <2>1, DrainCall DEF Failing, Unwinding
  <2> QED BY <2>1, <2>2, <2>3, <2>4, <2>5 DEF AtRest, Unspoiled
<1>11. CASE CommandFinished
  <2>1. /\ Issued' <=> Issued
        /\ Idle(chip') <=> Idle(chip)
    BY <1>11, <1>f DEF CommandFinished
  <2> QED BY <1>11, <2>1, <1>e DEF AtRest, CommandFinished
<1>12. CASE VerifyStep
  <2>1. /\ Issued' <=> Issued
        /\ Issued => Idle(chip)
        /\ Idle(chip') <=> Idle(chip)
    BY <1>12, VerifyStepCall, <1>e, <1>f, <1>g DEF Failing, Unwinding
  <2> QED BY <1>12, <2>1, VerifyStepCall
       DEF AtRest, Failing, Unwinding
<1>13. CASE FreshVerify
  <2>1. /\ Issued' <=> Issued
        /\ Issued => Idle(chip)
        /\ Idle(chip') <=> Idle(chip)
    BY <1>13, FreshVerifyCall, <1>e, <1>f, <1>g DEF Failing, Unwinding
  <2> QED BY <1>13, <2>1, FreshVerifyCall
       DEF AtRest, Failing, Unwinding
<1>14. CASE PhysicallyVerified
  <2>1. /\ Issued' <=> Issued
        /\ Idle(chip') <=> Idle(chip)
    BY <1>14, <1>f DEF PhysicallyVerified, Cleanup
  <2> QED BY <1>14, <2>1, <1>e DEF AtRest, PhysicallyVerified, Cleanup
<1>15. CASE BeforeFreshSession
  <2>1. /\ Issued' <=> Issued
        /\ Idle(chip') <=> Idle(chip)
    BY <1>15, <1>f DEF BeforeFreshSession
  <2> QED BY <1>15, <2>1, <1>e DEF AtRest, BeforeFreshSession
<1>16. CASE Reopen
  <2>1. /\ Issued' <=> Issued
        /\ Issued => Idle(chip)
        /\ Idle(chip') <=> Idle(chip)
    BY <1>16, ReopenCall, <1>e, <1>f, <1>g DEF Failing, Unwinding
  <2> QED BY <1>16, <2>1, ReopenCall
       DEF AtRest, Failing, Unwinding
<1>17. CASE Reinitialize
  <2>1. /\ Issued' <=> Issued
        /\ Issued => Idle(chip)
        /\ Idle(chip') <=> Idle(chip)
    BY <1>17, ReinitializeCall, <1>e, <1>f, <1>g DEF Failing, Unwinding
  <2> QED BY <1>17, <2>1, ReinitializeCall
       DEF AtRest, Failing, Unwinding
<1>18. CASE FreshLoop
  <2>1. /\ Issued' <=> Issued
        /\ Idle(chip') <=> Idle(chip)
    BY <1>18, <1>f DEF FreshLoop
  <2> QED BY <1>18, <2>1, <1>e, <1>b DEF AtRest, FreshLoop
<1>19. CASE Quiesce
  <2>1. /\ Issued' <=> Issued
        /\ Idle(chip') <=> Idle(chip)
    BY <1>19, <1>f, <1>g DEF Quiesce, Cleanup
  <2>2. op'.status = "running" /\ (op'.physical <=> op.physical)
    BY <1>19, AdvancingOutcome DEF Advancing
  <2>3. /\ pc = "quiesce" /\ ret' = "finish" /\ pending' = pending
        /\ pc' \in {"writeDisable", "close", "finish"}
    BY <1>19 DEF Quiesce, Cleanup
  <2> QED BY <2>1, <2>2, <2>3 DEF AtRest
<1>20. CASE WriteDisable
  <2>1. /\ Issued' <=> Issued
        /\ Idle(chip') <=> Idle(chip)
    BY <1>20, CleanupCalls, <1>f, <1>g
  <2>2. /\ pc = "writeDisable" /\ pc' \in {"deinitialize", "close", ret}
        /\ op' = op /\ ret' = ret
    BY <1>20, CleanupCalls
  <2>3. /\ pending'.code = "none" => pending.code = "none"
        /\ pending.code # "none" /\ pending.disp > ddKnownSafe
              => pending'.code # "none" /\ pending'.disp > ddKnownSafe
    BY <1>20, <1>b, CleanupCalls DEF Noted, Pendings
  <2>4. op.status = "running"
    BY <2>2 DEF Running
  <2>5. ret = "fresh" => op.physical
    BY <2>2 DEF Verified
  <2> QED BY <1>c, <2>1, <2>2, <2>3, <2>4, <2>5 DEF AtRest
<1>21. CASE Deinitialize
  <2>1. /\ Issued' <=> Issued
        /\ Idle(chip') <=> Idle(chip)
    BY <1>21, CleanupCalls, <1>f, <1>g
  <2>2. /\ pc = "deinitialize" /\ pc' \in {"deinitialize", "close", ret}
        /\ op' = op /\ ret' = ret
    BY <1>21, CleanupCalls
  <2>3. /\ pending'.code = "none" => pending.code = "none"
        /\ pending.code # "none" /\ pending.disp > ddKnownSafe
              => pending'.code # "none" /\ pending'.disp > ddKnownSafe
    BY <1>21, <1>b, CleanupCalls DEF Noted, Pendings
  <2>4. op.status = "running"
    BY <2>2 DEF Running
  <2>5. ret = "fresh" => op.physical
    BY <2>2 DEF Verified
  <2> QED BY <1>c, <2>1, <2>2, <2>3, <2>4, <2>5 DEF AtRest
<1>22. CASE CloseDevice
  <2>1. /\ Issued' <=> Issued
        /\ Idle(chip') <=> Idle(chip)
    BY <1>22, CleanupCalls, <1>f, <1>g
  <2>2. /\ pc = "close" /\ pc' \in {"deinitialize", "close", ret}
        /\ op' = op /\ ret' = ret
    BY <1>22, CleanupCalls
  <2>3. /\ pending'.code = "none" => pending.code = "none"
        /\ pending.code # "none" /\ pending.disp > ddKnownSafe
              => pending'.code # "none" /\ pending'.disp > ddKnownSafe
    BY <1>22, <1>b, CleanupCalls DEF Noted, Pendings
  <2>4. op.status = "running"
    BY <2>2 DEF Running
  <2>5. ret = "fresh" => op.physical
    BY <2>2 DEF Verified
  <2> QED BY <1>c, <2>1, <2>2, <2>3, <2>4, <2>5 DEF AtRest
<1>23. CASE Finish
  <2>1. /\ Issued' <=> Issued
        /\ Idle(chip') <=> Idle(chip)
    BY <1>23, <1>f, <1>g DEF Finish
  <2>2. pc = "finish" /\ ret' = ret
    BY <1>23 DEF Finish
  <2>3. op'.physical = op.physical
    BY <1>23, ClosingOutcome DEF Closing
  <2>4. \/ pc' = "commit" /\ pending.code = "none" /\ op'.status = "running"
        \/ pc' = "done" /\ pending.code = "none" /\ op'.status # "failed"
        \/ pc' = "done" /\ op'.status = "failed" /\ op'.disp = pending.disp
           /\ pending' = pending
    BY <1>23, <2>2, ClosingOutcome DEF Closing
  <2> QED BY <2>1, <2>2, <2>3, <2>4 DEF AtRest
<1>24. CASE CommitEvidence
  <2>1. /\ Issued' <=> Issued
        /\ Idle(chip') <=> Idle(chip)
    BY <1>24, <1>f, <1>g DEF CommitEvidence
  <2>2. pc = "commit" /\ ret' = ret
    BY <1>24 DEF CommitEvidence
  <2>3. op'.physical = op.physical
    BY <1>24, ClosingOutcome DEF Closing
  <2>4. pc' = "done" /\ op'.status # "cancelled"
    BY <1>24, <2>2, ClosingOutcome DEF Closing
  <2> QED BY <2>1, <2>2, <2>3, <2>4 DEF AtRest
<1>25. CASE Finally
  <2>1. /\ Issued' <=> Issued
        /\ Idle(chip') <=> Idle(chip)
    BY <1>25, <1>f, <1>g DEF Finally
  <2>2. op'.status = op.status /\ op'.physical = op.physical
    BY <1>25, <1>b DEF Finally, EndCritical, Outcomes
  <2>3. /\ pc = "unwind" /\ ret' = "except"
        /\ pc' \in {"writeDisable", "close", "except"}
    BY <1>25 DEF Finally, Cleanup
  <2>4. op.critical /\ (pending.code # "none" => pending.disp > ddKnownSafe)
           => pending'.code # "none" /\ pending'.disp > ddKnownSafe
    BY <1>25 DEF Finally, SetPending
  <2> QED BY <2>1, <2>2, <2>3, <2>4 DEF AtRest
<1>26. CASE ExceptClause
  <2>1. /\ Issued' <=> Issued
        /\ Idle(chip') <=> Idle(chip)
    BY <1>26, <1>f, <1>g DEF ExceptClause
  <2>2. pc = "except" /\ ret' = ret
    BY <1>26 DEF ExceptClause
  <2>3. op'.physical = op.physical
    BY <1>26, ClosingOutcome DEF Closing
  <2>4. /\ pc' = "done" /\ op'.status = "failed" /\ op'.disp = pending'.disp
        /\ pending.code # "none" => pending' = pending
    BY <1>26, <2>2, ClosingOutcome DEF Closing
  <2> QED BY <2>1, <2>2, <2>3, <2>4 DEF AtRest
<1>27. CASE ChipSettles
  <2>1. Idle(chip') /\ UNCHANGED <<req, wire, pc, ret, op, pending>>
    BY <1>27 DEF ChipSettles, Idle, Settle
  <2>2. ~Idle(chip)
    BY <1>27 DEF ChipSettles
  <2> QED BY <1>f, <2>1, <2>2 DEF AtRest
<1>28. CASE RequestCancellation
  <2>1. /\ Issued' <=> Issued
        /\ Idle(chip') <=> Idle(chip)
    BY <1>28, <1>f DEF RequestCancellation
  <2> QED BY <1>28, <2>1, <1>e DEF AtRest, RequestCancellation
<1>29. CASE Over
  <2>1. /\ Issued' <=> Issued
        /\ Idle(chip') <=> Idle(chip)
    BY <1>29, <1>f DEF Over, vars
  <2> QED BY <1>29, <2>1, <1>e DEF AtRest, Over, vars
<1> QED BY <1>1, <1>2, <1>3, <1>4, <1>5, <1>6, <1>7, <1>8, <1>9, <1>10, <1>11,
           <1>12, <1>13, <1>14, <1>15, <1>16, <1>17, <1>18, <1>19, <1>20,
           <1>21, <1>22, <1>23, <1>24, <1>25, <1>26, <1>27, <1>28, <1>29
       DEF Next, Worker, Body, Ending

-----------------------------------------------------------------------------
(* What has been sent and announced changes in few places; these three      *)
(* facts cover the others.                                                 *)
Inside == {"start"} \cup Opening \cup Writing

LEMMA PlanShape ==
    ASSUME TypeOK
    PROVE  /\ Steps \in Seq(Step) /\ Len(Steps) \in Nat
           /\ DOMAIN Steps = 1 .. Len(Steps)
           /\ step \in 1 .. Len(Steps) + 1 /\ step \in Nat /\ step >= 1
           /\ req' = req => Steps' = Steps
<1>1. req \in RequestShape
  BY ExecutorAssumption DEF TypeOK
<1>2. Steps \in Seq(Step)
  BY <1>1 DEF RequestShape, Steps
<1> QED BY <1>2 DEF TypeOK, Steps

LEMMA BookkeepingOutside ==
    ASSUME TypeOK, Bookkeeping, UNCHANGED <<req, wire, marks>>,
           op'.physical => op.physical, pc' \notin Inside
    PROVE  Bookkeeping'
<1>1. Steps' = Steps
  BY DEF Steps
<1>2. MarksAreDone'
  BY <1>1 DEF Bookkeeping, MarksAreDone
<1> QED BY <1>1, <1>2 DEF Bookkeeping, Inside, Opening, Writing

LEMMA BookkeepingKept ==
    ASSUME TypeOK, Bookkeeping, UNCHANGED <<req, wire, marks, step, pending, pc>>,
           op'.physical => op.physical
    PROVE  Bookkeeping'
<1>1. Steps' = Steps
  BY DEF Steps
<1>2. MarksAreDone'
  BY <1>1 DEF Bookkeeping, MarksAreDone
<1>3. Current' = Current /\ \A n : DestructiveBefore(n)' = DestructiveBefore(n)
  BY <1>1 DEF Current, DestructiveBefore
<1> QED BY <1>1, <1>2, <1>3 DEF Bookkeeping, DestructiveBefore

LEMMA BookkeepingInside ==
    ASSUME TypeOK, Bookkeeping, UNCHANGED <<req, wire, marks, step>>,
           op'.physical => op.physical,
           pc \in Inside \ {"drain", "finished"},
           pc' \in Inside \ {"start", "drain", "finished"},
           pc' \in Opening => pc \in {"start"} \cup Opening,
           pc' \in {"writeEnable", "checkLatch", "issue"} =>
                 step \in DOMAIN Steps /\ Destructive(Current),
           pc' = "verify" => step \in DOMAIN Steps /\ ~Destructive(Current),
           pc' = "verified" => step > Len(Steps)
    PROVE  Bookkeeping'
<1>1. Steps' = Steps /\ Current' = Current
  BY DEF Steps, Current
<1>2. MarksAreDone'
  BY <1>1 DEF Bookkeeping, MarksAreDone
<1>3. pc' \in {"start"} \cup Opening => step' = 1
  BY DEF Bookkeeping, Inside
<1>4. /\ \A i \in DOMAIN Steps : i >= step => wire[i] = "none"
      /\ marks = DestructiveBefore(step)
  BY DEF Bookkeeping, Inside, Opening, Writing
<1>5. marks' = DestructiveBefore(step)'
  BY <1>1, <1>4 DEF DestructiveBefore
<1>6. (op.physical => \A i \in DOMAIN Steps : Destructive(Steps[i]) => i \in marks)'
  BY <1>1 DEF Bookkeeping
<1> HIDE DEF Steps, Current
<1> QED BY <1>1, <1>2, <1>3, <1>4, <1>5, <1>6
       DEF Bookkeeping, Inside, Opening, Writing

(* A step goes out once, in order, and is announced when its call is known   *)
(* to have succeeded.                                                      *)
LEMMA BookkeepingNext ==
    ASSUME TypeOK, Running, PhaseReached, Unspoiled, Bookkeeping, Verified,
           Next
    PROVE  Bookkeeping'
<1>b. op \in Outcomes /\ ret \in {"fresh", "finish", "except"}
  BY DEF TypeOK
<1>1. CASE Begin
  <2>1. pc = "start" /\ UNCHANGED <<req, wire, marks, step>> /\ ~op'.physical
    BY <1>1, BeginOutcome DEF Begin, given, history
  <2>2. pc' \in {"open", "quiesce", "done"}
    BY <1>1, BeginOutcome
  <2>3. CASE pc' = "open"
    BY <2>1, <2>3, BookkeepingInside DEF Inside, Opening
  <2>4. CASE pc' # "open"
    BY <2>1, <2>2, <2>4, BookkeepingOutside DEF Inside, Opening, Writing
  <2> QED BY <2>3, <2>4
<1>2. CASE OpenDevice
  <2>1. pc = "open" /\ (op'.physical => op.physical)
    BY <1>2, OpenDeviceCall, AdvancingOutcome DEF Advancing
  <2>2. \/ pc' \in {"initialize"} /\ UNCHANGED <<req, wire, marks, step>>
        \/ pc' \notin Inside /\ UNCHANGED <<req, wire, marks>>
    BY <1>2, OpenDeviceCall DEF Failing, Unwinding, given, history, Inside, Opening, Writing
  <2>3. CASE pc' \notin Inside
    BY <2>1, <2>2, <2>3, BookkeepingOutside DEF Inside, Opening, Writing
  <2>4. CASE pc' \in Inside
    <3>1. pc' \in {"initialize"} /\ UNCHANGED <<req, wire, marks, step>>
      BY <2>2, <2>4
    <3>2. pc \notin {"start"} \cup Opening => step \in DOMAIN Steps /\ Destructive(Current)
      BY <2>1 DEF Bookkeeping, Writing, Opening
    <3> QED BY <2>1, <3>1, <3>2, BookkeepingInside DEF Inside, Opening, Writing
  <2> QED BY <2>3, <2>4
<1>3. CASE InitializeBus
  <2>1. pc = "initialize" /\ (op'.physical => op.physical)
    BY <1>3, InitializeBusCall, AdvancingOutcome DEF Advancing
  <2>2. \/ pc' \in {"preimage", "loop"} /\ UNCHANGED <<req, wire, marks, step>>
        \/ pc' \notin Inside /\ UNCHANGED <<req, wire, marks>>
    BY <1>3, InitializeBusCall DEF Failing, Unwinding, given, history, Inside, Opening, Writing
  <2>3. CASE pc' \notin Inside
    BY <2>1, <2>2, <2>3, BookkeepingOutside DEF Inside, Opening, Writing
  <2>4. CASE pc' \in Inside
    <3>1. pc' \in {"preimage", "loop"} /\ UNCHANGED <<req, wire, marks, step>>
      BY <2>2, <2>4
    <3>2. pc \notin {"start"} \cup Opening => step \in DOMAIN Steps /\ Destructive(Current)
      BY <2>1 DEF Bookkeeping, Writing, Opening
    <3> QED BY <2>1, <3>1, <3>2, BookkeepingInside DEF Inside, Opening, Writing
  <2> QED BY <2>3, <2>4
<1>4. CASE ReadPreimage
  <2>1. pc = "preimage" /\ (op'.physical => op.physical)
    BY <1>4, ReadPreimageCall, AdvancingOutcome DEF Advancing
  <2>2. \/ pc' \in {"loop"} /\ UNCHANGED <<req, wire, marks, step>>
        \/ pc' \notin Inside /\ UNCHANGED <<req, wire, marks>>
    BY <1>4, ReadPreimageCall DEF Failing, Unwinding, given, history, Inside, Opening, Writing
  <2>3. CASE pc' \notin Inside
    BY <2>1, <2>2, <2>3, BookkeepingOutside DEF Inside, Opening, Writing
  <2>4. CASE pc' \in Inside
    <3>1. pc' \in {"loop"} /\ UNCHANGED <<req, wire, marks, step>>
      BY <2>2, <2>4
    <3>2. pc \notin {"start"} \cup Opening => step \in DOMAIN Steps /\ Destructive(Current)
      BY <2>1 DEF Bookkeeping, Writing, Opening
    <3> QED BY <2>1, <3>1, <3>2, BookkeepingInside DEF Inside, Opening, Writing
  <2> QED BY <2>3, <2>4
<1>5. CASE NextStep
  <2>1. pc = "loop" /\ UNCHANGED <<req, wire, marks, step, op>>
    BY <1>5 DEF NextStep, given, history
  <2>2. \/ pc' = "quiesce"
        \/ pc' = "verified" /\ step > Len(Steps)
        \/ pc' = "writeEnable" /\ step <= Len(Steps) /\ Destructive(Current)
        \/ pc' = "verify" /\ step <= Len(Steps) /\ ~Destructive(Current)
    BY <1>5, PlanShape DEF NextStep
  <2>3. CASE pc' = "quiesce"
    BY <2>1, <2>3, BookkeepingOutside DEF Inside, Opening, Writing
  <2>4. CASE pc' # "quiesce"
    <3>1. step <= Len(Steps) => step \in DOMAIN Steps
      BY PlanShape
    <3> QED BY <2>1, <2>2, <2>4, <3>1, BookkeepingInside
           DEF Inside, Opening, Writing
  <2> QED BY <2>3, <2>4
<1>6. CASE WriteEnable
  <2>1. pc = "writeEnable" /\ (op'.physical => op.physical)
    BY <1>6, WriteEnableCall
  <2>2. \/ pc' \in {"checkLatch"} /\ UNCHANGED <<req, wire, marks, step>>
        \/ pc' \notin Inside /\ UNCHANGED <<req, wire, marks>>
    BY <1>6, WriteEnableCall DEF Failing, Unwinding, given, history, Inside, Opening, Writing
  <2>3. CASE pc' \notin Inside
    BY <2>1, <2>2, <2>3, BookkeepingOutside DEF Inside, Opening, Writing
  <2>4. CASE pc' \in Inside
    <3>1. pc' \in {"checkLatch"} /\ UNCHANGED <<req, wire, marks, step>>
      BY <2>2, <2>4
    <3>2. pc \notin {"start"} \cup Opening => step \in DOMAIN Steps /\ Destructive(Current)
      BY <2>1 DEF Bookkeeping, Writing, Opening
    <3> QED BY <2>1, <3>1, <3>2, BookkeepingInside DEF Inside, Opening, Writing
  <2> QED BY <2>3, <2>4
<1>7. CASE CheckLatch
  <2>1. pc = "checkLatch" /\ (op'.physical => op.physical)
    BY <1>7, CheckLatchCall, <1>b DEF BeginCritical, Outcomes, Unwinding
  <2>2. \/ pc' \in {"issue"} /\ UNCHANGED <<req, wire, marks, step>>
        \/ pc' \notin Inside /\ UNCHANGED <<req, wire, marks>>
    BY <1>7, CheckLatchCall DEF Failing, Unwinding, given, history, Inside, Opening, Writing
  <2>3. CASE pc' \notin Inside
    BY <2>1, <2>2, <2>3, BookkeepingOutside DEF Inside, Opening, Writing
  <2>4. CASE pc' \in Inside
    <3>1. pc' \in {"issue"} /\ UNCHANGED <<req, wire, marks, step>>
      BY <2>2, <2>4
    <3>2. pc \notin {"start"} \cup Opening => step \in DOMAIN Steps /\ Destructive(Current)
      BY <2>1 DEF Bookkeeping, Writing, Opening
    <3> QED BY <2>1, <3>1, <3>2, BookkeepingInside DEF Inside, Opening, Writing
  <2> QED BY <2>3, <2>4
<1>8. CASE IssueCommand
  <2>1. /\ pc = "issue" /\ pc' = "drain" /\ op' = op
        /\ UNCHANGED <<req, marks, step>>
    BY <1>8, IssueCommandCall DEF given
  <2>2. step \in DOMAIN Steps /\ Destructive(Current)
    BY <2>1 DEF Bookkeeping, Writing
  <2>3. /\ \A i \in DOMAIN Steps : i >= step => wire[i] = "none"
        /\ marks = DestructiveBefore(step)
    BY <2>1 DEF Bookkeeping, Writing
  <2>4. PICK w \in {"worked", "ignored", "doubtful"} :
             /\ wire' = [wire EXCEPT ![step] = w]
             /\ pending'.code = "none" => w \in {"worked", "ignored"}
    BY <1>8, IssueCommandCall
  <2>5. DOMAIN wire = DOMAIN Steps
    BY DEF TypeOK
  <2>6. Steps' = Steps /\ Current' = Current
    BY <2>1 DEF Steps, Current
  <2>7. /\ wire'[step] = w
        /\ \A i \in DOMAIN Steps : i > step => wire'[i] = "none"
        /\ \A i \in DOMAIN Steps : i < step => wire'[i] = wire[i]
    BY <2>2, <2>3, <2>4, <2>5, PlanShape
  <2>8. \A i \in marks : i \in DOMAIN Steps /\ i < step
    BY <2>3 DEF DestructiveBefore
  <2>9. MarksAreDone'
    BY <2>1, <2>6, <2>7, <2>8 DEF Bookkeeping, MarksAreDone
  <2>10. marks' = DestructiveBefore(step)'
    BY <2>1, <2>3, <2>6 DEF DestructiveBefore
  <2>11. (op.physical => \A i \in DOMAIN Steps : Destructive(Steps[i]) => i \in marks)'
    BY <2>1, <2>6 DEF Bookkeeping
  <2> HIDE DEF Steps, Current
  <2> QED BY <2>1, <2>2, <2>4, <2>6, <2>7, <2>9, <2>10, <2>11
         DEF Bookkeeping, Opening, Writing
<1>9. CASE ListenerRaises
  <2>1. UNCHANGED <<req, wire, marks>> /\ pc' \notin Inside
    BY <1>9 DEF ListenerRaises, Unwind, given, Inside, Opening, Writing
  <2>2. op'.physical => op.physical
    BY <1>9 DEF ListenerRaises, Unwind
  <2> QED BY <2>1, <2>2, BookkeepingOutside
<1>10. CASE Drain
  <2>1. /\ pc = "drain" /\ UNCHANGED <<req, wire, marks, step>>
        /\ op'.physical => op.physical
    BY <1>10, <1>b, DrainCall DEF Failing, Unwinding, given, history, EndCritical,
           Outcomes
  <2>2. \/ pc' \in {"quiesce", "unwind"}
        \/ pc' = "drain" /\ pending' = pending
        \/ pc' = "finished" /\ pending.code = "none"
    BY <1>10, DrainCall DEF Failing, Unwinding
  <2>3. CASE pc' \in {"quiesce", "unwind"}
    BY <2>1, <2>3, BookkeepingOutside DEF Inside, Opening, Writing
  <2>4. CASE pc' = "drain" /\ pending' = pending
    BY <2>1, <2>4, BookkeepingKept
  <2>5. CASE pc' = "finished" /\ pending.code = "none"
    <3>1. Steps' = Steps /\ Current' = Current
      BY <2>1 DEF Steps, Current
    <3>2. MarksAreDone'
      BY <2>1, <3>1 DEF Bookkeeping, MarksAreDone
    <3>3. /\ \A i \in DOMAIN Steps : i > step => wire[i] = "none"
          /\ wire[step] \in {"worked", "ignored"}
          /\ step \in DOMAIN Steps /\ Destructive(Current)
          /\ marks = DestructiveBefore(step)
      BY <2>1, <2>5 DEF Bookkeeping, Writing
    <3>4. marks' = DestructiveBefore(step)'
      BY <2>1, <3>1, <3>3 DEF DestructiveBefore
    <3>5. (op.physical => \A i \in DOMAIN Steps : Destructive(Steps[i]) => i \in marks)'
      BY <2>1, <3>1 DEF Bookkeeping
    <3> HIDE DEF Steps, Current
    <3> QED BY <2>1, <2>5, <3>1, <3>2, <3>3, <3>4, <3>5
           DEF Bookkeeping, Opening, Writing
  <2> QED BY <2>2, <2>3, <2>4, <2>5
<1>11. CASE CommandFinished
  <2>1. /\ pc = "finished" /\ UNCHANGED <<req, wire, op>>
        /\ marks' = marks \cup {step}
        /\ \/ pc' = "quiesce"
           \/ pc' = "loop" /\ step' = step + 1
    BY <1>11 DEF CommandFinished, given
  <2>2. /\ \A i \in DOMAIN Steps : i > step => wire[i] = "none"
        /\ wire[step] \in {"worked", "ignored"}
        /\ step \in DOMAIN Steps /\ Destructive(Current)
        /\ marks = DestructiveBefore(step)
    <3>1. pending.code = "none"
      BY <2>1 DEF Unspoiled, Writing
    <3> QED BY <2>1, <3>1 DEF Bookkeeping, Writing
  <2>3. ~op.physical
    BY <2>1 DEF Verified, Writing
  <2>4. Steps' = Steps
    BY <2>1 DEF Steps
  <2>5. MarksAreDone'
    <3>1. \A i \in marks : /\ wire[i] \in {"worked", "ignored"}
                           /\ \A j \in 1 .. i - 1 : Destructive(Steps[j]) => j \in marks
      BY DEF Bookkeeping, MarksAreDone
    <3>2. \A j \in 1 .. step - 1 : Destructive(Steps[j]) => j \in marks
      BY <2>2, PlanShape DEF DestructiveBefore
    <3> QED BY <2>1, <2>2, <2>4, <3>1, <3>2 DEF MarksAreDone
  <2>6. DestructiveBefore(step + 1) = DestructiveBefore(step) \cup {step}
    BY <2>2, PlanShape DEF DestructiveBefore, Current
  <2>7. pc' = "loop" => marks' = DestructiveBefore(step)'
    BY <2>1, <2>2, <2>4, <2>6 DEF DestructiveBefore
  <2>8. pc' = "loop" => \A i \in DOMAIN Steps : i >= step' => wire'[i] = "none"
    BY <2>1, <2>2, PlanShape
  <2> HIDE DEF Steps, Current
  <2> QED BY <2>1, <2>3, <2>4, <2>5, <2>7, <2>8
         DEF Bookkeeping, Opening, Writing
<1>12. CASE VerifyStep
  <2>1. pc = "verify" /\ UNCHANGED <<req, wire, marks, op>>
    BY <1>12, VerifyStepCall DEF Failing, Unwinding, given, history
  <2>2. CASE pc' \notin Inside
    BY <2>1, <2>2, BookkeepingOutside
  <2>3. CASE pc' \in Inside
    <3>1. pc' = "loop" /\ step' = step + 1
      BY <1>12, <2>3, VerifyStepCall
         DEF Failing, Unwinding, Inside, Opening, Writing
    <3>2. step \in DOMAIN Steps /\ ~Destructive(Current)
      BY <2>1 DEF Bookkeeping
    <3>3. /\ \A i \in DOMAIN Steps : i >= step => wire[i] = "none"
          /\ marks = DestructiveBefore(step)
      BY <2>1 DEF Bookkeeping, Writing
    <3>4. Steps' = Steps
      BY <2>1 DEF Steps
    <3>5. MarksAreDone'
      BY <2>1, <3>4 DEF Bookkeeping, MarksAreDone
    <3>6. DestructiveBefore(step + 1) = DestructiveBefore(step)
      BY <3>2, PlanShape DEF DestructiveBefore, Current
    <3>7. marks' = DestructiveBefore(step)'
      BY <2>1, <3>1, <3>3, <3>4, <3>6 DEF DestructiveBefore
    <3>8. \A i \in DOMAIN Steps : i >= step' => wire'[i] = "none"
      BY <2>1, <3>1, <3>3, PlanShape
    <3>9. (op.physical => \A i \in DOMAIN Steps : Destructive(Steps[i]) => i \in marks)'
      BY <2>1, <3>4 DEF Bookkeeping
    <3> HIDE DEF Steps, Current
    <3> QED BY <3>1, <3>4, <3>5, <3>7, <3>8, <3>9
           DEF Bookkeeping, Opening, Writing
  <2> QED BY <2>2, <2>3
<1>13. CASE FreshVerify
  <2>1. UNCHANGED <<req, wire, marks>> /\ pc' \notin Inside
    BY <1>13, FreshVerifyCall DEF Failing, Unwinding, given, history, Inside,
           Opening, Writing
  <2>2. op'.physical => op.physical
    BY <1>13 DEF FreshVerify, VerifyRead
  <2> QED BY <2>1, <2>2, BookkeepingOutside
<1>14. CASE PhysicallyVerified
  <2>1. /\ pc = "verified" /\ UNCHANGED <<req, wire, marks, step>>
        /\ pc' \notin Inside
    BY <1>14 DEF PhysicallyVerified, Cleanup, given, history, Inside, Opening,
             Writing
  <2>2. step > Len(Steps) /\ marks = DestructiveBefore(step)
    BY <2>1 DEF Bookkeeping, Writing
  <2>3. Steps' = Steps
    BY <2>1 DEF Steps
  <2>4. \A i \in DOMAIN Steps : Destructive(Steps[i]) => i \in marks
    BY <2>2, PlanShape DEF DestructiveBefore
  <2>5. MarksAreDone'
    BY <2>1, <2>3 DEF Bookkeeping, MarksAreDone
  <2> QED BY <2>1, <2>3, <2>4, <2>5 DEF Bookkeeping, Inside, Opening, Writing
<1>15. CASE BeforeFreshSession
  <2>1. UNCHANGED <<req, wire, marks>> /\ pc' \notin Inside
    BY <1>15 DEF BeforeFreshSession, given, history, Inside, Opening, Writing
  <2>2. op'.physical => op.physical
    BY <1>15 DEF BeforeFreshSession
  <2> QED BY <2>1, <2>2, BookkeepingOutside
<1>16. CASE Reopen
  <2>1. UNCHANGED <<req, wire, marks>> /\ pc' \notin Inside
    BY <1>16, ReopenCall DEF Failing, Unwinding, given, history, Inside,
           Opening, Writing
  <2>2. op'.physical => op.physical
    BY <1>16 DEF Reopen
  <2> QED BY <2>1, <2>2, BookkeepingOutside
<1>17. CASE Reinitialize
  <2>1. UNCHANGED <<req, wire, marks>> /\ pc' \notin Inside
    BY <1>17, ReinitializeCall DEF Failing, Unwinding, given, history, Inside,
           Opening, Writing
  <2>2. op'.physical => op.physical
    BY <1>17 DEF Reinitialize
  <2> QED BY <2>1, <2>2, BookkeepingOutside
<1>18. CASE FreshLoop
  <2>1. UNCHANGED <<req, wire, marks>> /\ pc' \notin Inside
    BY <1>18 DEF FreshLoop, given, history, Inside, Opening, Writing
  <2>2. op'.physical => op.physical
    BY <1>18, <1>b DEF FreshLoop, Outcomes
  <2> QED BY <2>1, <2>2, BookkeepingOutside
<1>19. CASE Quiesce
  <2>1. UNCHANGED <<req, wire, marks>> /\ pc' \notin Inside
    BY <1>19 DEF Quiesce, Cleanup, given, history, Inside, Opening, Writing
  <2>2. op'.physical => op.physical
    BY <1>19, AdvancingOutcome DEF Advancing
  <2> QED BY <2>1, <2>2, BookkeepingOutside
<1>20. CASE WriteDisable
  <2>1. UNCHANGED <<req, wire, marks>> /\ pc' \notin Inside
    BY <1>20, <1>b, CleanupCalls DEF given, history, Inside, Opening, Writing
  <2>2. op'.physical => op.physical
    BY <1>20, CleanupCalls
  <2> QED BY <2>1, <2>2, BookkeepingOutside
<1>21. CASE Deinitialize
  <2>1. UNCHANGED <<req, wire, marks>> /\ pc' \notin Inside
    BY <1>21, <1>b, CleanupCalls DEF given, history, Inside, Opening, Writing
  <2>2. op'.physical => op.physical
    BY <1>21, CleanupCalls
  <2> QED BY <2>1, <2>2, BookkeepingOutside
<1>22. CASE CloseDevice
  <2>1. UNCHANGED <<req, wire, marks>> /\ pc' \notin Inside
    BY <1>22, <1>b, CleanupCalls DEF given, history, Inside, Opening, Writing
  <2>2. op'.physical => op.physical
    BY <1>22, CleanupCalls
  <2> QED BY <2>1, <2>2, BookkeepingOutside
<1>23. CASE Finish
  <2>1. UNCHANGED <<req, wire, marks>> /\ pc' \notin Inside
    BY <1>23, ClosingOutcome DEF Closing, Finish, given, history, Inside, Opening,
           Writing
  <2>2. op'.physical => op.physical
    BY <1>23, ClosingOutcome DEF Closing
  <2> QED BY <2>1, <2>2, BookkeepingOutside
<1>24. CASE CommitEvidence
  <2>1. UNCHANGED <<req, wire, marks>> /\ pc' \notin Inside
    BY <1>24, ClosingOutcome DEF Closing, CommitEvidence, given, history, Inside, Opening,
           Writing
  <2>2. op'.physical => op.physical
    BY <1>24, ClosingOutcome DEF Closing
  <2> QED BY <2>1, <2>2, BookkeepingOutside
<1>25. CASE Finally
  <2>1. UNCHANGED <<req, wire, marks>> /\ pc' \notin Inside
    BY <1>25 DEF Finally, Cleanup, given, history, Inside, Opening, Writing
  <2>2. op'.physical => op.physical
    BY <1>25, <1>b DEF Finally, EndCritical, Outcomes
  <2> QED BY <2>1, <2>2, BookkeepingOutside
<1>26. CASE ExceptClause
  <2>1. UNCHANGED <<req, wire, marks>> /\ pc' \notin Inside
    BY <1>26, ClosingOutcome DEF Closing, ExceptClause, given, history, Inside, Opening,
           Writing
  <2>2. op'.physical => op.physical
    BY <1>26, ClosingOutcome DEF Closing
  <2> QED BY <2>1, <2>2, BookkeepingOutside
<1>27. CASE ChipSettles
  BY <1>27, BookkeepingKept DEF ChipSettles, given, history
<1>28. CASE RequestCancellation
  BY <1>28, BookkeepingKept DEF RequestCancellation, given, history
<1>29. CASE Over
  BY <1>29, BookkeepingKept DEF Over, vars, given, history
<1> QED BY <1>1, <1>2, <1>3, <1>4, <1>5, <1>6, <1>7, <1>8, <1>9, <1>10, <1>11,
           <1>12, <1>13, <1>14, <1>15, <1>16, <1>17, <1>18, <1>19, <1>20,
           <1>21, <1>22, <1>23, <1>24, <1>25, <1>26, <1>27, <1>28, <1>29
       DEF Next, Worker, Body, Ending

-----------------------------------------------------------------------------
(* Nothing but the chip changes what a memory agrees with.                 *)
LEMMA VerifiedFrame ==
    ASSUME TypeOK, Verified, UNCHANGED <<req, wire>>, chip'.mem = chip.mem,
           op'.physical = op.physical, op'.fresh = op.fresh
    PROVE  /\ Steps' = Steps
           /\ Sure' <=> Sure
           /\ \A i : Agrees(i)' <=> Agrees(i)
           /\ InvalidCode' = InvalidCode
           /\ (op.fresh => op.physical)'
           /\ (op.fresh /\ Sure => Holds)'
           /\ (op.physical => InvalidCode = "none")'
<1>1. Steps' = Steps
  BY DEF Steps
<1>2. Sure' <=> Sure
  BY <1>1 DEF Sure, Issued
<1>3. \A i : Agrees(i)' <=> Agrees(i)
  BY <1>1 DEF Agrees
<1>4. InvalidCode' = InvalidCode
  BY DEF InvalidCode
<1>5. Holds' <=> Holds
  BY <1>1, <1>3 DEF Holds
<1> QED BY <1>1, <1>2, <1>3, <1>4, <1>5 DEF Verified

(* Success is only reached over a memory the fresh session compared.        *)
LEMMA VerifiedNext ==
    ASSUME TypeOK, Running, PhaseReached, Unspoiled, AtRest, Bookkeeping,
           Verified, Next
    PROVE  Verified'
<1>a. pc \notin {"start", "done"} => op.status = "running"
  BY DEF Running
<1>b. op \in Outcomes /\ pending \in Pendings /\ chip \in Chips
  BY DEF TypeOK
<1>c. ret \in {"fresh", "finish", "except"}
  BY DEF TypeOK
<1>1. CASE Begin
  <2>1. /\ pc' \in {"open", "quiesce", "done"} /\ req' = req
        /\ ~op'.physical /\ ~op'.fresh /\ op'.status \in {"running", "failed"}
        /\ pc' = "open" => InvalidCode = "none"
        /\ pc' = "quiesce" => InvalidCode # "none"
    BY <1>1, BeginOutcome DEF Begin, given
  <2>2. pc' = "quiesce" => pending'.code # "none"
    <3>1. pending = NoPending
      BY <1>1 DEF Begin, Running
    <3>2. InvalidCode # "none" =>
             SetPending(NoPending, InvalidCode, ddNotOpened).code # "none"
      BY DEF SetPending, NoPending
    <3>3. pc' = "quiesce" => pending' = SetPending(pending, InvalidCode, ddNotOpened)
      BY <1>1, BeginOutcome
    <3> QED BY <2>1, <3>1, <3>2, <3>3
  <2>3. InvalidCode' = InvalidCode
    BY <2>1 DEF InvalidCode
  <2> QED BY <2>1, <2>2, <2>3 DEF Verified, Opening, Writing, Proving, Cleaning
<1>2. CASE OpenDevice
  <2>1. /\ UNCHANGED <<req, wire>> /\ chip'.mem = chip.mem
        /\ op'.physical = op.physical /\ op'.fresh = op.fresh
    BY <1>2, OpenDeviceCall, AdvancingOutcome
       DEF Failing, Unwinding, given, history, Advancing
  <2>2. /\ pc = "open" /\ ret' = ret /\ op'.status = "running"
        /\ \/ pc' = "initialize"
           \/ pc' = "quiesce" /\ pending'.code # "none"
           \/ pc' = "unwind"
    BY <1>2, <1>a, OpenDeviceCall, AdvancingOutcome DEF Failing, Unwinding, Advancing
  <2> QED BY <2>1, <2>2, VerifiedFrame
       DEF Verified, Opening, Writing, Proving, Cleaning
<1>3. CASE InitializeBus
  <2>1. /\ UNCHANGED <<req, wire>> /\ chip'.mem = chip.mem
        /\ op'.physical = op.physical /\ op'.fresh = op.fresh
    BY <1>3, InitializeBusCall, AdvancingOutcome
       DEF Failing, Unwinding, given, history, Advancing
  <2>2. /\ pc = "initialize" /\ ret' = ret /\ op'.status = "running"
        /\ \/ pc' \in {"preimage", "loop"}
           \/ pc' = "quiesce" /\ pending'.code # "none"
           \/ pc' = "unwind"
    BY <1>3, <1>a, InitializeBusCall, AdvancingOutcome DEF Failing, Unwinding, Advancing
  <2> QED BY <2>1, <2>2, VerifiedFrame
       DEF Verified, Opening, Writing, Proving, Cleaning
<1>4. CASE ReadPreimage
  <2>1. /\ UNCHANGED <<req, wire>> /\ chip'.mem = chip.mem
        /\ op'.physical = op.physical /\ op'.fresh = op.fresh
    BY <1>4, ReadPreimageCall, AdvancingOutcome
       DEF Failing, Unwinding, given, history, Advancing
  <2>2. /\ pc = "preimage" /\ ret' = ret /\ op'.status = "running"
        /\ \/ pc' = "loop"
           \/ pc' = "quiesce" /\ pending'.code # "none"
           \/ pc' = "unwind"
    BY <1>4, <1>a, ReadPreimageCall, AdvancingOutcome DEF Failing, Unwinding, Advancing
  <2> QED BY <2>1, <2>2, VerifiedFrame
       DEF Verified, Opening, Writing, Proving, Cleaning
<1>5. CASE NextStep
  <2>1. /\ UNCHANGED <<req, wire>> /\ chip'.mem = chip.mem
        /\ op'.physical = op.physical /\ op'.fresh = op.fresh
    BY <1>5 DEF NextStep, given, history
  <2>2. /\ pc = "loop" /\ ret' = ret /\ op' = op /\ op.status = "running"
        /\ \/ pc' \in Writing
           \/ pc' = "quiesce" /\ cancelled'
    BY <1>5, <1>a DEF NextStep, Writing
  <2> QED BY <2>1, <2>2, VerifiedFrame
       DEF Verified, Opening, Writing, Proving, Cleaning
<1>6. CASE WriteEnable
  <2>1. /\ UNCHANGED <<req, wire>> /\ chip'.mem = chip.mem
        /\ op'.physical = op.physical /\ op'.fresh = op.fresh
    BY <1>6, <1>b, WriteEnableCall
       DEF Failing, Unwinding, given, history, WREN, Chips
  <2>2. /\ pc = "writeEnable" /\ ret' = ret /\ op'.status = "running"
        /\ \/ pc' = "checkLatch"
           \/ pc' = "quiesce" /\ pending'.code # "none"
           \/ pc' = "unwind"
    BY <1>6, <1>a, WriteEnableCall DEF Failing, Unwinding
  <2> QED BY <2>1, <2>2, VerifiedFrame
       DEF Verified, Opening, Writing, Proving, Cleaning
<1>7. CASE CheckLatch
  <2>1. /\ UNCHANGED <<req, wire>> /\ chip'.mem = chip.mem
        /\ op'.physical = op.physical /\ op'.fresh = op.fresh
    BY <1>7, <1>b, CheckLatchCall
       DEF Failing, Unwinding, given, history, BeginCritical, Outcomes
  <2>2. /\ pc = "checkLatch" /\ ret' = ret /\ op'.status = "running"
        /\ \/ pc' = "issue"
           \/ pc' = "quiesce" /\ (cancelled' \/ pending'.code # "none")
           \/ pc' = "unwind"
    <3>1. ~op.critical /\ op.status = "running" /\ pc = "checkLatch"
      BY <1>7, <1>a, CheckLatchCall DEF Running
    <3>2. ~MayBeginCritical(op, token) => token
      BY <3>1 DEF MayBeginCritical
    <3> QED BY <1>7, <1>b, <3>1, <3>2, CheckLatchCall
           DEF Failing, Unwinding, BeginCritical, Outcomes
  <2> QED BY <2>1, <2>2, VerifiedFrame
       DEF Verified, Opening, Writing, Proving, Cleaning
<1>8. CASE IssueCommand
  <2>1. pc = "issue" /\ pc' = "drain" /\ op' = op /\ req' = req
    BY <1>8, IssueCommandCall DEF given
  <2>2. ~op.physical /\ ~op.fresh /\ op.status = "running" /\ InvalidCode = "none"
    BY <1>a, <2>1 DEF Verified, Writing
  <2>3. InvalidCode' = InvalidCode
    BY <2>1 DEF InvalidCode
  <2> QED BY <2>1, <2>2, <2>3 DEF Verified, Proving, Cleaning
<1>9. CASE ListenerRaises
  <2>1. /\ UNCHANGED <<req, wire>> /\ chip'.mem = chip.mem
        /\ op'.physical = op.physical /\ op'.fresh = op.fresh
    BY <1>9 DEF ListenerRaises, Unwind, given, history
  <2>2. pc' = "unwind" /\ op' = op /\ op.status = "running"
    BY <1>9, <1>a DEF ListenerRaises, Unwind
  <2> QED BY <2>1, <2>2, VerifiedFrame
       DEF Verified, Opening, Writing, Proving, Cleaning
<1>10. CASE Drain
  <2>1. /\ UNCHANGED <<req, wire>> /\ chip'.mem = chip.mem
        /\ op'.physical = op.physical /\ op'.fresh = op.fresh
    BY <1>10, <1>b, DrainCall
       DEF Failing, Unwinding, given, history, EndCritical, Outcomes
  <2>2. /\ pc = "drain" /\ ret' = ret /\ op'.status = "running"
        /\ \/ pc' \in {"drain", "finished"}
           \/ pc' = "quiesce" /\ pending'.code # "none"
           \/ pc' = "unwind"
    BY <1>10, <1>a, <1>b, DrainCall
       DEF Failing, Unwinding, EndCritical, Outcomes, Drained, Pendings
  <2> QED BY <2>1, <2>2, VerifiedFrame
       DEF Verified, Opening, Writing, Proving, Cleaning
<1>11. CASE CommandFinished
  <2>1. /\ UNCHANGED <<req, wire>> /\ chip'.mem = chip.mem
        /\ op'.physical = op.physical /\ op'.fresh = op.fresh
    BY <1>11 DEF CommandFinished, given, history
  <2>2. /\ pc = "finished" /\ ret' = ret /\ op' = op /\ op.status = "running"
        /\ \/ pc' = "loop"
           \/ pc' = "quiesce" /\ cancelled'
    BY <1>11, <1>a DEF CommandFinished
  <2> QED BY <2>1, <2>2, VerifiedFrame
       DEF Verified, Opening, Writing, Proving, Cleaning
<1>12. CASE VerifyStep
  <2>1. /\ UNCHANGED <<req, wire>> /\ chip'.mem = chip.mem
        /\ op'.physical = op.physical /\ op'.fresh = op.fresh
    BY <1>12, VerifyStepCall
       DEF Failing, Unwinding, given, history
  <2>2. /\ pc = "verify" /\ ret' = ret /\ op'.status = "running"
        /\ \/ pc' = "loop"
           \/ pc' = "quiesce" /\ pending'.code # "none"
           \/ pc' = "unwind"
    BY <1>12, <1>a, VerifyStepCall DEF Failing, Unwinding
  <2> QED BY <2>1, <2>2, VerifiedFrame
       DEF Verified, Opening, Writing, Proving, Cleaning
<1>13. CASE FreshVerify
  <2>1. /\ UNCHANGED <<req, wire>> /\ chip'.mem = chip.mem
        /\ op'.physical = op.physical /\ op'.fresh = op.fresh
    BY <1>13, FreshVerifyCall DEF Failing, Unwinding, given, history
  <2>2. /\ pc = "reverify" /\ ret' = ret /\ op'.status = "running"
        /\ \/ pc' = "reverify" /\ step' = step + 1 /\ Matches(chip, Current)
           \/ pc' = "quiesce" /\ pending'.code # "none"
           \/ pc' = "unwind"
    BY <1>13, <1>a, FreshVerifyCall DEF Failing, Unwinding
  <2>3. Sure /\ Matches(chip, Current) => Agrees(step)
    <3>1. Sure => Idle(chip)
      BY <2>2 DEF AtRest, Proving
    <3> QED BY <3>1 DEF Matches, Shown, Agrees, Current
  <2>4. step' = step + 1 => 1 .. step' - 1 = (1 .. step - 1) \cup {step}
    <3>1. step \in Nat /\ step >= 1
      BY PlanShape
    <3> QED BY <3>1
  <2> QED BY <2>1, <2>2, <2>3, <2>4, PlanShape, VerifiedFrame
       DEF Verified, Opening, Writing, Proving, Cleaning
<1>14. CASE PhysicallyVerified
  <2>1. /\ pc = "verified" /\ UNCHANGED <<req, wire, chip>> /\ ret' = "fresh"
        /\ pc' \in {"writeDisable", "close", "fresh"}
    BY <1>14 DEF PhysicallyVerified, Cleanup, given, history
  <2>2. op'.physical /\ op'.fresh = op.fresh /\ op'.status = "running"
    BY <1>14, PhysicalOutcome
  <2>3. ~op.fresh /\ InvalidCode = "none"
    BY <2>1 DEF Verified, Writing
  <2>4. InvalidCode' = InvalidCode
    BY <2>1 DEF InvalidCode
  <2> QED BY <2>1, <2>2, <2>3, <2>4
         DEF Verified, Opening, Writing, Proving, Cleaning
<1>15. CASE BeforeFreshSession
  <2>1. /\ UNCHANGED <<req, wire>> /\ chip'.mem = chip.mem
        /\ op'.physical = op.physical /\ op'.fresh = op.fresh
    BY <1>15 DEF BeforeFreshSession, given, history
  <2>2. /\ pc = "fresh" /\ ret' = ret /\ op' = op /\ op.status = "running"
        /\ \/ pc' = "reopen"
           \/ pc' = "quiesce" /\ (cancelled' \/ pending'.code # "none")
    BY <1>15, <1>a DEF BeforeFreshSession
  <2> QED BY <2>1, <2>2, VerifiedFrame
       DEF Verified, Opening, Writing, Proving, Cleaning
<1>16. CASE Reopen
  <2>1. /\ UNCHANGED <<req, wire>> /\ chip'.mem = chip.mem
        /\ op'.physical = op.physical /\ op'.fresh = op.fresh
    BY <1>16, ReopenCall
       DEF Failing, Unwinding, given, history
  <2>2. /\ pc = "reopen" /\ ret' = ret /\ op'.status = "running"
        /\ \/ pc' = "reinitialize"
           \/ pc' = "quiesce" /\ pending'.code # "none"
           \/ pc' = "unwind"
    BY <1>16, <1>a, ReopenCall DEF Failing, Unwinding
  <2> QED BY <2>1, <2>2, VerifiedFrame
       DEF Verified, Opening, Writing, Proving, Cleaning
<1>17. CASE Reinitialize
  <2>1. /\ UNCHANGED <<req, wire>> /\ chip'.mem = chip.mem
        /\ op'.physical = op.physical /\ op'.fresh = op.fresh
    BY <1>17, ReinitializeCall DEF Failing, Unwinding, given, history
  <2>2. /\ pc = "reinitialize" /\ ret' = ret /\ op'.status = "running"
        /\ \/ pc' = "reverify" /\ step' = 1
           \/ pc' = "quiesce" /\ pending'.code # "none"
           \/ pc' = "unwind"
    BY <1>17, <1>a, ReinitializeCall DEF Failing, Unwinding
  <2> QED BY <2>1, <2>2, VerifiedFrame
       DEF Verified, Opening, Writing, Proving, Cleaning
<1>18. CASE FreshLoop
  <2>1. /\ pc = "reverify" /\ UNCHANGED <<req, wire, chip, ret, pending>>
        /\ op'.status = "running" /\ op'.physical = op.physical
    BY <1>18, <1>a, <1>b DEF FreshLoop, given, history, Outcomes
  <2>2. Steps' = Steps /\ (Sure' <=> Sure) /\ InvalidCode' = InvalidCode
        /\ (Holds' <=> Holds) /\ \A i : Agrees(i)' <=> Agrees(i)
    <3>1. Steps' = Steps
      BY <2>1 DEF Steps
    <3>2. \A i : Agrees(i)' <=> Agrees(i)
      BY <2>1, <3>1 DEF Agrees
    <3> QED BY <2>1, <3>1, <3>2 DEF Sure, Issued, InvalidCode, Holds
  <2>3. op.physical /\ (Sure => \A i \in 1 .. step - 1 : Agrees(i))
        /\ (op.fresh /\ Sure => Holds) /\ InvalidCode = "none"
    BY <2>1 DEF Verified, Proving
  <2>4. CASE step > Len(Steps)
    <3>1. op'.fresh /\ pc' = "quiesce"
      BY <1>18, <1>b, <2>4, PlanShape DEF FreshLoop, Outcomes
    <3>2. Sure => Holds
      BY <2>3, <2>4, PlanShape DEF Holds
    <3> QED BY <2>1, <2>2, <2>3, <3>1, <3>2
           DEF Verified, Opening, Writing, Proving, Cleaning
  <2>5. CASE step <= Len(Steps) /\ Destructive(Current)
    <3>1. op' = op /\ pc' = "reverify" /\ step' = step + 1
      BY <1>18, <2>5, PlanShape DEF FreshLoop
    <3>2. Agrees(step)
      BY <2>5 DEF Agrees, Destructive, Current
    <3>3. 1 .. step' - 1 = (1 .. step - 1) \cup {step}
      BY <3>1, PlanShape
    <3> QED BY <2>1, <2>2, <2>3, <3>1, <3>2, <3>3
           DEF Verified, Opening, Writing, Proving, Cleaning
  <2>6. CASE step <= Len(Steps) /\ ~Destructive(Current)
    <3>1. op' = op /\ pc' = "quiesce" /\ cancelled' = TRUE
      BY <1>18, <2>6, PlanShape DEF FreshLoop
    <3> QED BY <2>1, <2>2, <2>3, <3>1
           DEF Verified, Opening, Writing, Proving, Cleaning
  <2> QED BY <2>4, <2>5, <2>6, PlanShape
<1>19. CASE Quiesce
  <2>1. /\ UNCHANGED <<req, wire>> /\ chip'.mem = chip.mem
        /\ op'.physical = op.physical /\ op'.fresh = op.fresh
    BY <1>19, AdvancingOutcome DEF Advancing, Quiesce, given, history
  <2>2. /\ pc = "quiesce" /\ ret' = "finish" /\ op'.status = "running"
        /\ pc' \in {"writeDisable", "close", "finish"}
        /\ UNCHANGED <<pending, cancelled>>
    BY <1>19, AdvancingOutcome DEF Advancing, Quiesce, Cleanup
  <2> QED BY <2>1, <2>2, VerifiedFrame
       DEF Verified, Opening, Writing, Proving, Cleaning
<1>20. CASE WriteDisable
  <2>1. /\ UNCHANGED <<req, wire>> /\ chip'.mem = chip.mem
        /\ op'.physical = op.physical /\ op'.fresh = op.fresh
    BY <1>20, <1>b, CleanupCalls DEF given, history, WRDI, Chips
  <2>2. /\ pc = "writeDisable" /\ pc' \in {"deinitialize", "close", ret}
        /\ UNCHANGED <<op, ret, cancelled>> /\ op.status = "running"
        /\ pending'.code = "none" => pending.code = "none"
    BY <1>20, <1>a, CleanupCalls DEF Noted
  <2> QED BY <2>1, <2>2, <1>c, VerifiedFrame
       DEF Verified, Opening, Writing, Proving, Cleaning
<1>21. CASE Deinitialize
  <2>1. /\ UNCHANGED <<req, wire>> /\ chip'.mem = chip.mem
        /\ op'.physical = op.physical /\ op'.fresh = op.fresh
    BY <1>21, <1>b, CleanupCalls DEF given, history, WRDI, Chips
  <2>2. /\ pc = "deinitialize" /\ pc' \in {"deinitialize", "close", ret}
        /\ UNCHANGED <<op, ret, cancelled>> /\ op.status = "running"
        /\ pending'.code = "none" => pending.code = "none"
    BY <1>21, <1>a, CleanupCalls DEF Noted
  <2> QED BY <2>1, <2>2, <1>c, VerifiedFrame
       DEF Verified, Opening, Writing, Proving, Cleaning
<1>22. CASE CloseDevice
  <2>1. /\ UNCHANGED <<req, wire>> /\ chip'.mem = chip.mem
        /\ op'.physical = op.physical /\ op'.fresh = op.fresh
    BY <1>22, <1>b, CleanupCalls DEF given, history, WRDI, Chips
  <2>2. /\ pc = "close" /\ pc' \in {"deinitialize", "close", ret}
        /\ UNCHANGED <<op, ret, cancelled>> /\ op.status = "running"
        /\ pending'.code = "none" => pending.code = "none"
    BY <1>22, <1>a, CleanupCalls DEF Noted
  <2> QED BY <2>1, <2>2, <1>c, VerifiedFrame
       DEF Verified, Opening, Writing, Proving, Cleaning
<1>23. CASE Finish
  <2>1. /\ UNCHANGED <<req, wire>> /\ chip'.mem = chip.mem
        /\ op'.physical = op.physical /\ op'.fresh = op.fresh
    BY <1>23, ClosingOutcome DEF Closing, Finish, given, history
  <2>2. /\ pc = "finish" /\ pc' \in {"commit", "done"}
        /\ pc' = "commit" \/ op'.status = "succeeded" => op.fresh
    <3>1. pc = "finish"
      BY <1>23 DEF Finish
    <3>2. /\ pc' \in {"commit", "done"}
          /\ pc' = "commit" \/ op'.status = "succeeded" =>
                pc = "commit" \/ (pc = "finish" /\ ~cancelled /\ pending.code = "none")
      BY <1>23, <3>1, ClosingOutcome DEF Closing
    <3> QED BY <3>1, <3>2 DEF Verified
  <2> QED BY <2>1, <2>2, VerifiedFrame
       DEF Verified, Opening, Writing, Proving, Cleaning
<1>24. CASE CommitEvidence
  <2>1. /\ UNCHANGED <<req, wire>> /\ chip'.mem = chip.mem
        /\ op'.physical = op.physical /\ op'.fresh = op.fresh
    BY <1>24, ClosingOutcome DEF Closing, CommitEvidence, given, history
  <2>2. /\ pc = "commit" /\ pc' \in {"commit", "done"}
        /\ pc' = "commit" \/ op'.status = "succeeded" => op.fresh
    <3>1. pc = "commit"
      BY <1>24 DEF CommitEvidence
    <3>2. /\ pc' \in {"commit", "done"}
          /\ pc' = "commit" \/ op'.status = "succeeded" =>
                pc = "commit" \/ (pc = "finish" /\ ~cancelled /\ pending.code = "none")
      BY <1>24, <3>1, ClosingOutcome DEF Closing
    <3> QED BY <3>1, <3>2 DEF Verified
  <2> QED BY <2>1, <2>2, VerifiedFrame
       DEF Verified, Opening, Writing, Proving, Cleaning
<1>25. CASE Finally
  <2>1. /\ UNCHANGED <<req, wire>> /\ chip'.mem = chip.mem
        /\ op'.physical = op.physical /\ op'.fresh = op.fresh
    BY <1>25, <1>b DEF Finally, EndCritical, Outcomes, given, history
  <2>2. ret' = "except" /\ pc' \in Cleaning \cup {"except"} /\ op'.status = "running"
    BY <1>25, <1>a, <1>b DEF Finally, Cleanup, Cleaning, EndCritical, Outcomes
  <2> QED BY <2>1, <2>2, VerifiedFrame
       DEF Verified, Opening, Writing, Proving, Cleaning
<1>26. CASE ExceptClause
  <2>1. /\ UNCHANGED <<req, wire>> /\ chip'.mem = chip.mem
        /\ op'.physical = op.physical /\ op'.fresh = op.fresh
    BY <1>26, ClosingOutcome DEF Closing, ExceptClause, given, history
  <2>2. /\ pc = "except" /\ pc' \in {"commit", "done"}
        /\ pc' = "commit" \/ op'.status = "succeeded" => op.fresh
    <3>1. pc = "except"
      BY <1>26 DEF ExceptClause
    <3>2. /\ pc' \in {"commit", "done"}
          /\ pc' = "commit" \/ op'.status = "succeeded" =>
                pc = "commit" \/ (pc = "finish" /\ ~cancelled /\ pending.code = "none")
      BY <1>26, <3>1, ClosingOutcome DEF Closing
    <3> QED BY <3>1, <3>2 DEF Verified
  <2> QED BY <2>1, <2>2, VerifiedFrame
       DEF Verified, Opening, Writing, Proving, Cleaning
<1>27. CASE ChipSettles
  <2>1. ~Idle(chip) /\ UNCHANGED <<req, wire, pc, ret, op, pending, cancelled, step>>
    BY <1>27 DEF ChipSettles, given, history
  <2>2. /\ op.fresh => op.physical
        /\ ~(pc = "reverify" /\ Sure) /\ ~(op.physical /\ Sure)
    BY <2>1 DEF AtRest, Proving, Verified
  <2>3. (Sure' <=> Sure) /\ InvalidCode' = InvalidCode
    BY <2>1 DEF Sure, Issued, Steps, InvalidCode
  <2> QED BY <2>1, <2>2, <2>3 DEF Verified
<1>28. CASE RequestCancellation
  <2>1. /\ UNCHANGED <<req, wire>> /\ chip'.mem = chip.mem
        /\ op'.physical = op.physical /\ op'.fresh = op.fresh
    BY <1>28 DEF RequestCancellation, given, history
  <2>2. UNCHANGED <<pc, ret, op, pending, cancelled, step>>
    BY <1>28 DEF RequestCancellation
  <2> QED BY <2>1, <2>2, VerifiedFrame
       DEF Verified, Opening, Writing, Proving, Cleaning
<1>29. CASE Over
  <2>1. /\ UNCHANGED <<req, wire>> /\ chip'.mem = chip.mem
        /\ op'.physical = op.physical /\ op'.fresh = op.fresh
    BY <1>29 DEF Over, vars, given, history
  <2>2. UNCHANGED <<pc, ret, op, pending, cancelled, step>>
    BY <1>29 DEF Over, vars
  <2> QED BY <2>1, <2>2, VerifiedFrame
       DEF Verified, Opening, Writing, Proving, Cleaning
<1> QED BY <1>1, <1>2, <1>3, <1>4, <1>5, <1>6, <1>7, <1>8, <1>9, <1>10, <1>11,
           <1>12, <1>13, <1>14, <1>15, <1>16, <1>17, <1>18, <1>19, <1>20,
           <1>21, <1>22, <1>23, <1>24, <1>25, <1>26, <1>27, <1>28, <1>29
       DEF Next, Worker, Body, Ending

LEMMA SnapshotKept ==
    ASSUME SnapshotSeen, UNCHANGED <<req, wire>>, chip'.mem = chip.mem,
           pc' \in Writing => pc \in Writing
    PROVE  SnapshotSeen'
<1>1. Issued' <=> Issued
  BY DEF Issued, Steps
<1> QED BY <1>1 DEF SnapshotSeen

(* A bound run sends its first command over the snapshot it read itself.    *)
LEMMA SnapshotSeenNext ==
    ASSUME TypeOK, Running, PhaseReached, AtRest, Bookkeeping, SnapshotSeen,
           Next
    PROVE  SnapshotSeen'
<1>b. chip \in Chips
  BY DEF TypeOK
<1>c. ret \in {"fresh", "finish", "except"}
  BY DEF TypeOK
<1>1. CASE Begin
  <2>1. UNCHANGED <<req, wire, chip>> /\ pc' \notin Writing
    BY <1>1, BeginOutcome DEF Begin, given, history, Writing
  <2> QED BY <2>1, SnapshotKept
<1>2. CASE OpenDevice
  <2>1. UNCHANGED <<req, wire>> /\ chip'.mem = chip.mem
    BY <1>2, OpenDeviceCall DEF Failing, Unwinding, given, history
  <2>2. pc' \in Writing => pc \in Writing
    BY <1>2, OpenDeviceCall DEF Failing, Unwinding, Writing
  <2> QED BY <2>1, <2>2, SnapshotKept
<1>3. CASE InitializeBus
  <2>1. /\ UNCHANGED <<req, wire, chip>>
        /\ pc' \in Writing => ~req.bind
    BY <1>3, InitializeBusCall DEF Failing, Unwinding, given, history, Writing
  <2> QED BY <2>1 DEF SnapshotSeen
<1>4. CASE ReadPreimage
  <2>1. /\ pc = "preimage" /\ UNCHANGED <<req, wire, chip>>
        /\ pc' \in Writing => PreimageAgrees
    BY <1>4, ReadPreimageCall DEF Failing, Unwinding, given, history, Writing
  <2>2. IdentityGate => Idle(chip)
    BY <2>1 DEF AtRest, Sure
  <2>3. IdentityGate /\ PreimageAgrees => chip.mem = req.expected
    BY <2>2 DEF PreimageAgrees, Shown
  <2> QED BY <2>1, <2>3 DEF SnapshotSeen
<1>5. CASE NextStep
  <2>1. UNCHANGED <<req, wire>> /\ chip'.mem = chip.mem
    BY <1>5 DEF NextStep, given, history
  <2>2. pc' \in Writing => pc \in Writing
    BY <1>5 DEF NextStep, Writing
  <2> QED BY <2>1, <2>2, SnapshotKept
<1>6. CASE WriteEnable
  <2>1. UNCHANGED <<req, wire>> /\ chip'.mem = chip.mem
    BY <1>6, <1>b, WriteEnableCall DEF Failing, Unwinding, WREN, Chips, given, history
  <2>2. pc' \in Writing => pc \in Writing
    BY <1>6, <1>b, WriteEnableCall DEF Failing, Unwinding, WREN, Chips, Writing
  <2> QED BY <2>1, <2>2, SnapshotKept
<1>7. CASE CheckLatch
  <2>1. UNCHANGED <<req, wire>> /\ chip'.mem = chip.mem
    BY <1>7, CheckLatchCall DEF Failing, Unwinding, given, history
  <2>2. pc' \in Writing => pc \in Writing
    BY <1>7, CheckLatchCall DEF Failing, Unwinding, Writing
  <2> QED BY <2>1, <2>2, SnapshotKept
<1>8. CASE IssueCommand
  <2>1. /\ pc = "issue" /\ req' = req
        /\ \E w \in {"worked", "ignored", "doubtful"} : wire' = [wire EXCEPT ![step] = w]
    BY <1>8, IssueCommandCall DEF given
  <2>2. step \in DOMAIN Steps /\ DOMAIN wire = DOMAIN Steps
    BY <2>1 DEF Bookkeeping, Writing, TypeOK
  <2>3. Issued'
    BY <2>1, <2>2 DEF Issued, Steps
  <2> QED BY <2>3 DEF SnapshotSeen
<1>9. CASE ListenerRaises
  <2>1. UNCHANGED <<req, wire>> /\ chip'.mem = chip.mem
    BY <1>9 DEF ListenerRaises, Unwind, given, history
  <2>2. pc' \in Writing => pc \in Writing
    BY <1>9 DEF ListenerRaises, Unwind, Writing
  <2> QED BY <2>1, <2>2, SnapshotKept
<1>10. CASE Drain
  <2>1. UNCHANGED <<req, wire>> /\ chip'.mem = chip.mem
    BY <1>10, DrainCall DEF Failing, Unwinding, given, history
  <2>2. pc' \in Writing => pc \in Writing
    BY <1>10, DrainCall DEF Failing, Unwinding, Writing
  <2> QED BY <2>1, <2>2, SnapshotKept
<1>11. CASE CommandFinished
  <2>1. UNCHANGED <<req, wire>> /\ chip'.mem = chip.mem
    BY <1>11 DEF CommandFinished, given, history
  <2>2. pc' \in Writing => pc \in Writing
    BY <1>11 DEF CommandFinished, Writing
  <2> QED BY <2>1, <2>2, SnapshotKept
<1>12. CASE VerifyStep
  <2>1. UNCHANGED <<req, wire>> /\ chip'.mem = chip.mem
    BY <1>12, VerifyStepCall DEF Failing, Unwinding, given, history
  <2>2. pc' \in Writing => pc \in Writing
    BY <1>12, VerifyStepCall DEF Failing, Unwinding, Writing
  <2> QED BY <2>1, <2>2, SnapshotKept
<1>13. CASE FreshVerify
  <2>1. UNCHANGED <<req, wire>> /\ chip'.mem = chip.mem
    BY <1>13, FreshVerifyCall DEF Failing, Unwinding, given, history
  <2>2. pc' \in Writing => pc \in Writing
    BY <1>13, FreshVerifyCall DEF Failing, Unwinding, Writing
  <2> QED BY <2>1, <2>2, SnapshotKept
<1>14. CASE PhysicallyVerified
  <2>1. UNCHANGED <<req, wire>> /\ chip'.mem = chip.mem
    BY <1>14 DEF PhysicallyVerified, Cleanup, given, history
  <2>2. pc' \in Writing => pc \in Writing
    BY <1>14 DEF PhysicallyVerified, Cleanup, Writing
  <2> QED BY <2>1, <2>2, SnapshotKept
<1>15. CASE BeforeFreshSession
  <2>1. UNCHANGED <<req, wire>> /\ chip'.mem = chip.mem
    BY <1>15 DEF BeforeFreshSession, given, history
  <2>2. pc' \in Writing => pc \in Writing
    BY <1>15 DEF BeforeFreshSession, Writing
  <2> QED BY <2>1, <2>2, SnapshotKept
<1>16. CASE Reopen
  <2>1. UNCHANGED <<req, wire>> /\ chip'.mem = chip.mem
    BY <1>16, ReopenCall DEF Failing, Unwinding, given, history
  <2>2. pc' \in Writing => pc \in Writing
    BY <1>16, ReopenCall DEF Failing, Unwinding, Writing
  <2> QED BY <2>1, <2>2, SnapshotKept
<1>17. CASE Reinitialize
  <2>1. UNCHANGED <<req, wire>> /\ chip'.mem = chip.mem
    BY <1>17, ReinitializeCall DEF Failing, Unwinding, given, history
  <2>2. pc' \in Writing => pc \in Writing
    BY <1>17, ReinitializeCall DEF Failing, Unwinding, Writing
  <2> QED BY <2>1, <2>2, SnapshotKept
<1>18. CASE FreshLoop
  <2>1. UNCHANGED <<req, wire>> /\ chip'.mem = chip.mem
    BY <1>18 DEF FreshLoop, given, history
  <2>2. pc' \in Writing => pc \in Writing
    BY <1>18 DEF FreshLoop, Writing
  <2> QED BY <2>1, <2>2, SnapshotKept
<1>19. CASE Quiesce
  <2>1. UNCHANGED <<req, wire>> /\ chip'.mem = chip.mem
    BY <1>19 DEF Quiesce, Cleanup, given, history
  <2>2. pc' \in Writing => pc \in Writing
    BY <1>19 DEF Quiesce, Cleanup, Writing
  <2> QED BY <2>1, <2>2, SnapshotKept
<1>20. CASE WriteDisable
  <2>1. UNCHANGED <<req, wire>> /\ chip'.mem = chip.mem
    BY <1>20, <1>b, <1>c, CleanupCalls DEF WRDI, Chips, given, history
  <2>2. pc' \in Writing => pc \in Writing
    BY <1>20, <1>b, <1>c, CleanupCalls DEF WRDI, Chips, Writing
  <2> QED BY <2>1, <2>2, SnapshotKept
<1>21. CASE Deinitialize
  <2>1. UNCHANGED <<req, wire>> /\ chip'.mem = chip.mem
    BY <1>21, <1>b, <1>c, CleanupCalls DEF WRDI, Chips, given, history
  <2>2. pc' \in Writing => pc \in Writing
    BY <1>21, <1>b, <1>c, CleanupCalls DEF WRDI, Chips, Writing
  <2> QED BY <2>1, <2>2, SnapshotKept
<1>22. CASE CloseDevice
  <2>1. UNCHANGED <<req, wire>> /\ chip'.mem = chip.mem
    BY <1>22, <1>b, <1>c, CleanupCalls DEF WRDI, Chips, given, history
  <2>2. pc' \in Writing => pc \in Writing
    BY <1>22, <1>b, <1>c, CleanupCalls DEF WRDI, Chips, Writing
  <2> QED BY <2>1, <2>2, SnapshotKept
<1>23. CASE Finish
  <2>1. UNCHANGED <<req, wire, chip>> /\ pc' \notin Writing
    BY <1>23, ClosingOutcome DEF Closing, Finish, given, history, Writing
  <2> QED BY <2>1, SnapshotKept
<1>24. CASE CommitEvidence
  <2>1. UNCHANGED <<req, wire, chip>> /\ pc' \notin Writing
    BY <1>24, ClosingOutcome DEF Closing, CommitEvidence, given, history, Writing
  <2> QED BY <2>1, SnapshotKept
<1>25. CASE Finally
  <2>1. UNCHANGED <<req, wire>> /\ chip'.mem = chip.mem
    BY <1>25 DEF Finally, Cleanup, given, history
  <2>2. pc' \in Writing => pc \in Writing
    BY <1>25 DEF Finally, Cleanup, Writing
  <2> QED BY <2>1, <2>2, SnapshotKept
<1>26. CASE ExceptClause
  <2>1. UNCHANGED <<req, wire, chip>> /\ pc' \notin Writing
    BY <1>26, ClosingOutcome DEF Closing, ExceptClause, given, history, Writing
  <2> QED BY <2>1, SnapshotKept
<1>27. CASE ChipSettles
  <2>1. ~Idle(chip) /\ UNCHANGED <<req, wire, pc>>
    BY <1>27 DEF ChipSettles, given, history
  <2>2. Issued' <=> Issued
    BY <2>1 DEF Issued, Steps
  <2>3. pc \in Writing /\ IdentityGate => pc = "drain"
    BY <2>1 DEF AtRest, Sure
  <2>4. pc = "drain" => Issued
    BY DEF Bookkeeping, Issued, Writing
  <2> QED BY <2>1, <2>2, <2>3, <2>4 DEF SnapshotSeen
<1>28. CASE RequestCancellation
  <2>1. UNCHANGED <<req, wire>> /\ chip'.mem = chip.mem
    BY <1>28 DEF RequestCancellation, given, history
  <2>2. pc' \in Writing => pc \in Writing
    BY <1>28 DEF RequestCancellation, Writing
  <2> QED BY <2>1, <2>2, SnapshotKept
<1>29. CASE Over
  <2>1. UNCHANGED <<req, wire>> /\ chip'.mem = chip.mem
    BY <1>29 DEF Over, vars, given, history
  <2>2. pc' \in Writing => pc \in Writing
    BY <1>29 DEF Over, vars, Writing
  <2> QED BY <2>1, <2>2, SnapshotKept
<1> QED BY <1>1, <1>2, <1>3, <1>4, <1>5, <1>6, <1>7, <1>8, <1>9, <1>10, <1>11,
           <1>12, <1>13, <1>14, <1>15, <1>16, <1>17, <1>18, <1>19, <1>20,
           <1>21, <1>22, <1>23, <1>24, <1>25, <1>26, <1>27, <1>28, <1>29
       DEF Next, Worker, Body, Ending

LEMMA ChipTypes ==
    ASSUME NEW c \in Chips
    PROVE  /\ WREN(c) \in Chips /\ WRDI(c) \in Chips
           /\ \A s \in Step : Accept(c, s) \in Chips
           /\ ~Idle(c) => \A part : Settle(c, part) \in Chips
<1>1. WREN(c) \in Chips /\ WRDI(c) \in Chips
  BY DEF WREN, WRDI, Chips
<1>2. \A s \in Step : Accept(c, s) \in Chips
  BY DEF Accept, Chips
<1>3. ASSUME ~Idle(c), NEW part PROVE Settle(c, part) \in Chips
  <2>1. c.mem \in Image /\ c.flight \in Step
    BY <1>3 DEF Chips, Idle
  <2>2. c.flight.data \in Image
    BY <2>1 DEF Step
  <2>3. \A a \in Addr : /\ c.mem[a] \in SUBSET Bits
                        /\ c.flight.data[a] \in SUBSET Bits
    BY <2>1, <2>2 DEF Image, Byte
  <2>4. Effect(c.mem, c.flight, part) \in Image
    BY <2>3 DEF Effect, Image, Byte, Erased
  <2> QED BY <2>4 DEF Settle, Chips
<1> QED BY <1>1, <1>2, <1>3

(* Every variable keeps its type; the step index never leaves the plan.      *)
LEMMA TypeOKNext ==
    ASSUME TypeOK, Running, PhaseReached, Unspoiled, AtRest, Bookkeeping,
           Verified, Next
    PROVE  TypeOK'
<1>b. op \in Outcomes /\ pending \in Pendings /\ chip \in Chips
      /\ ses \in [opened : BOOLEAN, inited : BOOLEAN]
  BY DEF TypeOK
<1>c. step \in 1 .. Len(Steps) + 1 /\ polls \in 0 .. MaxPolls - 1 /\ MaxPolls \in Nat \ {0}
      /\ Len(Steps) \in Nat
  BY PlanShape, ExecutorAssumption DEF TypeOK
<1>d. DOMAIN wire = DOMAIN Steps
  BY DEF TypeOK
<1>1. CASE Begin
  <2>1. op' \in Outcomes /\ pc' \in {"open", "quiesce", "done"}
    BY <1>1, BeginOutcome
  <2>2. InvalidCode \in ErrorCodes /\ ddNotOpened \in Dispositions
    BY DEF InvalidCode, ErrorCodes
  <2>3. pending' \in Pendings
    BY <1>1, <1>b, <2>2, PendingTypes DEF Begin
  <2> QED BY <1>1, <2>1, <2>3 DEF Begin, TypeOK, Calls, Locations, given, history, Steps
<1>2. CASE OpenDevice
  <2>1. op' \in Outcomes /\ pending' \in Pendings /\ chip' \in Chips
    BY <1>2, <1>b, OpenDeviceCall, AdvancingOutcome, ChipTypes
       DEF Failing, Unwinding, Pendings, Drained, BeginCritical, EndCritical, Outcomes, Advancing
  <2>2. ses' \in [opened : BOOLEAN, inited : BOOLEAN] /\ step' \in 1 .. Len(Steps) + 1
        /\ polls' \in 0 .. MaxPolls - 1
    BY <1>2, <1>b, <1>c, OpenDeviceCall DEF Failing, Unwinding
  <2> QED BY <1>2, <2>1, <2>2, <1>d, OpenDeviceCall DEF Failing, Unwinding, TypeOK, Calls, Locations, given, history, Steps
<1>3. CASE InitializeBus
  <2>1. op' \in Outcomes /\ pending' \in Pendings /\ chip' \in Chips
    BY <1>3, <1>b, InitializeBusCall, AdvancingOutcome, ChipTypes
       DEF Failing, Unwinding, Pendings, Drained, BeginCritical, EndCritical, Outcomes, Advancing
  <2>2. ses' \in [opened : BOOLEAN, inited : BOOLEAN] /\ step' \in 1 .. Len(Steps) + 1
        /\ polls' \in 0 .. MaxPolls - 1
    BY <1>3, <1>b, <1>c, InitializeBusCall DEF Failing, Unwinding
  <2> QED BY <1>3, <2>1, <2>2, <1>d, InitializeBusCall DEF Failing, Unwinding, TypeOK, Calls, Locations, given, history, Steps
<1>4. CASE ReadPreimage
  <2>1. op' \in Outcomes /\ pending' \in Pendings /\ chip' \in Chips
    BY <1>4, <1>b, ReadPreimageCall, AdvancingOutcome, ChipTypes
       DEF Failing, Unwinding, Pendings, Drained, BeginCritical, EndCritical, Outcomes, Advancing
  <2>2. ses' \in [opened : BOOLEAN, inited : BOOLEAN] /\ step' \in 1 .. Len(Steps) + 1
        /\ polls' \in 0 .. MaxPolls - 1
    BY <1>4, <1>b, <1>c, ReadPreimageCall DEF Failing, Unwinding
  <2> QED BY <1>4, <2>1, <2>2, <1>d, ReadPreimageCall DEF Failing, Unwinding, TypeOK, Calls, Locations, given, history, Steps
<1>5. CASE NextStep
  BY <1>5 DEF TypeOK, Calls, Locations, given, history, Steps, NextStep
<1>6. CASE WriteEnable
  <2>1. op' \in Outcomes /\ pending' \in Pendings /\ chip' \in Chips
    BY <1>6, <1>b, WriteEnableCall, ChipTypes
       DEF Failing, Unwinding, Pendings, Drained, BeginCritical, EndCritical, Outcomes
  <2>2. ses' \in [opened : BOOLEAN, inited : BOOLEAN] /\ step' \in 1 .. Len(Steps) + 1
        /\ polls' \in 0 .. MaxPolls - 1
    BY <1>6, <1>b, <1>c, WriteEnableCall DEF Failing, Unwinding
  <2> QED BY <1>6, <2>1, <2>2, <1>d, WriteEnableCall DEF Failing, Unwinding, TypeOK, Calls, Locations, given, history, Steps
<1>7. CASE CheckLatch
  <2>1. op' \in Outcomes /\ pending' \in Pendings /\ chip' \in Chips
    BY <1>7, <1>b, CheckLatchCall, ChipTypes
       DEF Failing, Unwinding, Pendings, Drained, BeginCritical, EndCritical, Outcomes
  <2>2. ses' \in [opened : BOOLEAN, inited : BOOLEAN] /\ step' \in 1 .. Len(Steps) + 1
        /\ polls' \in 0 .. MaxPolls - 1
    BY <1>7, <1>b, <1>c, CheckLatchCall DEF Failing, Unwinding
  <2> QED BY <1>7, <2>1, <2>2, <1>d, CheckLatchCall DEF Failing, Unwinding, TypeOK, Calls, Locations, given, history, Steps
<1>8. CASE IssueCommand
  <2>1. pc = "issue"
    BY <1>8, IssueCommandCall
  <2>2. step \in DOMAIN Steps
    BY <2>1 DEF Bookkeeping, Writing
  <2>3. Current \in Step
    BY <2>2, PlanShape DEF Current
  <2>4. chip' \in Chips
    BY <1>8, <1>b, <2>3, IssueCommandCall, ChipTypes
  <2>5. pending' \in Pendings
    BY <1>8, <1>b, IssueCommandCall
  <2>6. wire' \in [DOMAIN Steps -> {"none", "worked", "ignored", "doubtful"}]
    BY <1>8, <2>2, IssueCommandCall DEF TypeOK
  <2>7. 0 \in 0 .. MaxPolls - 1
    BY <1>c
  <2> QED BY <1>8, <2>4, <2>5, <2>6, <2>7, IssueCommandCall DEF TypeOK, Calls, Locations, given, history, Steps
<1>9. CASE ListenerRaises
  <2>1. pc' = "unwind" /\ cause' \in ErrorCodes
        /\ UNCHANGED <<given, executing, ret, op, pending, ses, step, polls,
                       cancelled, token, chip, wire, marks>>
    BY <1>9, FailureRecorded DEF ListenerRaises, Unwinding
  <2> QED BY <2>1 DEF TypeOK, Calls, Locations, given, history, Steps
<1>10. CASE Drain
  <2>1. op' \in Outcomes /\ chip' = chip
    BY <1>10, <1>b, DrainCall DEF EndCritical, Outcomes, Unwinding
  <2>2. Drained(pending) \in Pendings
    BY <1>b DEF Drained, Pendings
  <2>3. pending' \in Pendings
    BY <1>10, <1>b, <2>2, DrainCall DEF Failing, Unwinding
  <2>4. polls' \in 0 .. MaxPolls - 1
    BY <1>10, <1>c, DrainCall DEF Failing, Unwinding
  <2>5. ses' = ses /\ step' = step /\ cancelled' = cancelled /\ pc' \in Locations
        /\ cause' \in ErrorCodes /\ wire' = wire /\ marks' = marks
    BY <1>10, DrainCall DEF Failing, Unwinding, history, TypeOK, Locations, Calls
  <2> QED BY <1>10, <2>1, <2>3, <2>4, <2>5, DrainCall DEF given, TypeOK, Steps
<1>11. CASE CommandFinished
  <2>1. /\ pc = "finished" /\ pc' \in {"quiesce", "loop"}
        /\ step' \in {step, step + 1} /\ marks' = marks \cup {step}
        /\ cancelled' \in BOOLEAN
        /\ UNCHANGED <<given, executing, ret, op, pending, ses, polls, token, chip,
                       wire, cause>>
    BY <1>11 DEF CommandFinished, TypeOK
  <2>2. step \in DOMAIN Steps
    BY <2>1 DEF Bookkeeping, Writing
  <2>3. step' \in 1 .. Len(Steps) + 1
    BY <1>c, <2>1, <2>2, PlanShape
  <2> QED BY <2>1, <2>2, <2>3 DEF TypeOK, Calls, Locations, given, history, Steps
<1>12. CASE VerifyStep
  <2>1. pc = "verify" /\ step \in DOMAIN Steps
    BY <1>12, VerifyStepCall DEF Bookkeeping
  <2>2. step' \in 1 .. Len(Steps) + 1
    BY <1>12, <1>c, <2>1, PlanShape, VerifyStepCall DEF Failing, Unwinding
  <2>3. pending' \in Pendings /\ ses' = ses /\ polls' = polls
    BY <1>12, <1>b, VerifyStepCall DEF Failing, Unwinding
  <2> QED BY <1>12, <2>2, <2>3, VerifyStepCall
         DEF Failing, Unwinding, TypeOK, Calls, Locations, given, history, Steps
<1>13. CASE FreshVerify
  <2>1. op' \in Outcomes /\ pending' \in Pendings /\ chip' \in Chips
    BY <1>13, <1>b, FreshVerifyCall, ChipTypes
       DEF Failing, Unwinding, Pendings, Drained, BeginCritical, EndCritical, Outcomes
  <2>2. ses' \in [opened : BOOLEAN, inited : BOOLEAN] /\ step' \in 1 .. Len(Steps) + 1
        /\ polls' \in 0 .. MaxPolls - 1
    BY <1>13, <1>b, <1>c, FreshVerifyCall DEF Failing, Unwinding
  <2> QED BY <1>13, <2>1, <2>2, <1>d, FreshVerifyCall DEF Failing, Unwinding, TypeOK, Calls, Locations, given, history, Steps
<1>14. CASE PhysicallyVerified
  <2>1. op' \in Outcomes
    BY <1>14, PhysicalOutcome
  <2>2. pc' \in {"writeDisable", "close", "fresh"} /\ ret' = "fresh"
    BY <1>14 DEF PhysicallyVerified, Cleanup
  <2> QED BY <1>14, <2>1, <2>2 DEF PhysicallyVerified, TypeOK, Calls, Locations, given, history, Steps
<1>15. CASE BeforeFreshSession
  BY <1>15
     DEF TypeOK, Calls, Locations, given, history, Steps, BeforeFreshSession
<1>16. CASE Reopen
  <2>1. op' \in Outcomes /\ pending' \in Pendings /\ chip' \in Chips
    BY <1>16, <1>b, ReopenCall, ChipTypes
       DEF Failing, Unwinding, Pendings, Drained, BeginCritical, EndCritical, Outcomes
  <2>2. ses' \in [opened : BOOLEAN, inited : BOOLEAN] /\ step' \in 1 .. Len(Steps) + 1
        /\ polls' \in 0 .. MaxPolls - 1
    BY <1>16, <1>b, <1>c, ReopenCall DEF Failing, Unwinding
  <2> QED BY <1>16, <2>1, <2>2, <1>d, ReopenCall DEF Failing, Unwinding, TypeOK, Calls, Locations, given, history, Steps
<1>17. CASE Reinitialize
  <2>1. pending' \in Pendings /\ polls' = polls
        /\ ses' \in [opened : BOOLEAN, inited : BOOLEAN]
    BY <1>17, <1>b, ReinitializeCall DEF Failing, Unwinding
  <2>2. 1 \in 1 .. Len(Steps) + 1
    BY <1>c
  <2>3. step' \in 1 .. Len(Steps) + 1
    BY <1>17, <1>c, <2>2, ReinitializeCall DEF Failing, Unwinding
  <2> QED BY <1>17, <2>1, <2>3, ReinitializeCall
         DEF Failing, Unwinding, TypeOK, Calls, Locations, given, history, Steps
<1>18. CASE FreshLoop
  <2>1. op' \in Outcomes
    BY <1>18, <1>b DEF FreshLoop, Outcomes
  <2>2. step' \in 1 .. Len(Steps) + 1
    BY <1>18, <1>c DEF FreshLoop
  <2>3. pc' \in {"quiesce", "reverify"} /\ cancelled' \in BOOLEAN
    BY <1>18 DEF FreshLoop, TypeOK
  <2> QED BY <1>18, <2>1, <2>2, <2>3 DEF FreshLoop, TypeOK, Calls, Locations, given, history, Steps
<1>19. CASE Quiesce
  <2>1. op' \in Outcomes
    BY <1>19, AdvancingOutcome DEF Advancing
  <2>2. pc' \in {"writeDisable", "close", "finish"} /\ ret' = "finish"
    BY <1>19 DEF Quiesce, Cleanup
  <2> QED BY <1>19, <2>1, <2>2 DEF Quiesce, TypeOK, Calls, Locations, given, history, Steps
<1>20. CASE WriteDisable
  <2>1. pending' \in Pendings /\ chip' \in Chips
    BY <1>20, <1>b, CleanupCalls, ChipTypes DEF Noted
  <2>2. pc' \in {"deinitialize", "close", ret}
        /\ ses' \in [opened : BOOLEAN, inited : BOOLEAN]
    BY <1>20, <1>b, CleanupCalls
  <2> QED BY <1>20, <2>1, <2>2, CleanupCalls DEF TypeOK, Calls, Locations, given, history, Steps
<1>21. CASE Deinitialize
  <2>1. pending' \in Pendings /\ chip' \in Chips
    BY <1>21, <1>b, CleanupCalls, ChipTypes DEF Noted
  <2>2. pc' \in {"deinitialize", "close", ret}
        /\ ses' \in [opened : BOOLEAN, inited : BOOLEAN]
    BY <1>21, <1>b, CleanupCalls
  <2> QED BY <1>21, <2>1, <2>2, CleanupCalls DEF TypeOK, Calls, Locations, given, history, Steps
<1>22. CASE CloseDevice
  <2>1. pending' \in Pendings /\ chip' \in Chips
    BY <1>22, <1>b, CleanupCalls, ChipTypes DEF Noted
  <2>2. pc' \in {"deinitialize", "close", ret}
        /\ ses' \in [opened : BOOLEAN, inited : BOOLEAN]
    BY <1>22, <1>b, CleanupCalls
  <2> QED BY <1>22, <2>1, <2>2, CleanupCalls DEF TypeOK, Calls, Locations, given, history, Steps
<1>23. CASE Finish
  <2>1. op' \in Outcomes /\ pc' \in {"commit", "done"}
    BY <1>23, ClosingOutcome DEF Closing
  <2>2. executing' \in BOOLEAN
    BY <1>23, ClosingOutcome DEF Closing, TypeOK
  <2>3. pending' \in Pendings
    <3>1. {"evidenceFailed", "transport"} \subseteq ErrorCodes
      BY CodesNamed
    <3>2. ddKnownSafe \in Dispositions /\ ddModeUnknown \in Dispositions
      OBVIOUS
    <3> QED BY <1>23, <1>b, <3>1, <3>2, PendingTypes DEF Finish
  <2> QED BY <1>23, <2>1, <2>2, <2>3 DEF Finish, TypeOK, Calls, Locations, given, history, Steps
<1>24. CASE CommitEvidence
  <2>1. op' \in Outcomes /\ pc' \in {"commit", "done"}
    BY <1>24, ClosingOutcome DEF Closing
  <2>2. executing' \in BOOLEAN
    BY <1>24, ClosingOutcome DEF Closing, TypeOK
  <2>3. pending' \in Pendings
    <3>1. {"evidenceFailed", "transport"} \subseteq ErrorCodes
      BY CodesNamed
    <3>2. ddKnownSafe \in Dispositions /\ ddModeUnknown \in Dispositions
      OBVIOUS
    <3> QED BY <1>24, <1>b, <3>1, <3>2, PendingTypes DEF CommitEvidence
  <2> QED BY <1>24, <2>1, <2>2, <2>3 DEF CommitEvidence, TypeOK, Calls, Locations, given, history, Steps
<1>25. CASE Finally
  <2>1. op' \in Outcomes
    BY <1>25, <1>b DEF Finally, EndCritical, Outcomes
  <2>2. pc' \in {"writeDisable", "close", "except"} /\ ret' = "except"
    BY <1>25 DEF Finally, Cleanup
  <2>3. pending' \in Pendings
    <3>1. "transport" \in ErrorCodes /\ ddBusyUnknown \in Dispositions
      BY CodesNamed
    <3> QED BY <1>25, <1>b, <3>1, PendingTypes DEF Finally
  <2> QED BY <1>25, <2>1, <2>2, <2>3 DEF Finally, TypeOK, Calls, Locations, given, history, Steps
<1>26. CASE ExceptClause
  <2>1. op' \in Outcomes /\ pc' \in {"commit", "done"}
    BY <1>26, ClosingOutcome DEF Closing
  <2>2. executing' \in BOOLEAN
    BY <1>26, ClosingOutcome DEF Closing, TypeOK
  <2>3. pending' \in Pendings
    <3>1. {"evidenceFailed", "transport"} \subseteq ErrorCodes
      BY CodesNamed
    <3>2. ddKnownSafe \in Dispositions /\ ddModeUnknown \in Dispositions
      OBVIOUS
    <3> QED BY <1>26, <1>b, <3>1, <3>2, PendingTypes DEF ExceptClause
  <2> QED BY <1>26, <2>1, <2>2, <2>3 DEF ExceptClause, TypeOK, Calls, Locations, given, history, Steps
<1>27. CASE ChipSettles
  <2>1. chip' \in Chips
    BY <1>27, <1>b, ChipTypes DEF ChipSettles
  <2> QED BY <1>27, <2>1 DEF ChipSettles, TypeOK, Calls, Locations, given, history, Steps
<1>28. CASE RequestCancellation
  BY <1>28
     DEF TypeOK, Calls, Locations, given, history, Steps, RequestCancellation
<1>29. CASE Over
  BY <1>29 DEF TypeOK, Calls, Locations, given, history, Steps, Over, vars
<1> QED BY <1>1, <1>2, <1>3, <1>4, <1>5, <1>6, <1>7, <1>8, <1>9, <1>10, <1>11,
           <1>12, <1>13, <1>14, <1>15, <1>16, <1>17, <1>18, <1>19, <1>20,
           <1>21, <1>22, <1>23, <1>24, <1>25, <1>26, <1>27, <1>28, <1>29
       DEF Next, Worker, Body, Ending

-----------------------------------------------------------------------------
(* A run begins inside the invariant.                                      *)
LEMMA InitInvariant ==
    ASSUME Init
    PROVE  IInv
<1>1. /\ pc = "start" /\ op = NewOutcome /\ pending = NoPending /\ step = 1
      /\ marks = {} /\ wire = [i \in DOMAIN Steps |-> "none"] /\ ~cancelled
      /\ executing = foreign /\ ~ses.opened /\ ~ses.inited
  BY DEF Init
<1>2. req \in RequestShape
  BY ExecutorAssumption DEF Init
<1>3. Steps \in Seq(Step) /\ Len(Steps) \in Nat /\ DOMAIN Steps = 1 .. Len(Steps)
  BY <1>2 DEF RequestShape, Steps
<1>4. ~Issued
  BY <1>1 DEF Issued
<1>5. /\ NewOutcome \in Outcomes /\ NewOutcome.status = "notStarted"
      /\ ~NewOutcome.critical /\ ~NewOutcome.physical /\ ~NewOutcome.fresh
  BY DEF NewOutcome, Outcomes, Statuses, ErrorCodes
<1>6. NoPending \in Pendings /\ NoPending.code = "none"
  BY DEF NoPending, Pendings, ErrorCodes
<1>7. TypeOK
  <2>1. chip \in Chips
    <3>1. PICK mem \in Contents, wel \in BOOLEAN, flight \in LeftOver \cup {NoCommand} :
             chip = [mem |-> mem, wel |-> wel, flight |-> flight]
      BY DEF Init
    <3>2. mem \in Image /\ flight \in Step \cup {NoCommand}
      BY ExecutorAssumption
    <3> QED BY <3>1, <3>2 DEF Chips
  <2>2. 1 \in 1 .. Len(Steps) + 1 /\ 0 \in 0 .. MaxPolls - 1
    BY <1>3, ExecutorAssumption
  <2>3. "none" \in ErrorCodes
    BY DEF ErrorCodes
  <2> QED BY <1>1, <1>5, <1>6, <2>1, <2>2, <2>3
         DEF Init, TypeOK, Locations, Calls
<1>8. SessionFlags /\ Running
  BY <1>1, <1>5 DEF SessionFlags, Running, Writing
<1>9. PhaseReached /\ Unspoiled
  BY <1>1, <1>6 DEF PhaseReached, Unspoiled, Opening, Writing, Proving, Cleaning
<1>10. AtRest
  BY <1>1, <1>4, <1>5 DEF AtRest, Opening, Writing, Proving, Cleaning
<1>11. Bookkeeping
  <2>1. marks = DestructiveBefore(1)
    BY <1>1, <1>3 DEF DestructiveBefore
  <2>2. MarksAreDone
    BY <1>1 DEF MarksAreDone
  <2> QED BY <1>1, <1>3, <1>5, <2>1, <2>2 DEF Bookkeeping, Opening, Writing
<1>12. Verified
  BY <1>1, <1>5 DEF Verified, Opening, Writing, Proving, Cleaning
<1>13. SnapshotSeen
  BY <1>1 DEF SnapshotSeen, Writing
<1> QED BY <1>7, <1>8, <1>9, <1>10, <1>11, <1>12, <1>13 DEF IInv

(* Every step, and a stutter, keeps it.                                    *)
LEMMA NextInvariant ==
    ASSUME IInv, [Next]_vars
    PROVE  IInv'
<1>1. CASE Next
  BY <1>1, TypeOKNext, SessionFlagsNext, RunningNext, PhaseReachedNext,
     UnspoiledNext, AtRestNext, BookkeepingNext, VerifiedNext, SnapshotSeenNext
     DEF IInv
<1>2. CASE UNCHANGED vars
  <2> USE <1>2 DEF vars
  <2>1. Steps' = Steps /\ (Issued' <=> Issued) /\ (Sure' <=> Sure)
    BY DEF Steps, Issued, Sure
  <2>2. TypeOK' /\ SessionFlags' /\ Running'
    BY <2>1 DEF IInv, TypeOK, SessionFlags, Running
  <2>3. PhaseReached' /\ Unspoiled'
    BY <2>1 DEF IInv, PhaseReached, Unspoiled
  <2>4. AtRest' /\ SnapshotSeen'
    BY <2>1 DEF IInv, AtRest, SnapshotSeen
  <2>5. Bookkeeping'
    BY BookkeepingKept DEF IInv
  <2>6. Verified'
    BY <2>1, VerifiedFrame DEF IInv, Verified
  <2> QED BY <2>2, <2>3, <2>4, <2>5, <2>6 DEF IInv
<1> QED BY <1>1, <1>2

THEOREM Invariance == Spec => []IInv
<1>1. Init => IInv
  BY InitInvariant
<1>2. IInv /\ [Next]_vars => IInv'
  BY NextInvariant
<1> QED BY <1>1, <1>2, PTL DEF Spec

-----------------------------------------------------------------------------
(* Every variable of a run keeps its type: the step index stays within the  *)
(* plan and the polls within the limit, whatever fails.                    *)
THEOREM TypeCorrect == Spec => []TypeOK
<1>1. IInv => TypeOK
  BY DEF IInv
<1> QED BY <1>1, Invariance, PTL

(* Whatever failed, a finished run has given back the bus, the device and   *)
(* the executor (PerformCleanup and the outer finally of ExecuteInternal).  *)
THEOREM AllReleased == Spec => []EverythingReleased
<1>1. IInv => EverythingReleased
  BY DEF IInv, SessionFlags, Running, EverythingReleased
<1> QED BY <1>1, Invariance, PTL

(* A finished run that sent a command and reports a known-safe device left  *)
(* no erase or program at work in the part.                                *)
THEOREM SafeIsIdle == Spec => []SafeMeansIdle
<1>1. IInv => SafeMeansIdle
  <2> SUFFICES ASSUME IInv, IsTerminal(op), op.disp = ddKnownSafe, Issued
               PROVE  Idle(chip)
    BY DEF SafeMeansIdle
  <2>1. pc = "done"
    BY DEF IInv, Running, IsTerminal, Terminal, NewOutcome
  <2> QED BY <2>1 DEF IInv, AtRest
<1> QED BY <1>1, Invariance, PTL

(* Away from the drain loop and an exception, a part that is at work on one *)
(* of the run's commands is recorded as such.                              *)
THEOREM BusyKnown == Spec => []BusyIsKnown
<1>1. IInv => BusyIsKnown
  <2> SUFFICES ASSUME IInv, Issued, ~Idle(chip), pc \notin {"drain", "unwind"}
               PROVE  pending.disp > ddKnownSafe
    BY DEF BusyIsKnown
  <2>1. pc \notin {"start"} \cup Opening
    BY DEF IInv, Bookkeeping, Issued
  <2>2. pc \in Cleaning \cup {"quiesce", "finish", "except", "done"}
    BY <2>1 DEF IInv, TypeOK, Locations, Calls, AtRest, Sure, Opening, Writing,
                Proving, Cleaning
  <2> QED BY <2>2 DEF IInv, AtRest
<1> QED BY <1>1, Invariance, PTL

(* A mark stands for a command whose call succeeded, and the marks have no  *)
(* gap: what CommandFinished feeds the write journal.                      *)
THEOREM MarksDone == Spec => []MarksAreDone
<1>1. IInv => MarksAreDone
  BY DEF IInv, Bookkeeping
<1> QED BY <1>1, Invariance, PTL

(* Behind the identity gate success means that the part is idle and agrees  *)
(* with every verify step of the plan, that a second session compared it,   *)
(* and that every destructive step was announced.                          *)
THEOREM SuccessHolds == Spec => []SuccessMeansHolds
<1>1. IInv => SuccessMeansHolds
  <2> SUFFICES ASSUME IInv, IdentityGate, op.status = "succeeded"
               PROVE  /\ Holds /\ Idle(chip) /\ op.physical /\ op.fresh
                      /\ \A i \in DOMAIN Steps : Destructive(Steps[i]) => i \in marks
                      /\ req.fullVerify =>
                            NORPlanVerifyCoversRequestedRange(req.plan)
    BY DEF SuccessMeansHolds
  <2>1. op.fresh /\ op.physical /\ Holds /\ InvalidCode = "none"
    BY DEF IInv, Verified, Sure
  <2>2. Idle(chip)
    BY <2>1 DEF IInv, AtRest, Sure
  <2>3. \A i \in DOMAIN Steps : Destructive(Steps[i]) => i \in marks
    BY <2>1 DEF IInv, Bookkeeping
  <2>4. req.fullVerify => NORPlanVerifyCoversRequestedRange(req.plan)
    BY <2>1 DEF InvalidCode
  <2> QED BY <2>1, <2>2, <2>3, <2>4
<1> QED BY <1>1, Invariance, PTL

(* A bound run sends its first command only over the snapshot it was        *)
(* planned from, read by the very session that writes.                     *)
THEOREM SnapshotIsCurrent == Spec => []PreimageHolds
<1>1. IInv => PreimageHolds
  BY DEF IInv, SnapshotSeen, PreimageHolds, Writing
<1> QED BY <1>1, Invariance, PTL

-----------------------------------------------------------------------------
(* Only two actions touch the history of commands.                         *)
LEMMA HistoryMoves ==
    ASSUME IInv, Next
    PROVE  /\ wire' # wire => IssueCommand
           /\ marks' # marks => CommandFinished
           /\ pc = "done" => op' = op /\ wire' = wire
<1>0. TypeOK
  BY DEF IInv
<1>1. ASSUME IssueCommand PROVE marks' = marks /\ pc = "issue"
  BY <1>0, <1>1, IssueCommandCall
<1>2. ASSUME CommandFinished PROVE wire' = wire /\ pc = "finished"
  BY <1>2 DEF CommandFinished
<1>3. CASE OpenDevice
  BY <1>0, <1>3, OpenDeviceCall DEF Failing, Unwinding, history
<1>4. CASE InitializeBus
  BY <1>0, <1>4, InitializeBusCall DEF Failing, Unwinding, history
<1>5. CASE ReadPreimage
  BY <1>0, <1>5, ReadPreimageCall DEF Failing, Unwinding, history
<1>6. CASE WriteEnable
  BY <1>0, <1>6, WriteEnableCall DEF Failing, Unwinding, history
<1>7. CASE CheckLatch
  BY <1>0, <1>7, CheckLatchCall DEF Failing, Unwinding, history
<1>8. CASE Drain
  BY <1>0, <1>8, DrainCall DEF Failing, Unwinding, history
<1>9. CASE VerifyStep
  BY <1>0, <1>9, VerifyStepCall DEF Failing, Unwinding, history
<1>10. CASE FreshVerify
  BY <1>0, <1>10, FreshVerifyCall DEF Failing, Unwinding, history
<1>11. CASE Reopen
  BY <1>0, <1>11, ReopenCall DEF Failing, Unwinding, history
<1>12. CASE Reinitialize
  BY <1>0, <1>12, ReinitializeCall DEF Failing, Unwinding, history
<1>13. CASE WriteDisable \/ Deinitialize \/ CloseDevice
  <2>1. pc # "done"
    BY <1>0, <1>13, CleanupCalls
  <2> QED BY <1>0, <1>13, <2>1, CleanupCalls DEF history
<1>14. CASE Begin \/ NextStep \/ ListenerRaises \/ PhysicallyVerified
            \/ BeforeFreshSession \/ FreshLoop \/ Quiesce
  BY <1>14 DEF Begin, NextStep, ListenerRaises, Unwind, PhysicallyVerified,
               BeforeFreshSession, FreshLoop, Quiesce, history
<1>15. CASE Finish \/ CommitEvidence \/ Finally \/ ExceptClause
  BY <1>15 DEF Finish, CommitEvidence, Finally, ExceptClause, history
<1>16. CASE ChipSettles \/ RequestCancellation \/ Over
  BY <1>16 DEF ChipSettles, RequestCancellation, Over, vars, history
<1> QED BY <1>1, <1>2, <1>3, <1>4, <1>5, <1>6, <1>7, <1>8, <1>9, <1>10, <1>11,
           <1>12, <1>13, <1>14, <1>15, <1>16 DEF Next, Worker, Body, Ending

(* The critical section begins where the token was looked at.               *)
LEMMA CriticalBegins ==
    ASSUME IInv, IInv', Next, op'.critical, ~op.critical
    PROVE  ~token
<1>1. TypeOK /\ (op.critical => pc \in {"issue", "drain", "unwind"})
  BY DEF IInv, Running
<1>2. pc' \in {"issue", "drain", "unwind"} /\ op' # op
  BY DEF IInv, Running
<1>3. CASE OpenDevice
  BY <1>1, <1>2, <1>3, OpenDeviceCall DEF Failing, Unwinding
<1>4. CASE InitializeBus
  BY <1>1, <1>2, <1>4, InitializeBusCall DEF Failing, Unwinding
<1>5. CASE ReadPreimage
  BY <1>1, <1>2, <1>5, ReadPreimageCall DEF Failing, Unwinding
<1>6. CASE WriteEnable
  BY <1>1, <1>2, <1>6, WriteEnableCall DEF Failing, Unwinding
<1>7. CASE CheckLatch
  <2>1. MayBeginCritical(op, token)
    BY <1>2, <1>7 DEF CheckLatch, FailAt, Unwind
  <2> QED BY <2>1 DEF MayBeginCritical
<1>8. CASE Drain
  <2>1. op.critical
    BY <1>8 DEF Drain, IInv, Running
  <2> QED BY <2>1
<1>9. CASE VerifyStep
  BY <1>1, <1>2, <1>9, VerifyStepCall DEF Failing, Unwinding
<1>10. CASE FreshVerify
  BY <1>1, <1>2, <1>10, FreshVerifyCall DEF Failing, Unwinding
<1>11. CASE Reopen
  BY <1>1, <1>2, <1>11, ReopenCall DEF Failing, Unwinding
<1>12. CASE Reinitialize
  BY <1>1, <1>2, <1>12, ReinitializeCall DEF Failing, Unwinding
<1>13. CASE WriteDisable \/ Deinitialize \/ CloseDevice
  BY <1>1, <1>2, <1>13, CleanupCalls
<1>14. CASE IssueCommand
  BY <1>2, <1>14 DEF IssueCommand
<1>15. CASE Begin \/ NextStep \/ PhysicallyVerified \/ BeforeFreshSession \/ FreshLoop \/ Quiesce
  BY <1>2, <1>15 DEF Begin, NextStep, PhysicallyVerified, BeforeFreshSession, FreshLoop, Quiesce, Cleanup, Terminate
<1>16. CASE ListenerRaises \/ CommandFinished
  BY <1>2, <1>16 DEF ListenerRaises, CommandFinished, Unwind
<1>17. CASE Finish \/ CommitEvidence \/ Finally \/ ExceptClause
  BY <1>2, <1>17 DEF Finish, CommitEvidence, Finally, ExceptClause, Cleanup, Terminate
<1>18. CASE ChipSettles \/ RequestCancellation \/ Over
  BY <1>2, <1>18 DEF ChipSettles, RequestCancellation, Over, vars
<1> QED BY <1>3, <1>4, <1>5, <1>6, <1>7, <1>8, <1>9, <1>10, <1>11, <1>12, <1>13, <1>14,
           <1>15, <1>16, <1>17, <1>18 DEF Next, Worker, Body, Ending

(* An opcode goes out only over a clean run, to an idle part with its latch *)
(* set, once for each step; a step is announced only while the part is      *)
(* idle; no cancellation stands when it commits itself to an opcode; a       *)
(* terminal outcome is final.                                              *)
THEOREM IssueIsClean == Spec => CleanIssue
<1>1. ASSUME IInv, IInv', Next
      PROVE  /\ wire' # wire => /\ pending.code = "none" /\ ~cancelled
                                /\ Idle(chip) /\ chip.wel
                                /\ wire[step] = "none"
             /\ op'.critical /\ ~op.critical => ~token
             /\ marks' # marks => Idle(chip) /\ pending.code = "none"
             /\ IsTerminal(op) => op' = op /\ wire' = wire
  <2>1. ASSUME wire' # wire
        PROVE  /\ pending.code = "none" /\ ~cancelled
               /\ Idle(chip) /\ chip.wel /\ wire[step] = "none"
    <3>1. pc = "issue"
      BY <1>1, <2>1, HistoryMoves DEF IssueCommand
    <3>2. pending.code = "none" /\ ~cancelled
      BY <1>1, <3>1 DEF IInv, Unspoiled, Writing
    <3>3. Idle(chip) /\ chip.wel
      BY <1>1, <3>1 DEF IInv, AtRest
    <3>4. step \in DOMAIN Steps
      BY <1>1, <3>1 DEF IInv, Bookkeeping, Writing
    <3>5. \A i \in DOMAIN Steps : i >= step => wire[i] = "none"
      BY <1>1, <3>1 DEF IInv, Bookkeeping, Writing
    <3>6. step >= step
      BY <1>1, PlanShape DEF IInv
    <3> QED BY <3>2, <3>3, <3>4, <3>5, <3>6
  <2>2. ASSUME marks' # marks
        PROVE  Idle(chip) /\ pending.code = "none"
    <3>1. pc = "finished"
      BY <1>1, <2>2, HistoryMoves DEF CommandFinished
    <3>2. Issued
      BY <1>1, <3>1 DEF IInv, Bookkeeping, Issued, Writing
    <3> QED BY <1>1, <3>1, <3>2 DEF IInv, AtRest, Sure, Unspoiled, Writing
  <2>3. IsTerminal(op) => pc = "done"
    BY <1>1 DEF IInv, Running, IsTerminal, Terminal, NewOutcome
  <2>4. op'.critical /\ ~op.critical => ~token
    BY <1>1, CriticalBegins
  <2> QED BY <1>1, <2>1, <2>2, <2>3, <2>4, HistoryMoves
<1>2. IInv /\ IInv' /\ [Next]_vars =>
        [/\ wire' # wire => /\ pending.code = "none" /\ ~cancelled
                            /\ Idle(chip) /\ chip.wel
                            /\ wire[step] = "none"
         /\ op'.critical /\ ~op.critical => ~token
         /\ marks' # marks => Idle(chip) /\ pending.code = "none"
         /\ IsTerminal(op) => op' = op /\ wire' = wire]_vars
  BY <1>1
<1> QED BY <1>2, Invariance, PTL DEF Spec, CleanIssue

-----------------------------------------------------------------------------
(* The transaction of DeviceTransaction.  What each step shows of it.      *)
LEMMA TransactionBegins ==
    ASSUME Init
    PROVE  Transaction!TInit
<1>1. chip.mem \in Image
  <2>1. chip \in Chips
    BY InitInvariant DEF IInv, TypeOK
  <2> QED BY <2>1 DEF Chips
<1>2. SeenOutcome = "running"
  BY DEF Init, SeenOutcome, IsTerminal, Terminal, NewOutcome
<1>3. Holds \in BOOLEAN
  BY DEF Holds
<1>4. (~Idle(chip)) \in BOOLEAN
  BY DEF Idle
<1> QED BY <1>1, <1>2, <1>3, <1>4 DEF Transaction!TInit

(* While the run goes on the outcome seen stays "running".                 *)
LEMMA RunningSeen == IInv /\ pc # "done" => SeenOutcome = "running"
<1> SUFFICES ASSUME IInv, pc # "done" PROVE SeenOutcome = "running"
  OBVIOUS
<1>1. ~IsTerminal(op)
  BY DEF IInv, Running, IsTerminal, Terminal, NewOutcome
<1> QED BY <1>1 DEF SeenOutcome

(* Behind the identity gate a terminal outcome promises what is so.        *)
Borne ==
    /\ SeenOutcome \in Transaction!Outcome \ {"running"}
    /\ SeenOutcome \in Transaction!Promises => Idle(chip)
    /\ SeenOutcome = "succeeded" => Holds

LEMMA OutcomeBorneOut == IdentityGate /\ IInv /\ pc = "done" => Borne
<1> SUFFICES ASSUME IdentityGate, IInv, pc = "done" PROVE Borne
  OBVIOUS
<1> USE DEF Borne
<1>1. IsTerminal(op)
  BY DEF IInv, Running
<1>2. /\ op.status \in {"succeeded", "failed", "cancelled"}
      /\ SeenOutcome = IF op.status # "failed" THEN op.status
                       ELSE IF op.disp = ddKnownSafe /\ Issued THEN "failedSafe"
                       ELSE "failedUnknown"
  BY <1>1 DEF IsTerminal, Terminal, SeenOutcome
<1>3. CASE op.status = "succeeded"
  <2>1. op.fresh /\ op.physical /\ Holds
    BY <1>3 DEF IInv, Verified, Sure
  <2>2. Idle(chip)
    BY <2>1 DEF IInv, AtRest, Sure
  <2> QED BY <1>2, <1>3, <2>1, <2>2 DEF Transaction!Outcome, Transaction!Promises
<1>4. CASE op.status = "cancelled"
  <2>1. Idle(chip)
    BY <1>4 DEF IInv, AtRest, Sure
  <2> QED BY <1>2, <1>4, <2>1 DEF Transaction!Outcome, Transaction!Promises
<1>5. CASE op.status = "failed"
  <2>1. Issued /\ ~Idle(chip) => op.disp > ddKnownSafe
    BY DEF IInv, AtRest
  <2> QED BY <1>2, <1>5, <2>1 DEF Transaction!Outcome, Transaction!Promises
<1> QED BY <1>2, <1>3, <1>4, <1>5

(* A step that leaves the chip's memory and work alone either goes on or    *)
(* ends the transaction.                                                   *)
LEMMA QuietStep ==
    ASSUME IdentityGate, IInv, IInv', UNCHANGED req, pc # "done",
           chip'.mem = chip.mem, Idle(chip') <=> Idle(chip)
    PROVE  \/ Transaction!End
           \/ UNCHANGED <<chip.mem, Holds, ~Idle(chip), SeenOutcome>>
<1>1. Holds' = Holds
  BY DEF Holds, Agrees, Steps
<1>2. SeenOutcome = "running"
  BY RunningSeen
<1>3. (~Idle(chip))' = ~Idle(chip)
  OBVIOUS
<1>4. CASE pc' # "done"
  <2>1. (SeenOutcome = "running")'
    <3>1. (IInv /\ pc # "done" => SeenOutcome = "running")'
      BY RunningSeen, PTL
    <3> QED BY <1>4, <3>1
  <2> QED BY <1>1, <1>2, <1>3, <2>1
<1>5. CASE pc' = "done"
  <2>1. (IdentityGate /\ IInv /\ pc = "done" => Borne)'
    BY OutcomeBorneOut, PTL
  <2>2. Borne'
    BY <1>5, <2>1
  <2> QED BY <1>1, <1>2, <1>3, <2>2 DEF Transaction!End, Borne
<1> QED BY <1>4, <1>5

(* Only the command itself and the chip make more than a quiet step.       *)
LEMMA QuietActions ==
    ASSUME IInv, Worker, ~IssueCommand
    PROVE  /\ req' = req /\ pc # "done" /\ chip'.mem = chip.mem
           /\ Idle(chip') <=> Idle(chip)
<1>0. TypeOK /\ chip \in Chips /\ ret # "done"
  BY DEF IInv, TypeOK
<1>1. /\ Idle(WRDI(chip)) <=> Idle(chip)
      /\ WRDI(chip).mem = chip.mem
      /\ Idle(WREN(chip)) <=> Idle(chip)
      /\ WREN(chip).mem = chip.mem
  BY <1>0 DEF WRDI, WREN, Idle, Chips
<1>2. CASE Begin \/ NextStep \/ ListenerRaises \/ CommandFinished
           \/ PhysicallyVerified \/ BeforeFreshSession \/ FreshLoop \/ Quiesce
  BY <1>2 DEF Begin, NextStep, ListenerRaises, CommandFinished,
              PhysicallyVerified, BeforeFreshSession, FreshLoop, Quiesce, given
<1>3. CASE OpenDevice \/ InitializeBus \/ ReadPreimage \/ CheckLatch
  BY <1>0, <1>3, OpenDeviceCall, InitializeBusCall, ReadPreimageCall,
     CheckLatchCall DEF given
<1>4. CASE WriteEnable
  BY <1>0, <1>1, <1>4, WriteEnableCall DEF given
<1>5. CASE Drain \/ VerifyStep \/ FreshVerify \/ Reopen \/ Reinitialize
  BY <1>0, <1>5, DrainCall, VerifyStepCall, FreshVerifyCall, ReopenCall,
     ReinitializeCall DEF given
<1>6. CASE WriteDisable \/ Deinitialize \/ CloseDevice
  BY <1>0, <1>1, <1>6, CleanupCalls DEF given
<1>7. CASE Finish \/ CommitEvidence \/ Finally \/ ExceptClause
  BY <1>7 DEF Finish, CommitEvidence, Finally, ExceptClause, given
<1> QED BY <1>2, <1>3, <1>4, <1>5, <1>6, <1>7 DEF Worker, Body, Ending

LEMMA TransactionStep ==
    ASSUME IdentityGate, IInv, IInv', [Next]_vars
    PROVE  [Transaction!TNext]_<<chip.mem, Holds, ~Idle(chip), SeenOutcome>>
<1>1. CASE UNCHANGED vars
  <2>1. Holds' = Holds /\ SeenOutcome' = SeenOutcome /\ chip' = chip
    BY <1>1 DEF vars, Holds, Agrees, Steps, SeenOutcome, Issued
  <2> QED BY <2>1
<1>2. CASE ChipSettles
  <2>1. ~Idle(chip) /\ Idle(chip') /\ UNCHANGED <<req, op, wire>>
    BY <1>2 DEF ChipSettles, Idle, Settle, given, history
  <2>2. SeenOutcome' = SeenOutcome
    BY <2>1 DEF SeenOutcome, Issued, Steps
  <2>3. chip'.mem \in Image
    BY DEF IInv, TypeOK, Chips
  <2>4. Holds' \in BOOLEAN
    BY DEF Holds
  <2>5. Transaction!Settle
    BY <2>1, <2>2, <2>3, <2>4 DEF Transaction!Settle
  <2> QED BY <2>5 DEF Transaction!TNext
<1>3. CASE IssueCommand
  <2>1. /\ pc = "issue" /\ pc' = "drain" /\ req' = req
        /\ chip' \in {chip, Accept(chip, Current)}
    BY <1>3, IssueCommandCall DEF IInv, given
  <2>2. Idle(chip) /\ chip'.mem = chip.mem
    BY <2>1 DEF IInv, TypeOK, AtRest, Accept, Chips
  <2>3. CASE Idle(chip')
    BY <2>1, <2>2, <2>3, QuietStep DEF Transaction!TNext
  <2>4. CASE ~Idle(chip')
    <3>1. SeenOutcome = "running"
      BY <2>1, RunningSeen
    <3>2. (IInv /\ pc # "done" => SeenOutcome = "running")'
      BY RunningSeen, PTL
    <3>3. Holds' = Holds
      BY <2>1, <2>2 DEF Holds, Agrees, Steps
    <3>4. Transaction!Command
      BY <2>1, <2>2, <2>4, <3>1, <3>2, <3>3 DEF Transaction!Command
    <3> QED BY <3>4 DEF Transaction!TNext
  <2> QED BY <2>3, <2>4
<1>4. CASE Worker /\ ~IssueCommand
  BY <1>4, QuietActions, QuietStep DEF Transaction!TNext
<1>5. CASE RequestCancellation
  BY <1>5, QuietStep DEF RequestCancellation, given, Transaction!TNext
<1>6. CASE Over
  BY <1>1, <1>6 DEF Over
<1> QED BY <1>1, <1>2, <1>3, <1>4, <1>5, <1>6 DEF Next

(* The executor implements the transaction its callers see: behind the      *)
(* identity gate no outcome promises more than the part bears out, and only *)
(* a running transaction sends commands, and only to an idle part.         *)
THEOREM ImplementsTransaction ==
    ASSUME IdentityGate
    PROVE  Spec => IsTransaction
<1>1. Init => Transaction!TInit
  BY TransactionBegins
<1>2. IInv /\ IInv' /\ [Next]_vars =>
        [Transaction!TNext]_<<chip.mem, Holds, ~Idle(chip), SeenOutcome>>
  BY TransactionStep
<1> QED BY <1>1, <1>2, Invariance, PTL DEF Spec, IsTransaction, Transaction!TSpec

-----------------------------------------------------------------------------
(* A bound run writes only where its plan has a destructive step.  Until it *)
(* fails, and from then on if both sessions verified it, the rest of the    *)
(* part is the planning snapshot: the only command that can still change it *)
(* is the current step's.                                                  *)
Rewritten(a) ==
    \E i \in DOMAIN Steps : Destructive(Steps[i]) /\ a \in StepRange(Steps[i])

Kept == \A a \in Addr : chip.mem[a] = req.expected[a] \/ Rewritten(a)

Preserved ==
    IdentityGate /\ req.bind =>
        /\ pc \in Writing \/ op.physical => Kept
        /\ pc = "drain" /\ ~Idle(chip) => chip.flight = Current

(* A run gets to the loop only over a snapshot that agrees, or unbound, and *)
(* is physically verified only at its end.                                 *)
LEMMA WritingEntered ==
    ASSUME IInv, Worker
    PROVE  /\ pc' \in Writing =>
                 \/ pc \in Writing
                 \/ pc = "initialize" /\ ~req.bind
                 \/ pc = "preimage" /\ PreimageAgrees
           /\ op'.physical => op.physical \/ pc = "verified"
           /\ pc' = "drain" => IssueCommand \/ (pc = "drain" /\ chip' = chip /\ step' = step)
<1>0. /\ TypeOK /\ Running /\ PhaseReached /\ Verified /\ op \in Outcomes
      /\ ret \in {"fresh", "finish", "except"}
  BY DEF IInv, TypeOK
<1> USE DEF Writing
<1>1. CASE Begin
  BY <1>0, <1>1, BeginOutcome
<1>2. CASE OpenDevice
  BY <1>0, <1>2, OpenDeviceCall, AdvancingOutcome DEF Failing, Unwinding, Advancing
<1>3. CASE InitializeBus
  BY <1>0, <1>3, InitializeBusCall, AdvancingOutcome DEF Failing, Unwinding, Advancing
<1>4. CASE ReadPreimage
  BY <1>0, <1>4, ReadPreimageCall, AdvancingOutcome DEF Failing, Unwinding, Advancing
<1>5. CASE NextStep
  BY <1>5 DEF NextStep
<1>6. CASE WriteEnable
  BY <1>0, <1>6, WriteEnableCall DEF Failing, Unwinding
<1>7. CASE CheckLatch
  BY <1>0, <1>7, CheckLatchCall DEF Failing, Unwinding, BeginCritical, Outcomes
<1>8. CASE IssueCommand
  BY <1>0, <1>8, IssueCommandCall
<1>9. CASE ListenerRaises
  BY <1>9 DEF ListenerRaises, Unwind
<1>10. CASE Drain
  BY <1>0, <1>10, DrainCall DEF Failing, Unwinding, EndCritical, Outcomes
<1>11. CASE CommandFinished
  BY <1>11 DEF CommandFinished
<1>12. CASE VerifyStep
  BY <1>0, <1>12, VerifyStepCall DEF Failing, Unwinding
<1>13. CASE FreshVerify
  BY <1>0, <1>13, FreshVerifyCall DEF Failing, Unwinding
<1>14. CASE PhysicallyVerified
  BY <1>14 DEF PhysicallyVerified, Cleanup
<1>15. CASE BeforeFreshSession
  BY <1>15 DEF BeforeFreshSession
<1>16. CASE Reopen
  BY <1>0, <1>16, ReopenCall DEF Failing, Unwinding
<1>17. CASE Reinitialize
  BY <1>0, <1>17, ReinitializeCall DEF Failing, Unwinding
<1>18. CASE FreshLoop
  BY <1>0, <1>18 DEF FreshLoop, Outcomes
<1>19. CASE Quiesce
  <2>1. op'.physical = op.physical
    BY <1>0, <1>19, AdvancingOutcome DEF Advancing
  <2>2. pc' \in {"writeDisable", "close", "finish"}
    BY <1>19 DEF Quiesce, Cleanup
  <2> QED BY <2>1, <2>2
<1>20. CASE WriteDisable \/ Deinitialize \/ CloseDevice
  BY <1>0, <1>20, CleanupCalls
<1>21. CASE Finish \/ CommitEvidence \/ ExceptClause
  <2>1. op'.physical = op.physical /\ pc' \in {"commit", "done"}
    BY <1>0, <1>21, ClosingOutcome DEF Closing
  <2> QED BY <2>1
<1>22. CASE Finally
  <2>1. op'.physical = op.physical
    BY <1>0, <1>22 DEF Finally, EndCritical, Outcomes
  <2>2. pc' \in {"writeDisable", "close", "except"}
    BY <1>22 DEF Finally, Cleanup
  <2> QED BY <2>1, <2>2
<1> QED BY <1>1, <1>2, <1>3, <1>4, <1>5, <1>6, <1>7, <1>8, <1>9, <1>10, <1>11,
           <1>12, <1>13, <1>14, <1>15, <1>16, <1>17, <1>18, <1>19, <1>20,
           <1>21, <1>22 DEF Worker, Body, Ending

LEMMA KeptFrame ==
    ASSUME req' = req, chip'.mem = chip.mem
    PROVE  Kept' <=> Kept
BY DEF Kept, Rewritten, Steps

LEMMA PreservedNext ==
    ASSUME IInv, Preserved, [Next]_vars
    PROVE  Preserved'
<1> SUFFICES ASSUME IdentityGate, req'.bind
             PROVE  /\ pc' \in Writing \/ op'.physical => Kept'
                    /\ pc' = "drain" /\ ~Idle(chip') => chip'.flight = Current'
  BY DEF Preserved
<1>1. CASE UNCHANGED vars
  BY <1>1, KeptFrame DEF vars, Preserved, Current, Steps
<1>2. CASE ChipSettles
  <2>1. ~Idle(chip) /\ UNCHANGED <<req, pc, op, step>> /\ Idle(chip')
    BY <1>2 DEF ChipSettles, Idle, Settle, given
  <2>2. PICK part \in SUBSET StepRange(chip.flight) : chip' = Settle(chip, part)
    BY <1>2 DEF ChipSettles
  <2>3. ASSUME pc \in Writing \/ op.physical PROVE Kept'
    <3>1. pc = "drain"
      BY <2>1, <2>3 DEF IInv, AtRest, Sure
    <3>2. chip.flight = Current /\ Kept
      BY <2>1, <2>3, <3>1 DEF Preserved
    <3>3. step \in DOMAIN Steps /\ Destructive(Current)
      BY <3>1 DEF IInv, Bookkeeping, Writing
    <3>4. \A a \in Addr : a \notin part => chip'.mem[a] = chip.mem[a]
      BY <2>2 DEF Settle, Effect
    <3>5. \A a \in part : Rewritten(a)
      BY <2>2, <3>2, <3>3 DEF Rewritten, Current
    <3>6. Steps' = Steps
      BY <2>1 DEF Steps
    <3>7. \A a \in Addr : Rewritten(a)' <=> Rewritten(a)
      BY <3>6 DEF Rewritten
    <3> QED BY <2>1, <3>2, <3>4, <3>5, <3>7 DEF Kept
  <2> QED BY <2>1, <2>3
<1>3. CASE IssueCommand
  <2>1. /\ pc = "issue" /\ pc' = "drain" /\ req' = req /\ step' = step
        /\ chip' \in {chip, Accept(chip, Current)}
    BY <1>3, IssueCommandCall DEF IInv, given
  <2>2. Idle(chip) /\ chip \in Chips
    BY <2>1 DEF IInv, TypeOK, AtRest
  <2>3. chip'.mem = chip.mem /\ (~Idle(chip') => chip'.flight = Current)
    BY <2>1, <2>2 DEF Accept, Chips
  <2>4. Kept
    BY <2>1 DEF Preserved, Writing
  <2>5. Current' = Current
    BY <2>1 DEF Current, Steps
  <2> QED BY <2>1, <2>3, <2>4, <2>5, KeptFrame
<1>4. CASE Worker /\ ~IssueCommand
  <2>1. req' = req /\ chip'.mem = chip.mem
    BY <1>4, QuietActions
  <2>2. ASSUME pc' \in Writing \/ op'.physical PROVE Kept
    <3>1. CASE pc \in Writing \/ op.physical
      BY <2>1, <3>1 DEF Preserved
    <3>2. CASE pc = "preimage" /\ PreimageAgrees
      <4>1. Idle(chip)
        BY <3>2 DEF IInv, AtRest, Sure
      <4> QED BY <3>2, <4>1 DEF PreimageAgrees, Shown, Kept
    <3> QED BY <1>4, <2>1, <2>2, <3>1, <3>2, WritingEntered DEF Writing
  <2>3. pc' = "drain" /\ ~Idle(chip') => chip'.flight = Current'
    <3>1. pc' = "drain" => pc = "drain" /\ chip' = chip /\ Current' = Current
      BY <1>4, <2>1, WritingEntered DEF Current, Steps
    <3> QED BY <2>1, <3>1 DEF Preserved
  <2> QED BY <2>1, <2>2, <2>3, KeptFrame
<1>5. CASE RequestCancellation
  BY <1>5, KeptFrame DEF RequestCancellation, given, Preserved, Current, Steps
<1>6. CASE Over
  BY <1>1, <1>6 DEF Over
<1> QED BY <1>1, <1>2, <1>3, <1>4, <1>5, <1>6 DEF Next

(* Behind the identity gate a bound run of a plan the planner made, when it *)
(* succeeds, leaves the planning snapshot with the patch over it on the     *)
(* whole part, the rest of every touched block included.                   *)
THEOREM SuccessPatches == Spec => []SuccessMeansPatched
<1>1. Init => Preserved
  <2> SUFFICES ASSUME Init PROVE Preserved
    OBVIOUS
  <2>1. pc = "start" /\ ~op.physical
    BY DEF Init, NewOutcome
  <2> QED BY <2>1 DEF Preserved, Writing
<1>2. IInv /\ Preserved /\ [Next]_vars => Preserved'
  BY PreservedNext
<1>3. IInv /\ Preserved => SuccessMeansPatched
  <2> DEFINE patched == Overlay(req.expected, req.patch,
                                req.plan.address, req.plan.length)
  <2> SUFFICES ASSUME IInv, Preserved, IdentityGate, op.status = "succeeded", Planned
               PROVE  chip.mem = patched
    BY DEF SuccessMeansPatched
  <2>1. Holds /\ Kept
    BY DEF IInv, Verified, Sure, Preserved, Planned
  <2>2. /\ req.expected \in Image /\ req.patch \in Image
        /\ req.plan.address \in Nat /\ req.plan.length \in Nat
    <3>1. req \in RequestShape
      BY ExecutorAssumption DEF IInv, TypeOK
    <3> QED BY <3>1 DEF RequestShape
  <2>3. PlanIsSound(Steps, req.expected, patched)
    <3>1. PlanIsSound(DifferentialPlan(req.expected, req.patch, req.plan.address,
                                       req.plan.length).steps, req.expected, patched)
      BY <2>2, PlanSound
    <3> QED BY <3>1 DEF Planned, Steps
  <2>4. patched \in Image /\ chip.mem \in Image
    <3>1. chip \in Chips
      BY DEF IInv, TypeOK
    <3> QED BY <2>2, <3>1, OverlayShape DEF Chips
  <2> HIDE DEF patched
  <2>5. ASSUME NEW a \in Addr PROVE chip.mem[a] = patched[a]
    <3>1. CASE \E j \in DOMAIN Steps : Steps[j].kind = "verify" /\ a \in StepRange(Steps[j])
      BY <2>1, <2>3, <3>1 DEF PlanIsSound, Holds, Agrees
    <3>2. CASE patched[a] = req.expected[a]
               /\ \A j \in DOMAIN Steps : a \notin StepRange(Steps[j])
      BY <2>1, <3>2 DEF Kept, Rewritten
    <3> QED BY <2>3, <3>1, <3>2 DEF PlanIsSound
  <2> QED BY <2>4, <2>5 DEF Image
<1> QED BY <1>1, <1>2, <1>3, Invariance, PTL DEF Spec
=============================================================================
