--------------------------- MODULE Session_proofs ---------------------------
(* What the session suite promises, for every part, image, rail level,      *)
(* strategy, input, fault and job.  Each component has an invariant of its   *)
(* own, which its steps preserve; the theorems of the suite put them         *)
(* together.  First the two engines that keep the records of the operation   *)
(* model, the runner of a SPI NOR read or write and the run of an EEPROM     *)
(* plan, and before them what the operators on those records return.        *)
EXTENDS Session, OperationModel, Sequences, FunctionTheorems, FiniteSetTheorems, TLAPS

-----------------------------------------------------------------------------
USE DEF opCreated, opValidating, opReservingDevice, opOpening,
        opInitializingBus, opCheckingContact, opPlanning, opExecuting,
        opVerifying, opQuiescing, opCommittingEvidence, opCompleted, Phases,
        ddNotOpened, ddKnownSafe, ddBusyUnknown, ddDisconnectedUnknown,
        ddModeUnknown, Dispositions

(* What one failure does to a pending record, and what the state machine of  *)
(* a running operation answers, field by field.                              *)
LEMMA PendingTypes ==
    ASSUME NEW p \in Pendings, NEW code \in ErrorCodes,
           NEW disp \in Dispositions
    PROVE  SetPending(p, code, disp) \in Pendings
BY DEF Pendings, SetPending, Max2

LEMMA PendingWorsens ==
    ASSUME NEW p \in Pendings, NEW code \in ErrorCodes \ {"none"},
           NEW disp \in Dispositions
    PROVE  /\ SetPending(p, code, disp).code # "none"
           /\ p.code # "none" =>
                 /\ SetPending(p, code, disp).code = p.code
                 /\ SetPending(p, code, disp).disp >= p.disp
           /\ p.code = "none" => SetPending(p, code, disp).disp = disp
           /\ SetPending(p, code, disp).disp >= disp
BY DEF Pendings, SetPending, Max2

LEMMA Advanced ==
    ASSUME NEW o \in Outcomes, o.status = "running",
           NEW p \in Phases, p > o.phase
    PROVE  /\ AdvanceTo(o, p) \in Outcomes
           /\ AdvanceTo(o, p).status = "running"
           /\ AdvanceTo(o, p).phase = p
           /\ AdvanceTo(o, p).critical = o.critical
           /\ AdvanceTo(o, p).physical = o.physical
           /\ AdvanceTo(o, p).fresh = o.fresh
<1>1. AdvanceTo(o, p) = [o EXCEPT !.phase = p]
  BY DEF AdvanceTo
<1> QED BY <1>1 DEF Outcomes

LEMMA NewIsBlank ==
    /\ NewOutcome \in Outcomes /\ NewOutcome.status = "notStarted" /\ NewOutcome.phase = 0
    /\ ~NewOutcome.critical /\ ~NewOutcome.physical /\ ~NewOutcome.fresh
    /\ NoPending \in Pendings /\ NoPending.code = "none"
BY DEF NewOutcome, NoPending, Outcomes, Pendings, Statuses, ErrorCodes

LEMMA Started ==
    ASSUME NEW o \in Outcomes, o.status = "notStarted"
    PROVE  /\ Start(o) \in Outcomes
           /\ Start(o).status = "running"
           /\ Start(o).phase = o.phase
           /\ Start(o).critical = o.critical
           /\ Start(o).physical = o.physical
           /\ Start(o).fresh = o.fresh
<1>1. Start(o) = [o EXCEPT !.status = "running"]
  BY DEF Start
<1> QED BY <1>1 DEF Outcomes, Statuses

LEMMA Failed ==
    ASSUME NEW o \in Outcomes, o.status = "running",
           NEW c \in ErrorCodes, NEW d \in Dispositions
    PROVE  /\ Fail(o, c, d) \in Outcomes
           /\ Fail(o, c, d).status = "failed" /\ IsTerminal(Fail(o, c, d))
           /\ Fail(o, c, d).code = c /\ Fail(o, c, d).disp = d
           /\ Fail(o, c, d).critical = o.critical
           /\ Fail(o, c, d).physical = o.physical
           /\ Fail(o, c, d).fresh = o.fresh
<1>1. Fail(o, c, d) = [o EXCEPT !.status = "failed", !.code = c, !.disp = d]
  BY DEF Fail, IsTerminal, Terminal
<1> QED BY <1>1 DEF Outcomes, Statuses, IsTerminal, Terminal

LEMMA Cancelled ==
    ASSUME NEW o \in Outcomes, o.status = "running", ~o.critical,
           NEW d \in Dispositions
    PROVE  /\ Cancel(o, d) \in Outcomes
           /\ Cancel(o, d).status = "cancelled" /\ IsTerminal(Cancel(o, d))
           /\ Cancel(o, d).disp = d
           /\ Cancel(o, d).critical = o.critical
           /\ Cancel(o, d).physical = o.physical
           /\ Cancel(o, d).fresh = o.fresh
<1>1. Cancel(o, d) = [o EXCEPT !.status = "cancelled", !.code = "cancelled",
                               !.disp = d]
  BY DEF Cancel, IsTerminal, Terminal
<1> QED BY <1>1 DEF Outcomes, Statuses, ErrorCodes, IsTerminal, Terminal

LEMMA Completed ==
    ASSUME NEW o \in Outcomes, o.status = "running", ~o.critical,
           o.phase < opCompleted
    PROVE  /\ Complete(o) \in Outcomes
           /\ Complete(o).status = "succeeded" /\ IsTerminal(Complete(o))
           /\ Complete(o).disp = ddKnownSafe
           /\ Complete(o).critical = o.critical
           /\ Complete(o).physical = o.physical
           /\ Complete(o).fresh = o.fresh
<1>1. AdvanceTo(o, opCompleted) = [o EXCEPT !.phase = opCompleted]
  BY DEF AdvanceTo, Outcomes
<1>2. [o EXCEPT !.phase = opCompleted].status = "running"
  BY DEF Outcomes
<1>3. Complete(o) = [o EXCEPT !.phase = opCompleted, !.status = "succeeded",
                              !.code = "none", !.disp = ddKnownSafe]
  BY <1>1, <1>2 DEF Complete, Outcomes
<1>4. "succeeded" \in Statuses /\ "none" \in ErrorCodes
      /\ opCompleted \in Phases /\ ddKnownSafe \in Dispositions
  BY DEF Statuses, ErrorCodes
<1> HIDE DEF Statuses, ErrorCodes, Phases, Dispositions, opCompleted, ddKnownSafe
<1>5. Complete(o) \in Outcomes
  BY <1>3, <1>4 DEF Outcomes
<1> QED BY <1>3, <1>5 DEF Outcomes, IsTerminal, Terminal

HIDE DEF opCreated, opValidating, opReservingDevice, opOpening,
        opInitializingBus, opCheckingContact, opPlanning, opExecuting,
        opVerifying, opQuiescing, opCommittingEvidence, opCompleted, Phases,
        ddNotOpened, ddKnownSafe, ddBusyUnknown, ddDisconnectedUnknown,
        ddModeUnknown, Dispositions

-----------------------------------------------------------------------------
(***************************************************************************)
(* The runner.  What a success, a backup and a write rest on is that every  *)
(* pass agreed, so the invariant follows the passes through the session,    *)
(* and the operation's phase, on which it depends that the state machine    *)
(* refuses nothing on the way.                                             *)
(***************************************************************************)
(* The vocabulary is the same in the instance.                              *)
LEMMA RunnerVocabulary ==
    /\ RR!NewOutcome = NewOutcome /\ RR!NoPending = NoPending
    /\ RR!Outcomes = Outcomes /\ RR!Pendings = Pendings
    /\ RR!Dispositions = Dispositions
    /\ \A o : RR!IsTerminal(o) <=> IsTerminal(o)
    /\ \A o : RR!Start(o) = Start(o)
    /\ \A o, p : RR!AdvanceTo(o, p) = AdvanceTo(o, p)
    /\ \A o, c, d : RR!Fail(o, c, d) = Fail(o, c, d)
    /\ \A o, d : RR!Cancel(o, d) = Cancel(o, d)
    /\ \A o : RR!Complete(o) = Complete(o)
    /\ \A p, c, d : RR!SetPending(p, c, d) = SetPending(p, c, d)
    /\ \A f, c : RR!MapIOError(f, c) = MapIOError(f, c)
<1> USE DEF RR!opCreated, opCreated, RR!opCompleted, opCompleted, RR!ddNotOpened, ddNotOpened,
            RR!ddKnownSafe, ddKnownSafe, RR!Dispositions, Dispositions, RR!Phases, Phases
<1>1. RR!NewOutcome = NewOutcome /\ RR!NoPending = NoPending
  BY Zenon DEF RR!NewOutcome, NewOutcome, RR!NoPending, NoPending
<1>2. RR!Outcomes = Outcomes /\ RR!Pendings = Pendings /\ RR!Dispositions = Dispositions
  BY Zenon DEF RR!Outcomes, Outcomes, RR!Pendings, Pendings, RR!Statuses, Statuses, RR!Phases,
         RR!ErrorCodes, ErrorCodes
<1>3. \A o : RR!IsTerminal(o) <=> IsTerminal(o)
  BY DEF RR!IsTerminal, IsTerminal, RR!Terminal, Terminal
<1>4. \A o : RR!Start(o) = Start(o)
  BY Zenon DEF RR!Start, Start
<1>5. \A o, c, d : RR!Fail(o, c, d) = Fail(o, c, d)
  BY <1>3, Zenon DEF RR!Fail, Fail
<1>6. \A o, p : RR!AdvanceTo(o, p) = AdvanceTo(o, p)
  BY <1>5, Zenon DEF RR!AdvanceTo, AdvanceTo
<1>7. \A o, d : RR!Cancel(o, d) = Cancel(o, d)
  BY <1>3, Zenon DEF RR!Cancel, Cancel
<1>8. \A o : RR!Complete(o) = Complete(o)
  BY <1>5, <1>6, Zenon DEF RR!Complete, Complete
<1>9. \A p, c, d : RR!SetPending(p, c, d) = SetPending(p, c, d)
  BY Zenon DEF RR!SetPending, SetPending, RR!Max2, Max2
<1>10. \A f, c : RR!MapIOError(f, c) = MapIOError(f, c)
  BY Zenon DEF RR!MapIOError, MapIOError
<1> QED BY <1>1, <1>2, <1>3, <1>4, <1>5, <1>6, <1>7, <1>8, <1>9, <1>10

RunnerPc == {"start", "open", "initialize", "pass", "quiesce", "cleanup", "read", "plan",
             "backup", "bound", "job", "done"}
Reading == {"open", "initialize", "pass", "quiesce", "cleanup", "read"}
Writing == {"backup", "bound", "job"}

(* The state machine of the operation, by the step it has reached.          *)
RunnerOperation ==
    /\ pc = "start" => op = NewOutcome
    /\ pc \in Reading \cup Writing => op.status = "running" /\ ~op.critical
    /\ pc = "open" => op.phase = opOpening
    /\ pc = "initialize" => op.phase = opInitializingBus
    /\ pc \in {"pass", "quiesce"} => op.phase < opQuiescing
    /\ pc = "pass" => op.phase = opCheckingContact
    /\ pc \in {"cleanup", "read"} => op.phase = opQuiescing
    /\ pc \in Writing => op.phase = opOpening
    /\ pc = "done" => IsTerminal(op)

(* What the passes have seen, and what may come of it.                      *)
Unanimous == seen = {data} /\ data \in Readings /\ pass = input.passes + 1 /\ pass > 2

RunnerPasses ==
    /\ pc \in {"start", "open", "initialize"} => pass = 1
    /\ pc = "start" => failure = NoPending
    /\ pc \in {"open", "initialize", "pass"} =>
          /\ failure.code = "none" /\ input.passes \in 2 .. 16
          /\ pass <= input.passes + 1
    /\ pc \in {"start", "open", "initialize", "pass"} =>
          IF pass = 1 THEN seen = {} ELSE seen = {data} /\ data \in Readings
    /\ pc \in {"quiesce", "cleanup", "read"} /\ failure.code = "none" => cancelled \/ Unanimous
    /\ pc \in Writing \cup {"plan"} => Unanimous
    /\ pc = "done" /\ op.status = "succeeded" => Unanimous

RunnerWrites ==
    /\ pc \in Writing => input.mode = "write"
    /\ pc \notin {"bound", "job", "done"} => backup = NoData
    /\ pc \notin {"job", "done"} => overwritten = NoData
    /\ pc = "bound" => backup \in {NoData, data}
    /\ pc = "bound" /\ RR!BackupFirst => backup = data

RunnerReleases ==
    /\ pc \notin {"initialize", "pass", "quiesce", "cleanup"} => ~ses.opened /\ ~ses.inited
    /\ pc \in {"start", "done"} => executing = foreign
    /\ foreign \in BOOLEAN

RunnerInv ==
    /\ RR!TypeOK /\ pc \in RunnerPc
    /\ RunnerOperation /\ RunnerPasses /\ RunnerWrites /\ RunnerReleases
    /\ RR!BackupIsUnanimous /\ RR!WritesOverTheBackup

LEMMA RunnerSafety ==
    RunnerInv => /\ RR!TypeOK /\ RR!BackupIsUnanimous /\ RR!WritesOverTheBackup
                 /\ RR!ReadIsUnanimous /\ RR!Released
BY RunnerVocabulary
   DEF RunnerInv, RunnerOperation, RunnerPasses, RunnerReleases, Unanimous,
       RR!ReadIsUnanimous, RR!Released

SuiteRunner == subject = "runner" => RunnerInv

LEMMA RunnerConstants ==
    /\ NoData \notin Readings
    /\ \A i \in Inputs : /\ i.passes \in 0 .. MaxPasses
                         /\ i.mode \in {"read", "preview", "write"}
                         /\ i.wants \in [Readings -> Readings]
    /\ MaxPasses \in Nat
BY SessionAssumptions DEF RR!RunnerAssumption, RR!Input

LEMMA RunnerInit == RR!Init => RunnerInv
<1> SUFFICES ASSUME RR!Init PROVE RunnerInv
  OBVIOUS
<1>1. op = NewOutcome /\ op \in Outcomes /\ failure = NoPending /\ failure \in Pendings
  BY RunnerVocabulary, NewIsBlank DEF RR!Init
<1>2. ses \in [opened : BOOLEAN, inited : BOOLEAN] /\ ~ses.opened /\ ~ses.inited
  BY DEF RR!Init
<1>3. RR!TypeOK
  <2>1. executing \in BOOLEAN /\ cancelled \in BOOLEAN /\ token \in BOOLEAN
    BY DEF RR!Init
  <2>2. op \in RR!Outcomes /\ failure \in RR!Pendings
    BY <1>1, RunnerVocabulary
  <2>3. /\ input \in Inputs /\ pass \in 1 .. MaxPasses + 1 /\ part \in Readings
        /\ seen \subseteq Readings /\ {data, backup, overwritten} \subseteq Readings \cup {NoData}
    BY RunnerConstants DEF RR!Init
  <2> QED BY <2>1, <2>2, <2>3, <1>2 DEF RR!TypeOK
<1>4. RunnerOperation
  BY <1>1 DEF RR!Init, RunnerOperation, Reading, Writing
<1>5. RunnerPasses /\ RunnerWrites /\ RunnerReleases
  BY <1>1, <1>2 DEF RR!Init, RunnerPasses, RunnerWrites, RunnerReleases, Writing
<1> QED BY <1>3, <1>4, <1>5
        DEF RR!Init, RunnerInv, RunnerPc, RR!BackupIsUnanimous, RR!WritesOverTheBackup

(* What each way of ending, or of going on, makes of the operation.         *)
LEMMA RefusedOutcome ==
    ASSUME NEW code \in ErrorCodes, RR!FailedOutcome(code)
    PROVE  /\ op' \in Outcomes /\ op'.status = "failed" /\ IsTerminal(op')
           /\ pc' = "done" /\ executing' = foreign
<1> USE DEF opCreated, opValidating, ddNotOpened, Phases, Dispositions
<1> DEFINE begun == AdvanceTo(Start(NewOutcome), opValidating)
<1>1. Start(NewOutcome) \in Outcomes /\ Start(NewOutcome).status = "running"
      /\ Start(NewOutcome).phase = 0
  BY NewIsBlank, Started
<1>2. begun \in Outcomes /\ begun.status = "running"
  BY <1>1, Advanced
<1>3. op' = Fail(begun, code, ddNotOpened) /\ pc' = "done" /\ executing' = foreign
  BY RunnerVocabulary DEF RR!FailedOutcome, RR!opValidating, RR!ddNotOpened
<1> HIDE DEF begun
<1> QED BY <1>2, <1>3, Failed

LEMMA FailureSet ==
    ASSUME NEW f \in Faults, NEW rejected \in ErrorCodes \ {"none"},
           NEW disp \in Dispositions, failure \in Pendings,
           RR!Fails(f, rejected, disp)
    PROVE  failure' \in Pendings /\ failure'.code # "none" /\ pc' = "quiesce"
<1>1. MapIOError(f, rejected) \in ErrorCodes \ {"none"} /\ "transport" \in ErrorCodes
  BY DEF MapIOError, ErrorCodes
<1>2. ddModeUnknown \in Dispositions
  BY DEF ddModeUnknown, Dispositions
<1>3. /\ pc' = "quiesce"
      /\ \/ failure' = SetPending(failure, "transport", ddModeUnknown)
         \/ failure' = SetPending(failure, MapIOError(f, rejected), disp)
  BY RunnerVocabulary DEF RR!Fails, RR!ddModeUnknown, ddModeUnknown
<1> QED BY <1>1, <1>2, <1>3, PendingTypes, PendingWorsens

LEMMA CauseNamed ==
    ASSUME failure \in Pendings, NEW disp \in {0, 1, 4},
           NEW code \in {"invalid", "contactUnstable", "shortTransfer", "cleanupFailed"}
    PROVE  /\ SetPending(failure, code, disp) \in Pendings
           /\ SetPending(failure, code, disp).code # "none"
<1>1. code \in ErrorCodes \ {"none"} /\ disp \in Dispositions
  BY DEF ErrorCodes, Dispositions
<1> QED BY <1>1, PendingTypes, PendingWorsens

(* Each step preserves the invariant.  The parts a step leaves alone, or    *)
(* changes by assignment, follow together; the outcome comes first.         *)
LEMMA RunnerStep ==
    ASSUME RunnerInv, RR!Next
    PROVE  RunnerInv'
<1> USE RunnerConstants
<1> USE DEF RunnerInv, RunnerPc, RunnerOperation, RunnerPasses, RunnerWrites, RunnerReleases,
            Reading, Writing, Unanimous, RR!TypeOK, RR!BackupIsUnanimous,
            RR!WritesOverTheBackup, RR!given, RR!history
<1> USE DEF RR!opValidating, RR!opOpening, RR!opInitializingBus, RR!opCheckingContact,
            RR!opQuiescing, opOpening, opInitializingBus, opCheckingContact, opQuiescing,
            RR!ddNotOpened, RR!ddKnownSafe, RR!ddModeUnknown, IsTerminal, Terminal
<1>o. op \in Outcomes /\ failure \in Pendings /\ RR!Outcomes = Outcomes /\ RR!Pendings = Pendings
  BY RunnerVocabulary
<1>d. 0 \in Dispositions /\ 1 \in Dispositions /\ 4 \in Dispositions
  BY DEF Dispositions
<1>p. \A n \in {1, 3, 4, 6, 12, 14} : n \in Phases
  BY DEF Phases
<1>c. {"deviceBusy", "invalid", "backupUntrusted", "openFailed", "busInitFailed", "transport",
       "contactUnstable", "shortTransfer", "cleanupFailed"} \subseteq ErrorCodes \ {"none"}
  BY DEF ErrorCodes
<1>f. ASSUME NEW f \in Faults, NEW rejected \in ErrorCodes \ {"none"},
             NEW disp \in {0, 1, 4}, RR!Fails(f, rejected, disp)
      PROVE  failure' \in Pendings /\ failure'.code # "none" /\ pc' = "quiesce"
  BY <1>f, <1>o, <1>d, FailureSet DEF Dispositions
<1>1. CASE RR!Begin
  <2>1. pc = "start" /\ op = NewOutcome /\ input.passes \in Nat
        /\ UNCHANGED <<input, foreign, pass, cancelled, token, ses, data, part, changes, seen,
                       backup, overwritten>>
    BY <1>1 DEF RR!Begin
  <2>2. \/ /\ op' \in Outcomes /\ op'.status = "failed" /\ IsTerminal(op')
           /\ pc' = "done" /\ executing' = foreign /\ UNCHANGED failure
        \/ /\ executing' = TRUE /\ input.passes \in 2 .. 16
           /\ op' = AdvanceTo(Start(op), opOpening) /\ pc' = "open" /\ UNCHANGED failure
        \/ /\ executing' = TRUE
           /\ op' = AdvanceTo(Start(op), opValidating)
           /\ failure' = SetPending(failure, "invalid", ddNotOpened) /\ pc' = "quiesce"
    BY <1>1, <1>c, RefusedOutcome, RunnerVocabulary
       DEF RR!Begin, opValidating, ddNotOpened
  <2>3. Start(op) \in Outcomes /\ Start(op).status = "running" /\ Start(op).phase = 0
        /\ ~Start(op).critical
    BY <2>1, NewIsBlank, Started
  <2>4. ASSUME NEW n \in {1, 3}
        PROVE  /\ AdvanceTo(Start(op), n) \in Outcomes
               /\ AdvanceTo(Start(op), n).status = "running"
               /\ AdvanceTo(Start(op), n).phase = n /\ ~AdvanceTo(Start(op), n).critical
    BY <2>3, <1>p, Advanced
  <2>5. /\ SetPending(failure, "invalid", ddNotOpened) \in Pendings
        /\ SetPending(failure, "invalid", ddNotOpened).code # "none"
    BY <1>o, CauseNamed DEF ddNotOpened
  <2>6. \/ /\ op' \in Outcomes /\ op'.status = "failed"
           /\ pc' = "done" /\ executing' = foreign /\ UNCHANGED failure
        \/ /\ executing' = TRUE /\ op' \in Outcomes /\ op'.status = "running" /\ ~op'.critical
           /\ \/ input.passes \in 2 .. 16 /\ op'.phase = 3 /\ pc' = "open" /\ UNCHANGED failure
              \/ /\ op'.phase = 1 /\ pc' = "quiesce"
                 /\ failure' \in Pendings /\ failure'.code # "none"
    BY <2>2, <2>4, <2>5 DEF opValidating
  <2>7. failure.code = "none"
    BY <2>1, NewIsBlank
  <2>8. CASE pc' = "done"
    BY <2>1, <2>6, <2>7, <2>8, <1>o
  <2>9. CASE pc' = "open"
    BY <2>1, <2>6, <2>7, <2>9, <1>o
  <2>10. CASE pc' = "quiesce"
    BY <2>1, <2>6, <2>7, <2>10, <1>o
  <2> QED BY <2>6, <2>8, <2>9, <2>10
<1>2. CASE RR!Open
  <2>1. pc = "open"
        /\ UNCHANGED <<input, foreign, executing, pass, cancelled, token, data, part, changes,
                       seen, backup, overwritten>>
    BY <1>2 DEF RR!Open
  <2>2. \/ /\ failure' = [failure EXCEPT !.disp = 1] /\ pc' = "initialize"
           /\ ses' = [ses EXCEPT !.opened = TRUE]
           /\ op' = AdvanceTo(op, 4)
        \/ failure' \in Pendings /\ failure'.code # "none" /\ pc' = "quiesce" /\ UNCHANGED <<ses, op>>
    BY <1>2, <1>f, <1>c, RunnerVocabulary DEF RR!Open
  <2>3. /\ AdvanceTo(op, 4) \in Outcomes /\ AdvanceTo(op, 4).status = "running"
        /\ AdvanceTo(op, 4).phase = 4 /\ ~AdvanceTo(op, 4).critical
    BY <2>1, <1>o, <1>p, Advanced
  <2>4. /\ [failure EXCEPT !.disp = 1] \in Pendings
        /\ [failure EXCEPT !.disp = 1].code = failure.code
    BY <1>o, <1>d DEF Pendings
  <2>5. ses' \in [opened : BOOLEAN, inited : BOOLEAN]
    BY <2>2
  <2>6. \/ /\ failure' \in Pendings /\ failure'.code = "none" /\ pc' = "initialize"
           /\ op' \in Outcomes /\ op'.status = "running" /\ op'.phase = 4 /\ ~op'.critical
        \/ failure' \in Pendings /\ failure'.code # "none" /\ pc' = "quiesce" /\ UNCHANGED op
    BY <2>1, <2>2, <2>3, <2>4
  <2> QED BY <2>1, <2>5, <2>6, <1>o
<1>3. CASE RR!Initialize
  <2>1. pc = "initialize"
        /\ UNCHANGED <<input, foreign, executing, pass, cancelled, token, data, part, changes,
                       seen, backup, overwritten>>
    BY <1>3 DEF RR!Initialize
  <2>2. \/ /\ UNCHANGED failure /\ pc' = "pass"
           /\ ses' = [ses EXCEPT !.inited = TRUE]
           /\ op' = AdvanceTo(op, 6)
        \/ failure' \in Pendings /\ failure'.code # "none" /\ pc' = "quiesce" /\ UNCHANGED <<ses, op>>
    BY <1>3, <1>f, <1>c, RunnerVocabulary DEF RR!Initialize
  <2>3. /\ AdvanceTo(op, 6) \in Outcomes /\ AdvanceTo(op, 6).status = "running"
        /\ AdvanceTo(op, 6).phase = 6 /\ ~AdvanceTo(op, 6).critical
    BY <2>1, <1>o, <1>p, Advanced
  <2>5. ses' \in [opened : BOOLEAN, inited : BOOLEAN]
    BY <2>2
  <2> QED BY <2>1, <2>2, <2>3, <2>5, <1>o
<1>4. CASE RR!ReadPass
  <2>1. pc = "pass" /\ pass <= input.passes
        /\ UNCHANGED <<input, foreign, executing, op, cancelled, token, ses, part, changes,
                       backup, overwritten>>
    BY <1>4 DEF RR!ReadPass
  <2>2. CASE /\ pass = 1 \/ part = data
             /\ data' = part /\ seen' = seen \cup {part} /\ pass' = pass + 1
             /\ UNCHANGED <<pc, failure>>
    BY <2>1, <2>2, <1>o
  <2>3. CASE UNCHANGED <<data, pass>> /\ pc' = "quiesce" /\ seen' \subseteq Readings
             /\ failure' \in Pendings /\ failure'.code # "none"
    BY <2>1, <2>3, <1>o
  <2>4. ASSUME NEW code \in {"contactUnstable", "shortTransfer"}
        PROVE  /\ SetPending(failure, code, 1) \in Pendings
               /\ SetPending(failure, code, 1).code # "none"
    BY <1>o, CauseNamed
  <2>5. seen \subseteq Readings /\ seen \cup {part} \subseteq Readings
    OBVIOUS
  <2> QED BY <1>4, <2>2, <2>3, <2>4, <2>5, <1>f, <1>c, RunnerVocabulary DEF RR!ReadPass
<1>5. CASE RR!EndPasses
  BY <1>5, <1>o DEF RR!EndPasses
<1>6. CASE RR!Quiesce
  <2>1. op' = AdvanceTo(op, 12)
    BY <1>6, RunnerVocabulary DEF RR!Quiesce
  <2>2. /\ op' \in Outcomes /\ op'.status = "running" /\ op'.phase = 12 /\ ~op'.critical
    BY <2>1, <1>6, <1>o, <1>p, Advanced DEF RR!Quiesce
  <2> QED BY <1>6, <2>2, <1>o DEF RR!Quiesce
<1>7. CASE RR!Cleanup
  <2>1. ses' \in [opened : BOOLEAN, inited : BOOLEAN] /\ ~ses'.opened /\ ~ses'.inited
    BY <1>7 DEF RR!Cleanup, RR!Owed
  <2>2. /\ SetPending(failure, "cleanupFailed", 4) \in Pendings
        /\ SetPending(failure, "cleanupFailed", 4).code # "none"
    BY <1>o, CauseNamed
  <2>3. failure' = failure \/ (failure' \in Pendings /\ failure'.code # "none")
    BY <1>7, <2>2, RunnerVocabulary DEF RR!Cleanup
  <2> QED BY <1>7, <2>1, <2>3, <1>o DEF RR!Cleanup
<1>8. CASE RR!EndRead
  <2>1. pc = "read"
        /\ UNCHANGED <<input, foreign, failure, pass, cancelled, token, ses, data, part,
                       changes, seen, backup, overwritten>>
    BY <1>8 DEF RR!EndRead
  <2>2. /\ op' \in Outcomes /\ IsTerminal(op')
        /\ op'.status = "succeeded" => failure.code = "none" /\ ~cancelled
    <3>1. CASE failure.code # "none"
      BY <3>1, <2>1, <1>8, <1>o, Failed, RunnerVocabulary DEF RR!EndRead, Pendings
    <3>2. CASE failure.code = "none" /\ (cancelled \/ token)
      BY <3>2, <2>1, <1>8, <1>o, <1>d, Cancelled, RunnerVocabulary DEF RR!EndRead
    <3>3. CASE failure.code = "none" /\ ~cancelled /\ ~token
      BY <3>3, <2>1, <1>8, <1>o, Completed, RunnerVocabulary DEF RR!EndRead, opCompleted
    <3> QED BY <3>1, <3>2, <3>3
  <2>3. \/ op'.status = "succeeded" /\ pc' = "plan" /\ UNCHANGED executing
        \/ pc' = "done" /\ executing' = foreign
    BY <1>8 DEF RR!EndRead, RR!Leave
  <2> QED BY <2>1, <2>2, <2>3, <1>o
<1>9. CASE RR!Plan
  <2>1. pc = "plan"
        /\ UNCHANGED <<input, foreign, failure, pass, cancelled, token, ses, data, part,
                       changes, seen, backup, overwritten>>
    BY <1>9 DEF RR!Plan
  <2>2. Start(NewOutcome) \in Outcomes /\ Start(NewOutcome).status = "running"
        /\ Start(NewOutcome).phase = 0 /\ ~Start(NewOutcome).critical
    BY NewIsBlank, Started
  <2>3. ASSUME NEW n \in {3, 12}
        PROVE  LET o == AdvanceTo(Start(NewOutcome), n)
               IN  o \in Outcomes /\ o.status = "running" /\ o.phase = n /\ ~o.critical
    BY <2>2, <1>p, Advanced
  <2>4. LET o == Complete(AdvanceTo(Start(NewOutcome), 12))
        IN  o \in Outcomes /\ IsTerminal(o)
    BY <2>3, Completed DEF opCompleted
  <2>5. \/ op' \in Outcomes /\ IsTerminal(op') /\ pc' = "done" /\ executing' = foreign
        \/ /\ input.mode = "write" /\ UNCHANGED executing
           /\ op' = AdvanceTo(Start(NewOutcome), 3)
           /\ pc' = IF RR!BackupFirst THEN "backup" ELSE "bound"
    BY <1>9, <2>4, <1>c, RefusedOutcome, RunnerVocabulary DEF RR!Plan, RR!Leave
  <2>6. CASE op' \in Outcomes /\ IsTerminal(op') /\ pc' = "done" /\ executing' = foreign
    BY <2>1, <2>6, <1>o
  <2>7. CASE /\ input.mode = "write" /\ UNCHANGED executing
             /\ op' = AdvanceTo(Start(NewOutcome), 3)
             /\ pc' = IF RR!BackupFirst THEN "backup" ELSE "bound"
    <3>1. RR!BackupFirst' <=> RR!BackupFirst
      BY <2>1 DEF RR!BackupFirst, RR!Destructive
    <3> QED BY <2>1, <2>3, <2>7, <3>1, <1>o
  <2> QED BY <2>5, <2>6, <2>7
<1>10. CASE RR!CommitBackup
  <2>1. pc = "backup"
        /\ UNCHANGED <<input, foreign, failure, pass, cancelled, token, ses, data, part,
                       changes, seen, overwritten>>
    BY <1>10 DEF RR!CommitBackup
  <2>2. \/ backup' = data /\ pc' = "bound" /\ UNCHANGED <<op, executing>>
        \/ /\ UNCHANGED backup /\ op' \in Outcomes /\ IsTerminal(op') /\ op'.status = "failed"
           /\ pc' = "done" /\ executing' = foreign
    BY <1>10, <1>c, RefusedOutcome DEF RR!CommitBackup
  <2> QED BY <2>1, <2>2, <1>o
<1>11. CASE RR!StartJob
  <2>1. pc = "bound"
        /\ UNCHANGED <<input, foreign, failure, pass, cancelled, token, ses, data, changes,
                       seen, backup>>
    BY <1>11 DEF RR!StartJob
  <2>2. ASSUME NEW d \in Dispositions
        PROVE  LET o == Fail(op, "transport", d) IN o \in Outcomes /\ IsTerminal(o)
    BY <2>1, <1>o, <1>c, Failed
  <2>3. LET o == Cancel(op, 1) IN o \in Outcomes /\ IsTerminal(o)
    BY <2>1, <1>o, <1>d, Cancelled
  <2>4. LET o == Complete(op) IN o \in Outcomes /\ IsTerminal(o)
    BY <2>1, <1>o, Completed DEF opCompleted
  <2>5. \/ /\ overwritten' = part /\ part = data /\ part' \in Readings /\ pc' = "job"
           /\ RR!Destructive /\ UNCHANGED <<op, executing>>
        \/ /\ op' \in Outcomes /\ IsTerminal(op') /\ pc' = "done" /\ executing' = foreign
           /\ UNCHANGED <<part, overwritten>>
    BY <1>11, <2>2, <2>3, <2>4, RunnerVocabulary DEF RR!StartJob, RR!Bound, RR!Leave
  <2>6. input.backup /\ RR!Destructive => backup = data
    BY <2>1 DEF RR!BackupFirst
  <2> QED BY <2>1, <2>5, <2>6, <1>o
<1>12. CASE RR!EndJob
  <2>1. pc = "job" /\ pc' = "done" /\ executing' = foreign
        /\ UNCHANGED <<input, foreign, failure, pass, cancelled, token, ses, data, changes,
                       seen, backup, overwritten>>
    BY <1>12 DEF RR!EndJob, RR!Leave
  <2>2. ASSUME NEW d \in Dispositions
        PROVE  LET o == Fail(op, "transport", d) IN o \in Outcomes /\ IsTerminal(o)
    BY <2>1, <1>o, <1>c, Failed
  <2>3. LET o == Cancel(op, 1) IN o \in Outcomes /\ IsTerminal(o)
    BY <2>1, <1>o, <1>d, Cancelled
  <2>4. LET o == Complete(op) IN o \in Outcomes /\ IsTerminal(o)
    BY <2>1, <1>o, Completed DEF opCompleted
  <2>5. op' \in Outcomes /\ IsTerminal(op')
    BY <1>12, <2>2, <2>3, <2>4, RunnerVocabulary DEF RR!EndJob
  <2>6. part' \in Readings
    BY <1>12, <2>1 DEF RR!EndJob
  <2> QED BY <2>1, <2>5, <2>6, <1>o
<1>13. CASE RR!PartChanges
  BY <1>13, <1>o DEF RR!PartChanges, RR!BackupFirst, RR!Destructive
<1>14. CASE RR!RequestCancellation
  BY <1>14, <1>o DEF RR!RequestCancellation, RR!BackupFirst, RR!Destructive
<1> QED BY <1>1, <1>2, <1>3, <1>4, <1>5, <1>6, <1>7, <1>8, <1>9, <1>10, <1>11, <1>12, <1>13,
           <1>14 DEF RR!Next

LEMMA RunnerStutter == RunnerInv /\ UNCHANGED RR!vars => RunnerInv'
BY DEF RunnerInv, RunnerPc, RunnerOperation, RunnerPasses, RunnerWrites, RunnerReleases,
       Reading, Writing, Unanimous, RR!TypeOK, RR!BackupIsUnanimous, RR!WritesOverTheBackup,
       RR!BackupFirst, RR!Destructive, RR!vars

LEMMA SuiteRunnerInvariant == Spec => []SuiteRunner
<1>1. Init => SuiteRunner
  BY RunnerInit DEF Init, SuiteRunner
<1>2. SuiteRunner /\ [Next]_vars => SuiteRunner'
  BY RunnerStep, RunnerStutter DEF Next, SuiteRunner, vars, RR!vars
<1> QED BY <1>1, <1>2, PTL DEF Spec

(* A backup, a read that succeeds and a write all rest on what every pass    *)
(* of the trusted read saw, whatever part is in the socket by then, and      *)
(* every run gives its session back (TNOROperationRunner.Execute).          *)
THEOREM ReadsAreAlwaysTrusted == Spec => []TrustedReads
<1>1. SuiteRunner => TrustedReads
  BY RunnerSafety DEF SuiteRunner, TrustedReads
<1> QED BY <1>1, SuiteRunnerInvariant, PTL

-----------------------------------------------------------------------------
(***************************************************************************)
(* The steps of an EEPROM plan.  Nth counts the pages in their order, so    *)
(* every page of a set is some Nth of it, and nothing else is.             *)
(***************************************************************************)
LEMMA Counting == \A S : /\ EE!Cardinality(S) = Cardinality(S)
                         /\ EE!IsFiniteSet(S) <=> IsFiniteSet(S)
BY Zenon DEF EE!Cardinality, EE!IsFiniteSet, Cardinality, IsFiniteSet

LEMMA Ranks ==
    ASSUME NEW S \in SUBSET Nat, IsFiniteSet(S)
    PROVE  /\ Cardinality(S) \in Nat
           /\ \A i \in 1 .. Cardinality(S) : EE!Nth(S, i) \in S
           /\ \A p \in S : \E i \in 1 .. Cardinality(S) : EE!Nth(S, i) = p
<1> DEFINE Below(p) == {q \in S : q < p}
           rank == [p \in S |-> Cardinality(Below(p)) + 1]
           n == Cardinality(S)
<1>1. n \in Nat
  BY FS_CardinalityType
<1>2. ASSUME NEW p \in S
      PROVE  IsFiniteSet(Below(p)) /\ Cardinality(Below(p)) \in 0 .. n - 1
  <2>0. Below(p) \in SUBSET S /\ Below(p) # S
    OBVIOUS
  <2>1. IsFiniteSet(Below(p)) /\ Cardinality(Below(p)) <= n /\ Cardinality(Below(p)) # n
    BY <2>0, FS_Subset
  <2>2. Cardinality(Below(p)) \in Nat
    BY <2>1, FS_CardinalityType
  <2> QED BY <2>1, <2>2, <1>1
<1>3. ASSUME NEW p \in S, NEW q \in S, p < q
      PROVE  Cardinality(Below(p)) < Cardinality(Below(q))
  <2>1. Below(p) \in SUBSET Below(q) /\ p \in Below(q) /\ p \notin Below(p)
    <3>1. \A r \in S : r < p => r < q
      BY <1>3
    <3>2. ~(p < p)
      OBVIOUS
    <3> QED BY <1>3, <3>1, <3>2
  <2>2. /\ Cardinality(Below(p)) <= Cardinality(Below(q))
        /\ Cardinality(Below(p)) # Cardinality(Below(q))
    BY <2>1, <1>2, FS_Subset
  <2> QED BY <2>2, <1>2
<1>4. \A p, q \in S : Cardinality(Below(p)) = Cardinality(Below(q)) => p = q
  <2> SUFFICES ASSUME NEW p \in S, NEW q \in S,
                      Cardinality(Below(p)) = Cardinality(Below(q)), p # q
               PROVE  FALSE
    OBVIOUS
  <2>1. p < q \/ q < p
    OBVIOUS
  <2> QED BY <2>1, <1>2, <1>3
<1> HIDE DEF Below
<1>5. rank \in Injection(S, 1 .. n)
  <2>1. rank \in [S -> 1 .. n]
    BY <1>1, <1>2
  <2>2. \A p, q \in S : rank[p] = rank[q] => p = q
    BY <1>2, <1>4
  <2> QED BY <2>1, <2>2, Fun_IsInj
<1>6. IsFiniteSet(1 .. n) /\ Cardinality(1 .. n) = n
  BY <1>1, FS_Interval
<1>7. rank \in Surjection(S, 1 .. n)
  BY <1>5, <1>6, FS_Injection
<1>8. ASSUME NEW i \in 1 .. n
      PROVE  EE!Nth(S, i) \in S
  <2>1. PICK p \in S : rank[p] = i
    BY <1>7 DEF Surjection
  <2>2. Cardinality(Below(p)) = i - 1
    BY <2>1, <1>1, <1>2
  <2>3. \E q \in S : Cardinality({r \in S : r < q}) = i - 1
    BY <2>2 DEF Below
  <2> QED BY <2>3, Counting, Zenon DEF EE!Nth
<1>9. ASSUME NEW p \in S
      PROVE  \E i \in 1 .. n : EE!Nth(S, i) = p
  <2> DEFINE i == Cardinality(Below(p)) + 1
  <2>1. i \in 1 .. n /\ i - 1 = Cardinality(Below(p))
    BY <1>1, <1>2
  <2>4. \E q \in S : Cardinality({r \in S : r < q}) = i - 1
    BY <2>1 DEF Below
  <2>5. LET q == EE!Nth(S, i) IN q \in S /\ Cardinality({r \in S : r < q}) = i - 1
    <3> HIDE DEF i
    <3> QED BY <2>4, Counting, Zenon DEF EE!Nth
  <2>2. EE!Nth(S, i) \in S /\ Cardinality(Below(EE!Nth(S, i))) = i - 1
    BY <2>5 DEF Below
  <2>3. EE!Nth(S, i) = p
    BY <2>1, <2>2, <1>4
  <2> QED BY <2>1, <2>3
<1> QED BY <1>1, <1>8, <1>9

-----------------------------------------------------------------------------
(***************************************************************************)
(* The run of an EEPROM plan.  Its promises are about the end, so the       *)
(* invariant says at every point what is open, what has failed, what may    *)
(* still be at work in the part and what of the plan its pages hold.        *)
(***************************************************************************)
First  == {"loop", "write", "settle", "verify", "verified"}
Second == {"fresh", "reopen", "reinitialize", "reloop", "reverify"}
EepromPc == First \cup Second \cup {"start", "open", "initialize", "quiesce", "deinitialize",
                "close", "finish", "commit", "unwind", "except", "done"}
Cleaning(next) == pc \in {"deinitialize", "close"} /\ ret = next

EepromOperation ==
    /\ pc = "start" => op = NewOutcome
    /\ pc \notin {"start", "done"} => op.status = "running"
    /\ op.critical <=> pc \in {"write", "settle"}
    /\ pc = "open" => op.phase = opOpening
    /\ pc = "initialize" => op.phase = opInitializingBus
    /\ pc \in First => op.phase = opExecuting
    /\ pc \in Second \/ Cleaning("fresh") => op.phase = opVerifying /\ op.physical
    /\ pc = "quiesce" => op.phase < opQuiescing
    /\ pc = "finish" \/ Cleaning("finish") => op.phase = opQuiescing
    /\ pc = "commit" => op.phase = opCommittingEvidence
    /\ pc = "done" => op.status \in Terminal
    /\ op.status \in {"succeeded", "cancelled"} => op.disp = ddKnownSafe
    /\ op.status = "succeeded" => op.fresh

EepromSession ==
    /\ ses.opened <=> dev.opened
    /\ ses.inited => dev.started
    /\ dev.started => dev.opened
    /\ dev.enabled => dev.started
    /\ pc \in {"start", "open", "fresh", "reopen", "finish", "commit", "except", "done"} =>
          ~ses.opened
    /\ pc \in {"initialize", "reinitialize", "close"} => ses.opened /\ ~ses.inited
    /\ pc \in First \cup {"reloop", "reverify", "deinitialize"} => ses.inited
    /\ pc \in {"start", "open", "initialize"} => dev.first
    /\ pc \in First \cup Second \/ Cleaning("fresh") => ~dev.first
    /\ ret \in {"finish", "fresh", "except"}
    /\ foreign \in BOOLEAN /\ cancelled \in BOOLEAN /\ token \in BOOLEAN
    /\ IF pc \in {"start", "done"} THEN executing = foreign ELSE executing /\ ~foreign

(* No cause yet; or one that leaves the part in doubt.                      *)
Clean == pending.code = "none"
Doubt == ~Clean /\ pending.disp > ddKnownSafe

EepromPending ==
    /\ pc \in First \cup {"start", "open", "initialize", "reopen", "reinitialize", "reloop",
                          "reverify", "commit"} => Clean
    /\ pc \in {"quiesce", "finish"} \/ Cleaning("finish") =>
          ~Clean \/ cancelled \/ op.fresh
    /\ pc = "commit" => op.fresh
    /\ pc \in First \cup {"start", "open", "initialize"} => ~op.fresh
    /\ op.fresh => op.physical /\ ~dev.first

EepromRest ==
    /\ ~EE!Idle => pc = "settle" \/ Doubt
    /\ chip.armed => \/ Doubt
                     \/ ses.inited /\ EE!Disarms
    /\ EE!SafeMeansDisarmed

StepReached == IF pc = "settle" THEN step ELSE step - 1
EepromContent ==
    /\ chip.busy \in job.changed \cup {0}
    /\ ~dev.first => \A p \in Pages : chip.mem[p] = "old" \/ p \in job.changed
    /\ pc \in {"write", "settle"} => step <= Len(EE!Steps) /\ EE!Current.kind = "write"
    /\ pc \in {"verify", "reverify"} => step <= Len(EE!Steps) /\ EE!Current.kind = "verify"
    /\ pc = "settle" => chip.busy \in {0, EE!Current.page}
    /\ pc \in {"loop", "write", "settle", "verify"} =>
          \A p \in Pages : \/ chip.mem[p] = "old"
                           \/ \E i \in 1 .. StepReached : EE!Steps[i].page = p
    /\ pc \in {"reloop", "reverify"} =>
          \A i \in 1 .. step - 1 : EE!Steps[i].kind = "verify" =>
              chip.mem[EE!Steps[i].page] = EE!Wanted(EE!Steps[i].page)
    /\ op.fresh => EE!Idle /\ EE!Holds

EepromInv ==
    /\ EE!TypeOK /\ pc \in EepromPc
    /\ EepromOperation /\ EepromSession /\ EepromPending /\ EepromRest /\ EepromContent

SuiteEeprom == subject = "eeprom" => EepromInv

LEMMA EepromVocabulary ==
    /\ EE!NewOutcome = NewOutcome /\ EE!NoPending = NoPending
    /\ EE!Outcomes = Outcomes /\ EE!Pendings = Pendings
    /\ \A o : EE!IsTerminal(o) <=> IsTerminal(o)
    /\ \A o : EE!Start(o) = Start(o)
    /\ \A o, p : EE!AdvanceTo(o, p) = AdvanceTo(o, p)
    /\ \A o, c, d : EE!Fail(o, c, d) = Fail(o, c, d)
    /\ \A o, d : EE!Cancel(o, d) = Cancel(o, d)
    /\ \A o : EE!Complete(o) = Complete(o)
    /\ \A p, c, d : EE!SetPending(p, c, d) = SetPending(p, c, d)
    /\ \A p, f, c, b : EE!FailFromIO(p, f, c, b) = FailFromIO(p, f, c, b)
    /\ \A o : EE!BeginCritical(o) = BeginCritical(o) /\ EE!EndCritical(o) = EndCritical(o)
<1> USE DEF EE!opCreated, opCreated, EE!opCompleted, opCompleted, EE!ddNotOpened, ddNotOpened,
            EE!ddKnownSafe, ddKnownSafe, EE!Dispositions, Dispositions, EE!Phases, Phases,
            EE!ddBusyUnknown, ddBusyUnknown, EE!ddDisconnectedUnknown, ddDisconnectedUnknown
<1>1. EE!NewOutcome = NewOutcome /\ EE!NoPending = NoPending
  BY Zenon DEF EE!NewOutcome, NewOutcome, EE!NoPending, NoPending
<1>2. EE!Outcomes = Outcomes /\ EE!Pendings = Pendings
  BY Zenon DEF EE!Outcomes, Outcomes, EE!Pendings, Pendings, EE!Statuses, Statuses,
         EE!ErrorCodes, ErrorCodes
<1>3. \A o : EE!IsTerminal(o) <=> IsTerminal(o)
  BY DEF EE!IsTerminal, IsTerminal, EE!Terminal, Terminal
<1>4. \A o : EE!Start(o) = Start(o)
  BY Zenon DEF EE!Start, Start
<1>5. \A o, c, d : EE!Fail(o, c, d) = Fail(o, c, d)
  BY <1>3, Zenon DEF EE!Fail, Fail
<1>6. \A o, p : EE!AdvanceTo(o, p) = AdvanceTo(o, p)
  BY <1>5, Zenon DEF EE!AdvanceTo, AdvanceTo
<1>7. \A o, d : EE!Cancel(o, d) = Cancel(o, d)
  BY <1>3, Zenon DEF EE!Cancel, Cancel
<1>8. \A o : EE!Complete(o) = Complete(o)
  BY <1>5, <1>6, Zenon DEF EE!Complete, Complete
<1>9. \A p, c, d : EE!SetPending(p, c, d) = SetPending(p, c, d)
  BY Zenon DEF EE!SetPending, SetPending, EE!Max2, Max2
<1>10. \A f, c : EE!MapIOError(f, c) = MapIOError(f, c)
  BY Zenon DEF EE!MapIOError, MapIOError
<1>11. \A f, b : EE!DispositionForIO(f, b) = DispositionForIO(f, b)
  BY Zenon DEF EE!DispositionForIO, DispositionForIO
<1>12. \A p, f, c, b : EE!FailFromIO(p, f, c, b) = FailFromIO(p, f, c, b)
  BY <1>9, <1>10, <1>11, Zenon DEF EE!FailFromIO, FailFromIO
<1>13. \A o : EE!BeginCritical(o) = BeginCritical(o) /\ EE!EndCritical(o) = EndCritical(o)
  BY Zenon DEF EE!BeginCritical, BeginCritical, EE!EndCritical, EndCritical
<1> QED BY <1>1, <1>2, <1>3, <1>4, <1>5, <1>6, <1>7, <1>8, <1>9, <1>12, <1>13

LEMMA EepromConstants ==
    /\ Pages \subseteq Nat \ {0} /\ IsFiniteSet(Pages)
    /\ \A j \in Jobs : /\ j.changed \subseteq j.patched /\ j.patched \subseteq Pages
                       /\ j.bus \in {"spi", "i2c", "mw"} /\ j.valid \in BOOLEAN
    /\ PageContents \subseteq [Pages -> {"old", "new", "torn"}]
    /\ Faults \subseteq IOErrors \cup {"raised"}
BY SessionAssumptions, Counting
   DEF EE!EEPROMAssumption, EE!Job, EE!Cell, EE!IOErrors, IOErrors

(* The plan writes pages of the change only, and verifies every page of the  *)
(* patch.                                                                   *)
LEMMA StepsShape ==
    ASSUME job \in Jobs
    PROVE  /\ Len(EE!Steps) \in Nat
           /\ \A i \in 1 .. Len(EE!Steps) :
                 /\ EE!Steps[i].kind \in {"write", "verify"}
                 /\ EE!Steps[i].page \in Pages
                 /\ EE!Steps[i].kind = "write" => EE!Steps[i].page \in job.changed
           /\ \A p \in job.patched : \E i \in 1 .. Len(EE!Steps) :
                 EE!Steps[i].kind = "verify" /\ EE!Steps[i].page = p
<1> DEFINE c == job.changed
           d == job.patched
           w == EE!InOrder("write", c)
           v == EE!InOrder("verify", d)
           Plan == [kind : {"write", "verify"}, page : Pages]
<1>1. c \in SUBSET Nat /\ d \in SUBSET Nat /\ IsFiniteSet(c) /\ IsFiniteSet(d)
      /\ c \subseteq Pages /\ d \subseteq Pages
  <2>1. c \in SUBSET Pages /\ d \in SUBSET Pages /\ Pages \subseteq Nat
    BY EepromConstants
  <2> QED BY <2>1, EepromConstants, FS_Subset
<1>2. /\ Cardinality(c) \in Nat /\ \A i \in 1 .. Cardinality(c) : EE!Nth(c, i) \in c
      /\ Cardinality(d) \in Nat /\ \A i \in 1 .. Cardinality(d) : EE!Nth(d, i) \in d
      /\ \A p \in d : \E i \in 1 .. Cardinality(d) : EE!Nth(d, i) = p
  BY <1>1, Ranks
<1>3. /\ w = [i \in 1 .. Cardinality(c) |-> [kind |-> "write", page |-> EE!Nth(c, i)]]
      /\ v = [i \in 1 .. Cardinality(d) |-> [kind |-> "verify", page |-> EE!Nth(d, i)]]
  BY Counting DEF EE!InOrder, EE!Step
<1>4. EE!Steps = w \o v
  BY DEF EE!Steps
<1> HIDE DEF c, d, w, v
<1>5. w \in Seq(Plan) /\ Len(w) = Cardinality(c) /\ v \in Seq(Plan) /\ Len(v) = Cardinality(d)
  <2>1. \A i \in 1 .. Cardinality(c) : [kind |-> "write", page |-> EE!Nth(c, i)] \in Plan
    BY <1>1, <1>2
  <2>2. \A i \in 1 .. Cardinality(d) : [kind |-> "verify", page |-> EE!Nth(d, i)] \in Plan
    BY <1>1, <1>2
  <2> HIDE DEF Plan
  <2>3. w \in [1 .. Cardinality(c) -> Plan] /\ v \in [1 .. Cardinality(d) -> Plan]
    BY <1>3, <2>1, <2>2
  <2>4. ASSUME NEW n \in Nat, NEW S, NEW f \in [1 .. n -> S]
        PROVE  f \in Seq(S) /\ Len(f) = n
    OBVIOUS
  <2> QED BY <1>2, <2>3, <2>4
<1>6. Len(w \o v) = Cardinality(c) + Cardinality(d)
  BY <1>5
<1>7. ASSUME NEW i \in 1 .. Cardinality(c)
      PROVE  (w \o v)[i].kind = "write" /\ (w \o v)[i].page \in c
  BY <1>2, <1>3, <1>5, <1>7
<1>8. ASSUME NEW i \in 1 .. Cardinality(d)
      PROVE  /\ (w \o v)[Cardinality(c) + i].kind = "verify"
             /\ (w \o v)[Cardinality(c) + i].page = EE!Nth(d, i)
  BY <1>2, <1>3, <1>5, <1>8
<1>9. ASSUME NEW i \in 1 .. Len(w \o v), i > Cardinality(c)
      PROVE  (w \o v)[i].kind = "verify" /\ (w \o v)[i].page \in d
  <2>1. i - Cardinality(c) \in 1 .. Cardinality(d) /\ Cardinality(c) + (i - Cardinality(c)) = i
    BY <1>2, <1>6, <1>9
  <2> QED BY <2>1, <1>2, <1>8
<1>10. ASSUME NEW p \in d
       PROVE  \E i \in 1 .. Len(w \o v) : (w \o v)[i].kind = "verify" /\ (w \o v)[i].page = p
  <2>1. PICK i \in 1 .. Cardinality(d) : EE!Nth(d, i) = p
    BY <1>2
  <2>2. Cardinality(c) + i \in 1 .. Len(w \o v)
    BY <1>2, <1>6
  <2> QED BY <2>1, <2>2, <1>8
<1>11. ASSUME NEW i \in 1 .. Len(w \o v)
       PROVE  /\ (w \o v)[i].kind \in {"write", "verify"} /\ (w \o v)[i].page \in Pages
              /\ (w \o v)[i].kind = "write" => (w \o v)[i].page \in c
  <2>1. CASE i > Cardinality(c)
    BY <2>1, <1>1, <1>9
  <2>2. CASE ~(i > Cardinality(c))
    <3>1. i \in 1 .. Cardinality(c)
      BY <2>2, <1>2, <1>6
    <3> QED BY <3>1, <1>1, <1>7
  <2> QED BY <2>1, <2>2
<1>12. Len(w \o v) \in Nat
  BY <1>2, <1>6
<1> QED BY <1>4, <1>10, <1>11, <1>12 DEF c, d

-----------------------------------------------------------------------------
(* What a failure does to the record of it, and what the operation makes of *)
(* a critical command.                                                      *)
LEMMA SettingGrows ==
    ASSUME pending \in Pendings, NEW c \in ErrorCodes \ {"none"}, NEW d \in Dispositions,
           pending' = EE!SetPending(pending, c, d)
    PROVE  /\ pending' \in Pendings /\ ~Clean' /\ (Doubt => Doubt')
           /\ d > 1 => Doubt'
<1>1. pending' = SetPending(pending, c, d)
  BY EepromVocabulary
<1>2. /\ pending' \in Pendings /\ pending'.code # "none"
      /\ pending.code # "none" => pending'.disp >= pending.disp
      /\ pending'.disp >= d
  BY <1>1, PendingTypes, PendingWorsens
<1>3. pending.disp \in Dispositions /\ pending'.disp \in Dispositions
  BY <1>2 DEF Pendings
<1> QED BY <1>2, <1>3 DEF Clean, Doubt, Dispositions, ddKnownSafe

LEMMA FailureGrows ==
    ASSUME pending \in Pendings, NEW f \in IOErrors, NEW c \in ErrorCodes \ {"none"},
           NEW flying \in BOOLEAN, pending' = EE!FailFromIO(pending, f, c, flying)
    PROVE  /\ pending' \in Pendings /\ ~Clean' /\ (Doubt => Doubt')
           /\ flying => Doubt'
<1>1. MapIOError(f, c) \in ErrorCodes \ {"none"}
  BY DEF MapIOError, ErrorCodes
<1>2. DispositionForIO(f, flying) \in Dispositions /\ (flying => DispositionForIO(f, flying) > 1)
  BY DEF DispositionForIO, Dispositions, ddDisconnectedUnknown, ddBusyUnknown, ddKnownSafe
<1>3. pending' = EE!SetPending(pending, MapIOError(f, c), DispositionForIO(f, flying))
  BY EepromVocabulary DEF FailFromIO
<1> QED BY <1>1, <1>2, <1>3, SettingGrows

LEMMA CriticalMarks ==
    ASSUME NEW o \in Outcomes
    PROVE  /\ EE!BeginCritical(o) \in Outcomes /\ EE!BeginCritical(o).critical
           /\ EE!BeginCritical(o).status = o.status /\ EE!BeginCritical(o).phase = o.phase
           /\ EE!BeginCritical(o).physical = o.physical /\ EE!BeginCritical(o).fresh = o.fresh
           /\ EE!BeginCritical(o).disp = o.disp
           /\ EE!EndCritical(o) \in Outcomes /\ ~EE!EndCritical(o).critical
           /\ EE!EndCritical(o).status = o.status /\ EE!EndCritical(o).phase = o.phase
           /\ EE!EndCritical(o).physical = o.physical /\ EE!EndCritical(o).fresh = o.fresh
           /\ EE!EndCritical(o).disp = o.disp
<1>1. EE!BeginCritical(o) = [o EXCEPT !.critical = TRUE]
      /\ EE!EndCritical(o) = [o EXCEPT !.critical = FALSE]
  BY DEF EE!BeginCritical, EE!EndCritical
<1> QED BY <1>1 DEF Outcomes

LEMMA FaultNames ==
    /\ \A f \in Faults \ {"raised"} : f \in IOErrors
    /\ \A f \in Faults : EE!Error(f) \in IOErrors
    /\ {"rejected", "timeout", "transport"} \subseteq IOErrors
    /\ {"invalid", "openFailed", "busInitFailed", "commandRejected", "verifyMismatch",
        "shortTransfer", "transport", "cleanupFailed", "evidenceFailed",
        "internalState"} \subseteq ErrorCodes \ {"none"}
BY EepromConstants DEF EE!Error, IOErrors, ErrorCodes

-----------------------------------------------------------------------------
(* Most steps leave the part and the plan alone.                            *)
LEMMA ContentQuiet ==
    ASSUME EepromContent, job' = job, chip'.mem = chip.mem, chip'.busy = chip.busy,
           dev'.first = dev.first, op'.fresh => op.fresh,
           pc' \notin {"loop", "write", "settle", "verify", "reloop", "reverify"}
    PROVE  EepromContent'
<1>1. (chip.busy \in job.changed \cup {0})'
  BY DEF EepromContent
<1>2. (~dev.first => \A p \in Pages : chip.mem[p] = "old" \/ p \in job.changed)'
  BY DEF EepromContent
<1>3. (op.fresh => EE!Idle /\ EE!Holds)'
  BY DEF EepromContent, EE!Idle, EE!Holds, EE!Wanted
<1> QED BY <1>1, <1>2, <1>3 DEF EepromContent

LEMMA RestQuiet ==
    ASSUME EepromRest, job' = job, chip'.busy = chip.busy, chip'.armed => chip.armed,
           Doubt => Doubt', pc = "settle" => pc' = "settle",
           chip'.armed /\ ses.inited /\ EE!Disarms => (ses.inited /\ EE!Disarms)',
           ~IsTerminal(op')
    PROVE  EepromRest'
<1>1. (EE!SafeMeansDisarmed)'
  BY EepromVocabulary DEF EE!SafeMeansDisarmed
<1>2. (~EE!Idle => pc = "settle" \/ Doubt)'
  BY DEF EepromRest, EE!Idle
<1>3. (chip.armed => Doubt \/ (ses.inited /\ EE!Disarms))'
  BY DEF EepromRest
<1> QED BY <1>1, <1>2, <1>3 DEF EepromRest

LEMMA EepromInit == EE!Init => EepromInv
<1> SUFFICES ASSUME EE!Init PROVE EepromInv
  OBVIOUS
<1>1. /\ op = NewOutcome /\ op \in Outcomes /\ op \in EE!Outcomes /\ pending = NoPending
      /\ pending \in EE!Pendings
  BY EepromVocabulary, NewIsBlank DEF EE!Init
<1>2. /\ ses \in [opened : BOOLEAN, inited : BOOLEAN] /\ ~ses.opened /\ ~ses.inited
      /\ dev \in [opened : BOOLEAN, started : BOOLEAN, first : BOOLEAN, enabled : BOOLEAN]
      /\ ~dev.opened /\ ~dev.started /\ dev.first /\ ~dev.enabled
  BY DEF EE!Init
<1>3. /\ chip \in [mem : [Pages -> EE!Cell], busy : Pages \cup {0}, armed : BOOLEAN]
      /\ chip.busy = 0 /\ ~chip.armed
  BY EepromConstants DEF EE!Init, EE!Cell
<1>4. job \in Jobs /\ step \in 1 .. Len(EE!Steps) + 1
  BY StepsShape DEF EE!Init
<1>5. EE!TypeOK /\ pc \in EepromPc
  BY <1>1, <1>2, <1>3, <1>4 DEF EE!Init, EE!TypeOK, EepromPc
<1>6. EepromOperation
  BY <1>1, NewIsBlank DEF EE!Init, EepromOperation, First, Second, Cleaning, Terminal
<1>7. EepromSession /\ EepromPending
  BY <1>1, <1>2, NewIsBlank
     DEF EE!Init, EepromSession, EepromPending, First, Second, Cleaning, Clean
<1>8. EepromRest
  <2>1. ~IsTerminal(op)
    BY <1>1, NewIsBlank DEF IsTerminal, Terminal
  <2> QED BY <1>3, <2>1, EepromVocabulary DEF EepromRest, EE!Idle, EE!SafeMeansDisarmed
<1>9. EepromContent
  BY <1>1, <1>2, <1>3, NewIsBlank DEF EE!Init, EepromContent
<1> QED BY <1>5, <1>6, <1>7, <1>8, <1>9 DEF EepromInv

(* Each step preserves it: the outcome, the failure and the flags first,    *)
(* then the part at rest and the content of its pages.                     *)
EepromCore == EE!TypeOK /\ pc \in EepromPc /\ EepromOperation /\ EepromSession /\ EepromPending

LEMMA EepromStep ==
    ASSUME EepromInv, EE!Next
    PROVE  EepromInv'
<1> USE EepromConstants
<1> USE DEF EepromCore, EepromPc, First, Second, Cleaning, EepromOperation, EepromSession,
            EepromPending, Clean, EE!TypeOK, EE!given
<1> USE DEF EE!opValidating, EE!opReservingDevice, EE!opOpening, EE!opInitializingBus,
            EE!opPlanning, EE!opExecuting, EE!opVerifying, EE!opQuiescing,
            EE!opCommittingEvidence, opOpening, opInitializingBus, opExecuting, opVerifying,
            opQuiescing, opCommittingEvidence, EE!ddNotOpened, EE!ddKnownSafe,
            EE!ddModeUnknown, ddKnownSafe, IsTerminal, Terminal
<1>i. EepromCore /\ EepromRest /\ EepromContent
  BY DEF EepromInv
<1>o. op \in Outcomes /\ pending \in Pendings /\ EE!Outcomes = Outcomes /\ EE!Pendings = Pendings
  BY EepromVocabulary DEF EepromInv
<1>d. 0 \in Dispositions /\ 1 \in Dispositions /\ 4 \in Dispositions
  BY DEF Dispositions
<1>p. \A n \in {1, 2, 3, 4, 8, 10, 11, 12, 13} : n \in Phases
  BY DEF Phases
<1>s. ASSUME job' = job PROVE EE!Steps' = EE!Steps
  BY <1>s DEF EE!Steps
<1>q. EepromCore' /\ EepromRest' /\ EepromContent' => EepromInv'
  BY DEF EepromInv
<1>1. CASE EE!Begin
  <2>1. /\ pc = "start" /\ op = NewOutcome /\ pending.code = "none"
        /\ UNCHANGED <<job, foreign, ret, step, cancelled, token, ses, dev, chip>>
    BY <1>1, <1>i DEF EE!Begin
  <2>2. Start(op) \in Outcomes /\ Start(op).status = "running" /\ Start(op).phase = 0
        /\ ~Start(op).critical /\ ~Start(op).physical /\ ~Start(op).fresh
    BY <2>1, NewIsBlank, Started
  <2>3. \/ /\ op' = Fail(Start(op), "internalState", 0)
           /\ pc' = "done" /\ executing' = foreign /\ UNCHANGED pending
        \/ /\ executing' = TRUE /\ foreign = FALSE
           /\ op' = AdvanceTo(AdvanceTo(AdvanceTo(Start(op), 1), 2), 3)
           /\ pc' = "open" /\ UNCHANGED pending
        \/ /\ executing' = TRUE /\ foreign = FALSE
           /\ op' = AdvanceTo(Start(op), 1)
           /\ pending' = EE!SetPending(pending, "invalid", 0) /\ pc' = "quiesce"
    BY <1>1, <1>i, <2>1, EepromVocabulary DEF EE!Begin, EE!Fails
  <2>4. ASSUME NEW o \in Outcomes, o.status = "running", ~o.critical, ~o.physical, ~o.fresh,
               NEW n \in {1, 2, 3}, n > o.phase
        PROVE  /\ AdvanceTo(o, n) \in Outcomes /\ AdvanceTo(o, n).status = "running"
               /\ AdvanceTo(o, n).phase = n /\ ~AdvanceTo(o, n).critical
               /\ ~AdvanceTo(o, n).physical /\ ~AdvanceTo(o, n).fresh
    BY <2>4, <1>p, Advanced
  <2>5. /\ AdvanceTo(Start(op), 1) \in Outcomes /\ AdvanceTo(Start(op), 1).status = "running"
        /\ AdvanceTo(Start(op), 1).phase = 1 /\ ~AdvanceTo(Start(op), 1).critical
        /\ ~AdvanceTo(Start(op), 1).physical /\ ~AdvanceTo(Start(op), 1).fresh
    BY <2>2, <2>4
  <2>6. LET o == AdvanceTo(AdvanceTo(Start(op), 1), 2)
        IN  /\ o \in Outcomes /\ o.status = "running" /\ o.phase = 2 /\ ~o.critical
            /\ ~o.physical /\ ~o.fresh
    BY <2>4, <2>5
  <2>7. LET o == AdvanceTo(AdvanceTo(AdvanceTo(Start(op), 1), 2), 3)
        IN  /\ o \in Outcomes /\ o.status = "running" /\ o.phase = 3 /\ ~o.critical
            /\ ~o.physical /\ ~o.fresh
    BY <2>4, <2>6
  <2>8. LET o == Fail(Start(op), "internalState", 0)
        IN  /\ o \in Outcomes /\ o.status = "failed" /\ ~o.critical /\ ~o.physical /\ ~o.fresh
            /\ o.disp = 0
    BY <2>2, <1>d, FaultNames, Failed
  <2>9. \/ /\ op' \in Outcomes /\ op'.status = "failed" /\ op'.disp = 0
           /\ pc' = "done" /\ executing' = foreign /\ UNCHANGED pending
        \/ /\ op' \in Outcomes /\ op'.status = "running" /\ op'.phase = 3
           /\ executing' = TRUE /\ foreign = FALSE /\ pc' = "open" /\ UNCHANGED pending
        \/ /\ op' \in Outcomes /\ op'.status = "running" /\ op'.phase = 1
           /\ executing' = TRUE /\ foreign = FALSE /\ pc' = "quiesce"
           /\ pending' \in Pendings /\ ~Clean'
    BY <2>3, <2>5, <2>7, <2>8, <1>o, <1>d, FaultNames, SettingGrows
  <2>10. op' \in Outcomes /\ ~op'.critical /\ ~op'.physical /\ ~op'.fresh
    BY <2>3, <2>5, <2>7, <2>8
  <2>11. EepromCore'
    <3>1. CASE pc' = "done"
      BY <2>1, <2>9, <2>10, <3>1, <1>i, <1>o, <1>s
    <3>2. CASE pc' = "open"
      BY <2>1, <2>9, <2>10, <3>2, <1>i, <1>o, <1>s
    <3>3. CASE pc' = "quiesce"
      BY <2>1, <2>9, <2>10, <3>3, <1>i, <1>o, <1>s
    <3> QED BY <2>9, <3>1, <3>2, <3>3
  <2>12. EepromRest'
    <3>1. EE!Idle /\ ~chip.armed
      BY <2>1, <1>i DEF EepromRest, Doubt
    <3>2. ~IsTerminal(op') \/ op'.disp # 1
      BY <2>9
    <3> QED BY <2>1, <3>1, <3>2, EepromVocabulary
         DEF EepromRest, EE!Idle, EE!SafeMeansDisarmed
  <2>13. EepromContent'
    BY <2>1, <2>9, <2>10, <1>i, ContentQuiet
  <2> QED BY <2>11, <2>12, <2>13, <1>q
<1>2. ASSUME NEW at, NEW next, <<at, next>> \in {<<"open", "initialize">>, <<"reopen", "reinitialize">>},
             EE!Open(at, next)
      PROVE  EepromInv'
  <2>1. /\ pc = at /\ pending.code = "none"
        /\ UNCHANGED <<job, executing, foreign, ret, step, cancelled, token, chip>>
    BY <1>2, <1>i DEF EE!Open
  <2>2. CASE /\ dev' = [dev EXCEPT !.opened = TRUE]
             /\ ses' = [ses EXCEPT !.opened = TRUE]
             /\ pending' = IF at = "open" THEN [pending EXCEPT !.disp = 1] ELSE pending
             /\ op' = IF at = "open" THEN AdvanceTo(op, 4) ELSE op
             /\ pc' = next
    <3>1. /\ ses' \in [opened : BOOLEAN, inited : BOOLEAN] /\ ses'.opened
          /\ ses'.inited = ses.inited
      BY <2>2, <1>i
    <3>2. /\ dev' \in [opened : BOOLEAN, started : BOOLEAN, first : BOOLEAN, enabled : BOOLEAN]
          /\ dev'.opened /\ dev'.started = dev.started /\ dev'.first = dev.first
          /\ dev'.enabled = dev.enabled
      BY <2>2, <1>i
    <3>3. pending' \in Pendings /\ pending'.code = "none"
      BY <2>1, <2>2, <1>o, <1>d DEF Pendings
    <3>4. CASE at = "open"
      <4>1. /\ op' \in Outcomes /\ op'.status = "running" /\ op'.phase = 4 /\ ~op'.critical
            /\ op'.fresh = op.fresh /\ op'.physical = op.physical
        BY <2>1, <2>2, <3>4, <1>i, <1>o, <1>p, Advanced
      <4>2. EepromCore'
        BY <2>1, <2>2, <3>1, <3>2, <3>3, <3>4, <4>1, <1>2, <1>i, <1>o, <1>s
      <4>3. EepromRest'
        BY <2>1, <3>1, <3>2, <3>3, <4>1, <1>i, RestQuiet, <2>2, <1>2, <3>4
           DEF Doubt, EE!Disarms
      <4>4. EepromContent'
        BY <2>1, <2>2, <3>2, <3>4, <4>1, <1>2, <1>i, ContentQuiet
      <4> QED BY <4>2, <4>3, <4>4, <1>q
    <3>5. CASE at = "reopen"
      <4>1. op' = op
        BY <2>2, <3>5
      <4>2. EepromCore'
        BY <2>1, <2>2, <3>1, <3>2, <3>3, <3>5, <4>1, <1>2, <1>i, <1>o, <1>s
      <4>3. EepromRest'
        BY <2>1, <3>1, <3>2, <3>3, <4>1, <1>i, RestQuiet, <2>2, <1>2, <3>5
           DEF Doubt, EE!Disarms
      <4>4. EepromContent'
        BY <2>1, <2>2, <3>2, <3>5, <4>1, <1>2, <1>i, ContentQuiet
      <4> QED BY <4>2, <4>3, <4>4, <1>q
    <3> QED BY <3>4, <3>5, <1>2
  <2>3. CASE UNCHANGED <<dev, ses, op>> /\ pending' \in Pendings /\ ~Clean' /\ (Doubt => Doubt')
             /\ pc' = "quiesce"
    <3>1. EepromCore'
      BY <2>1, <2>3, <1>2, <1>i, <1>o, <1>s
    <3>2. EepromRest'
      BY <2>1, <2>3, <1>2, <1>i, RestQuiet DEF EE!Disarms
    <3>3. EepromContent'
      BY <2>1, <2>3, <1>2, <1>i, ContentQuiet
    <3> QED BY <3>1, <3>2, <3>3, <1>q
  <2>4. CASE UNCHANGED <<dev, ses, op, pending>> /\ pc' = "unwind"
    <3>1. EepromCore'
      BY <2>1, <2>4, <1>2, <1>i, <1>o, <1>s
    <3>2. EepromRest'
      BY <2>1, <2>4, <1>2, <1>i, RestQuiet DEF EE!Disarms, Doubt
    <3>3. EepromContent'
      BY <2>1, <2>4, <1>2, <1>i, ContentQuiet
    <3> QED BY <3>1, <3>2, <3>3, <1>q
  <2>5. ASSUME NEW f \in Faults, EE!Erroneous(f), EE!Fails(EE!FailFromIO(pending, f, "openFailed", FALSE))
        PROVE  pending' \in Pendings /\ ~Clean' /\ (Doubt => Doubt') /\ pc' = "quiesce"
    BY <2>5, <1>o, FaultNames, FailureGrows DEF EE!Erroneous, EE!Fails
  <2>6. \/ /\ dev' = [dev EXCEPT !.opened = TRUE]
           /\ ses' = [ses EXCEPT !.opened = TRUE]
           /\ pending' = IF at = "open" THEN [pending EXCEPT !.disp = 1] ELSE pending
           /\ op' = IF at = "open" THEN AdvanceTo(op, 4) ELSE op
           /\ pc' = next
        \/ /\ UNCHANGED <<dev, ses, op>>
           /\ \/ \E f \in Faults : /\ EE!Erroneous(f)
                                   /\ EE!Fails(EE!FailFromIO(pending, f, "openFailed", FALSE))
              \/ pc' = "unwind" /\ UNCHANGED pending
    BY <1>2, EepromVocabulary DEF EE!Open, EE!Unwind
  <2>7. CASE UNCHANGED <<dev, ses, op>> /\ \E f \in Faults : /\ EE!Erroneous(f)
                                   /\ EE!Fails(EE!FailFromIO(pending, f, "openFailed", FALSE))
    BY <2>3, <2>5, <2>7
  <2>8. CASE UNCHANGED <<dev, ses, op>> /\ pc' = "unwind" /\ UNCHANGED pending
    BY <2>4, <2>8
  <2> QED BY <2>2, <2>6, <2>7, <2>8, Zenon
<1>a. ASSUME UNCHANGED <<job, executing, foreign, ret, cancelled, token, ses, chip, op, step>>,
             dev' = dev \/ dev' = [dev EXCEPT !.started = TRUE], ses.opened,
             pc \in First \cup Second \cup {"initialize"}, pc \notin {"write", "settle"},
             \/ pending' \in Pendings /\ ~Clean' /\ (Doubt => Doubt') /\ pc' = "quiesce"
             \/ UNCHANGED pending /\ pc' = "unwind"
      PROVE  EepromInv'
  <2>1. /\ dev' \in [opened : BOOLEAN, started : BOOLEAN, first : BOOLEAN, enabled : BOOLEAN]
        /\ dev'.opened = dev.opened /\ dev'.first = dev.first /\ dev'.enabled = dev.enabled
        /\ dev.started => dev'.started
    BY <1>a, <1>i
  <2>2. Doubt => Doubt'
    BY <1>a DEF Doubt
  <2>3. EepromCore'
    <3>1. CASE pc' = "quiesce"
      BY <1>a, <2>1, <3>1, <1>i, <1>o, <1>s
    <3>2. CASE pc' = "unwind"
      BY <1>a, <2>1, <3>2, <1>i, <1>o, <1>s
    <3> QED BY <1>a, <3>1, <3>2
  <2>4. EepromRest'
    BY <1>a, <2>1, <2>2, <1>i, RestQuiet DEF EE!Disarms
  <2>5. EepromContent'
    BY <1>a, <2>1, <1>i, ContentQuiet
  <2> QED BY <2>3, <2>4, <2>5, <1>q
<1>3. ASSUME NEW at, NEW next,
             <<at, next>> \in {<<"initialize", "loop">>, <<"reinitialize", "reloop">>},
             EE!Initialize(at, next)
      PROVE  EepromInv'
  <2>1. /\ pc = at /\ pending.code = "none" /\ ses.opened
        /\ UNCHANGED <<job, executing, foreign, ret, cancelled, token, chip>>
    BY <1>3, <1>i DEF EE!Initialize
  <2>2. CASE /\ EE!SnapshotAgrees
             /\ dev' = [dev EXCEPT !.started = TRUE, !.enabled = FALSE, !.first = FALSE]
             /\ ses' = [ses EXCEPT !.inited = TRUE]
             /\ op' = IF at = "initialize" THEN AdvanceTo(AdvanceTo(op, 8), 10) ELSE op
             /\ step' = 1 /\ pc' = next /\ UNCHANGED pending
    <3>1. /\ ses' \in [opened : BOOLEAN, inited : BOOLEAN] /\ ses'.opened = ses.opened
          /\ ses'.inited
      BY <2>2, <1>i
    <3>2. /\ dev' \in [opened : BOOLEAN, started : BOOLEAN, first : BOOLEAN, enabled : BOOLEAN]
          /\ dev'.opened = dev.opened /\ dev'.started /\ ~dev'.first /\ ~dev'.enabled
      BY <2>2, <1>i
    <3>3. 1 \in 1 .. Len(EE!Steps) + 1
      BY <1>i
    <3>4. EE!Idle /\ ~chip.armed
      BY <1>3, <2>1, <1>i DEF EepromRest, Doubt
    <3>5. /\ op' \in Outcomes /\ op'.status = "running" /\ ~op'.critical
          /\ op'.fresh = op.fresh /\ op'.physical = op.physical
          /\ at = "initialize" => op'.phase = 10
          /\ at = "reinitialize" => op'.phase = op.phase
      <4>1. CASE at = "initialize"
        <5>1. LET o == AdvanceTo(op, 8)
              IN  /\ o \in Outcomes /\ o.status = "running" /\ o.phase = 8 /\ ~o.critical
                  /\ o.fresh = op.fresh /\ o.physical = op.physical
          BY <2>1, <4>1, <1>i, <1>o, <1>p, Advanced
        <5> QED BY <2>2, <4>1, <5>1, <1>p, Advanced
      <4>2. CASE at = "reinitialize"
        BY <2>1, <2>2, <4>2, <1>i, <1>o
      <4> QED BY <4>1, <4>2, <1>3
    <3>6. EepromCore'
      <4>1. CASE at = "initialize"
        BY <2>1, <2>2, <3>1, <3>2, <3>3, <3>5, <4>1, <1>3, <1>i, <1>o, <1>s
      <4>2. CASE at = "reinitialize"
        BY <2>1, <2>2, <3>1, <3>2, <3>3, <3>5, <4>2, <1>3, <1>i, <1>o, <1>s
      <4> QED BY <4>1, <4>2, <1>3
    <3>7. EepromRest'
      BY <2>1, <3>4, <3>5, EepromVocabulary DEF EepromRest, EE!Idle, EE!SafeMeansDisarmed
    <3>8. EepromContent'
      <4>1. \A p \in Pages : chip.mem[p] = "old" \/ (at = "reinitialize" /\ p \in job.changed)
        BY <1>3, <2>1, <2>2, <1>i DEF EE!SnapshotAgrees, EE!Snapshot, EepromContent
      <4>2. op'.fresh => EE!Holds /\ EE!Idle
        BY <1>i, <3>5 DEF EepromContent
      <4>3. (EE!Holds' <=> EE!Holds) /\ (EE!Idle' <=> EE!Idle)
        BY <2>1 DEF EE!Holds, EE!Wanted, EE!Idle
      <4>4. (chip.busy \in job.changed \cup {0})'
        BY <2>1, <1>i DEF EepromContent
      <4>5. (\A p \in Pages : chip.mem[p] = "old" \/ p \in job.changed)'
        BY <4>1, <2>1
      <4>6. at = "initialize" => (\A p \in Pages : chip.mem[p] = "old")'
        BY <4>1, <2>1
      <4> QED BY <1>3, <2>2, <4>2, <4>3, <4>4, <4>5, <4>6 DEF EepromContent
    <3> QED BY <3>6, <3>7, <3>8, <1>q
  <2>3. CASE /\ UNCHANGED <<ses, op, step>> /\ dev' = [dev EXCEPT !.started = TRUE]
             /\ \/ pending' \in Pendings /\ ~Clean' /\ (Doubt => Doubt') /\ pc' = "quiesce"
                \/ UNCHANGED pending /\ pc' = "unwind"
    BY <1>3, <2>1, <2>3, <1>a
  <2>4. ASSUME NEW f \in (Faults \ {"raised"}) \cup {"rejected"},
               EE!Fails(EE!FailFromIO(pending, f, "busInitFailed", FALSE))
        PROVE  pending' \in Pendings /\ ~Clean' /\ (Doubt => Doubt') /\ pc' = "quiesce"
    BY <2>4, <1>o, FaultNames, FailureGrows DEF EE!Fails
  <2>5. \/ /\ EE!SnapshotAgrees
           /\ dev' = [dev EXCEPT !.started = TRUE, !.enabled = FALSE, !.first = FALSE]
           /\ ses' = [ses EXCEPT !.inited = TRUE]
           /\ op' = IF at = "initialize" THEN AdvanceTo(AdvanceTo(op, 8), 10) ELSE op
           /\ step' = 1 /\ pc' = next /\ UNCHANGED pending
        \/ /\ UNCHANGED <<ses, op, step>> /\ dev' = [dev EXCEPT !.started = TRUE]
           /\ \/ \E f \in (Faults \ {"raised"}) \cup {"rejected"} :
                    EE!Fails(EE!FailFromIO(pending, f, "busInitFailed", FALSE))
              \/ UNCHANGED pending /\ pc' = "unwind"
    BY <1>3, EepromVocabulary DEF EE!Initialize, EE!Unwind
  <2>6. CASE /\ UNCHANGED <<ses, op, step>> /\ dev' = [dev EXCEPT !.started = TRUE]
             /\ \E f \in (Faults \ {"raised"}) \cup {"rejected"} :
                    EE!Fails(EE!FailFromIO(pending, f, "busInitFailed", FALSE))
    BY <2>3, <2>4, <2>6
  <2>7. CASE /\ UNCHANGED <<ses, op, step>> /\ dev' = [dev EXCEPT !.started = TRUE]
             /\ UNCHANGED pending /\ pc' = "unwind"
    BY <2>3, <2>7
  <2> QED BY <2>2, <2>5, <2>6, <2>7, Zenon
<1>4. CASE EE!NextStep
  <2>1. /\ pc = "loop" /\ step \in Nat \ {0}
        /\ UNCHANGED <<job, executing, foreign, ret, pending, step, token, ses, dev, chip>>
    BY <1>4, <1>i DEF EE!NextStep
  <2>2. \/ pc' = "verified" /\ UNCHANGED <<cancelled, op>>
        \/ cancelled' = TRUE /\ pc' = "quiesce" /\ UNCHANGED op
        \/ /\ step \in 1 .. Len(EE!Steps) /\ EE!Current.kind = "verify" /\ pc' = "verify"
           /\ UNCHANGED <<cancelled, op>>
        \/ /\ step \in 1 .. Len(EE!Steps) /\ EE!Current.kind = "write" /\ pc' = "write"
           /\ op' = EE!BeginCritical(op) /\ UNCHANGED cancelled
    <3>1. step \in 1 .. Len(EE!Steps) => EE!Current.kind \in {"write", "verify"}
      BY <1>i, StepsShape DEF EE!Current
    <3>2. ~(step > Len(EE!Steps)) => step \in 1 .. Len(EE!Steps)
      BY <2>1, <1>i, StepsShape
    <3> QED BY <1>4, <3>1, <3>2 DEF EE!NextStep
  <2>3. CASE pc' \in {"verified", "verify", "quiesce"}
    <3>1. UNCHANGED op
      BY <2>2, <2>3
    <3>2. EepromCore'
      <4>1. CASE pc' = "quiesce"
        BY <2>1, <2>2, <4>1, <3>1, <1>i, <1>o, <1>s
      <4>2. CASE pc' # "quiesce"
        BY <2>1, <2>2, <2>3, <4>2, <3>1, <1>i, <1>o, <1>s
      <4> QED BY <4>1, <4>2
    <3>3. EepromRest'
      BY <2>1, <2>3, <3>1, <1>i, RestQuiet DEF EE!Disarms, Doubt
    <3>4. EepromContent'
      <4>1. CASE pc' # "verify"
        BY <2>1, <2>3, <4>1, <3>1, <1>i, ContentQuiet
      <4>2. CASE pc' = "verify"
        BY <2>1, <2>2, <4>2, <3>1, <1>i, <1>s
           DEF EepromContent, StepReached, EE!Current, EE!Idle, EE!Holds, EE!Wanted
      <4> QED BY <4>1, <4>2
    <3> QED BY <3>2, <3>3, <3>4, <1>q
  <2>4. CASE pc' = "write"
    <3>1. /\ op' \in Outcomes /\ op'.critical /\ op'.status = op.status /\ op'.phase = op.phase
          /\ op'.physical = op.physical /\ op'.fresh = op.fresh /\ op'.disp = op.disp
          /\ cancelled' = cancelled
      BY <2>2, <2>4, <1>o, CriticalMarks
    <3>2. EepromCore'
      BY <2>1, <2>4, <3>1, <1>i, <1>o, <1>s
    <3>3. EepromRest'
      BY <2>1, <2>4, <3>1, <1>i, RestQuiet DEF EE!Disarms, Doubt
    <3>4. EepromContent'
      BY <2>1, <2>2, <2>4, <3>1, <1>i, <1>s
         DEF EepromContent, StepReached, EE!Current, EE!Idle, EE!Holds, EE!Wanted
    <3> QED BY <3>2, <3>3, <3>4, <1>q
  <2> QED BY <2>2, <2>3, <2>4
<1>w. ASSUME NEW f \in Faults \cup {"rejected", "timeout"}, EE!WriteFailed(f)
      PROVE  /\ pending' \in Pendings /\ ~Clean' /\ Doubt' /\ pc' = "quiesce"
             /\ op' = EE!EndCritical(op)
  <2>1. EE!Error(f) \in IOErrors
    BY FaultNames DEF EE!Error
  <2>2. pending' = EE!FailFromIO(pending, EE!Error(f), "commandRejected", TRUE)
    BY <1>w DEF EE!WriteFailed, EE!Fails
  <2>3. "commandRejected" \in ErrorCodes \ {"none"}
    BY FaultNames
  <2>4. pending' \in Pendings /\ ~Clean' /\ Doubt'
    BY <2>1, <2>2, <2>3, <1>o, FailureGrows
  <2> QED BY <2>4, <1>w DEF EE!WriteFailed, EE!Fails
<1>5. CASE EE!WritePage
  <2>1. /\ pc = "write" /\ step \in 1 .. Len(EE!Steps) /\ EE!Current.kind = "write"
        /\ UNCHANGED <<job, executing, foreign, ret, step, cancelled, token, ses>>
    BY <1>5, <1>i, StepsShape DEF EE!WritePage, EepromContent
  <2>2. EE!Current.page \in job.changed /\ EE!Current.page \in Pages
    BY <2>1, <1>i, StepsShape DEF EE!Current
  <2>3. /\ dev' \in [opened : BOOLEAN, started : BOOLEAN, first : BOOLEAN, enabled : BOOLEAN]
        /\ dev'.opened = dev.opened /\ dev'.started = dev.started /\ dev'.first = dev.first
        /\ dev'.enabled <=> dev.enabled \/ job.bus = "mw"
    BY <1>5, <1>i DEF EE!WritePage
  <2>4. EE!Idle /\ ~Doubt
    BY <2>1, <1>i DEF EepromRest, Doubt
  <2>5. /\ chip' \in [mem : [Pages -> EE!Cell], busy : Pages \cup {0}, armed : BOOLEAN]
        /\ chip'.mem = chip.mem /\ chip'.busy \in {0, EE!Current.page}
        /\ chip'.armed => chip.armed \/ EE!Arming
    <3>1. chip' \in {chip, EE!Armed(chip), EE!Works(chip)}
      BY <1>5 DEF EE!WritePage
    <3>2. CASE chip' = chip
      BY <3>2, <1>i, <2>4 DEF EE!Idle
    <3>3. CASE chip' = EE!Armed(chip)
      BY <3>3, <1>i, <2>4 DEF EE!Idle, EE!Armed
    <3>4. CASE chip' = EE!Works(chip)
      BY <3>4, <1>i, <2>2, <2>4 DEF EE!Idle, EE!Armed, EE!Works
    <3> QED BY <3>1, <3>2, <3>3, <3>4
  <2>6. (chip.armed => ses.inited /\ EE!Disarms)'
    BY <2>1, <2>3, <2>4, <2>5, <1>i DEF EepromRest, EE!Arming, EE!Disarms
  <2>7. CASE pc' = "settle" /\ UNCHANGED <<pending, op>>
    <3>1. EepromCore'
      BY <2>1, <2>3, <2>5, <2>7, <1>i, <1>o, <1>s
    <3>2. EepromRest'
      BY <2>1, <2>6, <2>7, <1>i, EepromVocabulary DEF EepromRest, EE!SafeMeansDisarmed
    <3>3. EepromContent'
      <4>1. (\A p \in Pages : \/ chip.mem[p] = "old"
                              \/ \E i \in 1 .. step : EE!Steps[i].page = p)'
        BY <2>1, <2>5, <1>i, <1>s DEF EepromContent, StepReached
      <4>2. EE!Current' = EE!Current
        BY <2>1, <1>s DEF EE!Current
      <4>3. ~op'.fresh
        BY <2>1, <2>7, <1>i
      <4>4. (~dev.first => \A p \in Pages : chip.mem[p] = "old" \/ p \in job.changed)'
        BY <2>1, <2>3, <2>5, <1>i DEF EepromContent
      <4>5. (step <= Len(EE!Steps) /\ EE!Current.kind = "write" /\ chip.busy \in {0, EE!Current.page})'
        BY <2>1, <2>5, <4>2, <1>s
      <4>6. chip'.busy \in job'.changed \cup {0}
        BY <2>1, <2>2, <2>5
      <4> QED BY <2>7, <4>1, <4>3, <4>4, <4>5, <4>6 DEF EepromContent, StepReached
    <3> QED BY <3>1, <3>2, <3>3, <1>q
  <2>8. CASE \E f \in Faults \cup {"rejected"} : EE!WriteFailed(f)
    <3>1. /\ pending' \in Pendings /\ ~Clean' /\ Doubt' /\ pc' = "quiesce"
          /\ op' = EE!EndCritical(op)
      BY <2>8, <1>w
    <3>2. /\ op' \in Outcomes /\ ~op'.critical /\ op'.status = op.status /\ op'.phase = op.phase
          /\ op'.physical = op.physical /\ op'.fresh = op.fresh /\ op'.disp = op.disp
      BY <3>1, <1>o, CriticalMarks
    <3>3. EepromCore'
      BY <2>1, <2>3, <2>5, <3>1, <3>2, <1>i, <1>o, <1>s
    <3>4. EepromRest'
      BY <2>1, <3>1, <3>2, <1>i, EepromVocabulary DEF EepromRest, EE!SafeMeansDisarmed
    <3>5. EepromContent'
      <4>1. ~op'.fresh
        BY <2>1, <3>2, <1>i
      <4>2. (~dev.first => \A p \in Pages : chip.mem[p] = "old" \/ p \in job.changed)'
        BY <2>1, <2>3, <2>5, <1>i DEF EepromContent
      <4>3. chip'.busy \in job'.changed \cup {0}
        BY <2>1, <2>2, <2>5
      <4> QED BY <3>1, <4>1, <4>2, <4>3 DEF EepromContent
    <3> QED BY <3>3, <3>4, <3>5, <1>q
  <2> QED BY <1>5, <2>7, <2>8 DEF EE!WritePage
<1>6. CASE EE!WaitReady
  <2>1. /\ pc = "settle" /\ step \in 1 .. Len(EE!Steps)
        /\ UNCHANGED <<job, executing, foreign, ret, token, ses, dev, chip>>
    BY <1>6, <1>i, StepsShape DEF EE!WaitReady, EepromContent
  <2>2. /\ EE!EndCritical(op) \in Outcomes /\ ~EE!EndCritical(op).critical
        /\ EE!EndCritical(op).status = op.status /\ EE!EndCritical(op).phase = op.phase
        /\ EE!EndCritical(op).physical = op.physical /\ EE!EndCritical(op).fresh = op.fresh
        /\ EE!EndCritical(op).disp = op.disp
    BY <1>o, CriticalMarks
  <2>3. CASE /\ EE!Idle /\ op' = EE!EndCritical(op) /\ step' = step + 1 /\ cancelled' = token
             /\ pc' = IF token THEN "quiesce" ELSE "loop"
             /\ UNCHANGED pending
    <3>1. step' \in 1 .. Len(EE!Steps) + 1
      BY <2>1, <2>3, <1>i, StepsShape
    <3>2. EepromCore'
      <4>1. CASE token
        BY <2>1, <2>2, <2>3, <3>1, <4>1, <1>i, <1>o, <1>s
      <4>2. CASE ~token
        BY <2>1, <2>2, <2>3, <3>1, <4>2, <1>i, <1>o, <1>s
      <4> QED BY <4>1, <4>2
    <3>3. EepromRest'
      BY <2>1, <2>2, <2>3, <1>i, EepromVocabulary
         DEF EepromRest, EE!SafeMeansDisarmed, EE!Idle, EE!Disarms, Doubt
    <3>4. EepromContent'
      <4>1. ~op'.fresh
        BY <2>1, <2>2, <2>3, <1>i
      <4>2. CASE token
        BY <2>1, <2>3, <4>1, <4>2, <1>i, ContentQuiet
      <4>3. CASE ~token
        <5>1. (\A p \in Pages : \/ chip.mem[p] = "old"
                                \/ \E i \in 1 .. step - 1 : EE!Steps[i].page = p)'
          <6>1. step' - 1 = step
            BY <2>1, <2>3
          <6> QED BY <2>1, <6>1, <1>i, <1>s DEF EepromContent, StepReached
        <5> QED BY <2>1, <2>3, <4>1, <4>3, <5>1, <1>i DEF EepromContent, StepReached
      <4> QED BY <4>2, <4>3
    <3> QED BY <3>2, <3>3, <3>4, <1>q
  <2>4. CASE /\ \E f \in Faults \cup {"timeout"} : EE!WriteFailed(f)
             /\ UNCHANGED <<step, cancelled>>
    <3>1. /\ pending' \in Pendings /\ ~Clean' /\ Doubt' /\ pc' = "quiesce"
          /\ op' = EE!EndCritical(op)
      BY <2>4, <1>w
    <3>2. EepromCore'
      BY <2>1, <2>2, <2>4, <3>1, <1>i, <1>o, <1>s
    <3>3. EepromRest'
      BY <2>1, <2>2, <3>1, <1>i, EepromVocabulary DEF EepromRest, EE!SafeMeansDisarmed
    <3>4. EepromContent'
      BY <2>1, <2>2, <3>1, <1>i, ContentQuiet
    <3> QED BY <3>2, <3>3, <3>4, <1>q
  <2> QED BY <1>6, <2>3, <2>4 DEF EE!WaitReady
<1>7. ASSUME NEW at, NEW next, <<at, next>> \in {<<"verify", "loop">>, <<"reverify", "reloop">>},
             EE!ReadPage(at, next)
      PROVE  EepromInv'
  <2>1. /\ pc = at /\ ses.opened /\ step \in 1 .. Len(EE!Steps) /\ EE!Current.kind = "verify"
        /\ UNCHANGED <<job, executing, foreign, ret, op, cancelled, token, ses, dev, chip>>
    <3>1. step \in 1 .. Len(EE!Steps)
      BY <1>7, <1>i, StepsShape DEF EE!ReadPage, EepromContent
    <3> QED BY <1>7, <3>1, <1>i DEF EE!ReadPage, EepromContent
  <2>2. CASE EE!Matches /\ step' = step + 1 /\ pc' = next /\ UNCHANGED pending
    <3>1. step' \in 1 .. Len(EE!Steps) + 1 /\ step' - 1 = step
      BY <2>1, <2>2, <1>i, StepsShape
    <3>2. EepromCore'
      <4>1. CASE at = "verify"
        BY <2>1, <2>2, <3>1, <4>1, <1>7, <1>i, <1>o, <1>s
      <4>2. CASE at = "reverify"
        BY <2>1, <2>2, <3>1, <4>2, <1>7, <1>i, <1>o, <1>s
      <4> QED BY <4>1, <4>2, <1>7
    <3>3. EepromRest'
      BY <1>7, <2>1, <2>2, <1>i, RestQuiet DEF EE!Disarms, Doubt
    <3>4. EepromContent'
      <4>0. op' = op /\ (EE!Idle' <=> EE!Idle) /\ (EE!Holds' <=> EE!Holds)
        BY <2>1 DEF EE!Idle, EE!Holds, EE!Wanted
      <4>1. CASE at = "verify"
        <5>1. (\A p \in Pages : \/ chip.mem[p] = "old"
                                \/ \E i \in 1 .. step - 1 : EE!Steps[i].page = p)'
          <6>1. \A p \in Pages : chip.mem[p] = "old" \/ \E i \in 1 .. step - 1 : EE!Steps[i].page = p
            BY <2>1, <4>1, <1>i DEF EepromContent, StepReached
          <6>2. \A p \in Pages : chip.mem[p] = "old" \/ \E i \in 1 .. step : EE!Steps[i].page = p
            BY <2>1, <6>1
          <6> QED BY <2>1, <3>1, <6>2, <1>s
        <5> QED BY <1>7, <2>1, <2>2, <4>0, <4>1, <5>1, <1>i DEF EepromContent, StepReached
      <4>2. CASE at = "reverify"
        <5>1. chip.mem[EE!Steps[step].page] = EE!Wanted(EE!Steps[step].page)
          BY <2>2 DEF EE!Matches, EE!Current
        <5>2. ASSUME NEW i \in 1 .. step, EE!Steps[i].kind = "verify"
              PROVE  chip.mem[EE!Steps[i].page] = EE!Wanted(EE!Steps[i].page)
          <6>1. i = step \/ i \in 1 .. step - 1
            BY <2>1
          <6> QED BY <2>1, <4>2, <5>1, <5>2, <6>1, <1>i DEF EepromContent
        <5>3. \A p : EE!Wanted(p) = IF p \in job.changed THEN "new" ELSE "old"
          BY DEF EE!Wanted
        <5>4. \A p : EE!Wanted(p)' = IF p \in job'.changed THEN "new" ELSE "old"
          BY DEF EE!Wanted
        <5>5. (\A i \in 1 .. step - 1 : EE!Steps[i].kind = "verify" =>
                  chip.mem[EE!Steps[i].page] = EE!Wanted(EE!Steps[i].page))'
          BY <2>1, <3>1, <5>2, <5>3, <5>4, <1>s
        <5> QED BY <1>7, <2>1, <2>2, <4>0, <4>2, <5>5, <1>i DEF EepromContent
      <4> QED BY <4>1, <4>2, <1>7
    <3> QED BY <3>2, <3>3, <3>4, <1>q
  <2>3. CASE /\ UNCHANGED step
             /\ \/ pending' \in Pendings /\ ~Clean' /\ (Doubt => Doubt') /\ pc' = "quiesce"
                \/ UNCHANGED pending /\ pc' = "unwind"
    BY <1>7, <2>1, <2>3, <1>a
  <2>4. ASSUME NEW f \in Faults, EE!Erroneous(f), EE!Fails(EE!FailFromIO(pending, f, "transport", FALSE))
        PROVE  pending' \in Pendings /\ ~Clean' /\ (Doubt => Doubt') /\ pc' = "quiesce"
    BY <2>4, <1>o, FaultNames, FailureGrows DEF EE!Erroneous, EE!Fails
  <2>5. ASSUME NEW code \in {"verifyMismatch", "shortTransfer"},
               EE!Fails(EE!SetPending(pending, code, 1))
        PROVE  pending' \in Pendings /\ ~Clean' /\ (Doubt => Doubt') /\ pc' = "quiesce"
    BY <2>5, <1>o, <1>d, FaultNames, SettingGrows DEF EE!Fails
  <2>6. \/ EE!Matches /\ step' = step + 1 /\ pc' = next /\ UNCHANGED pending
        \/ /\ UNCHANGED step
           /\ \/ pending' \in Pendings /\ ~Clean' /\ (Doubt => Doubt') /\ pc' = "quiesce"
              \/ UNCHANGED pending /\ pc' = "unwind"
    BY <1>7, <2>4, <2>5 DEF EE!ReadPage, EE!Unwind
  <2> QED BY <2>2, <2>3, <2>6
<1>c. ASSUME NEW next \in {"finish", "fresh", "except"}, EE!Cleanup(next),
             UNCHANGED <<job, executing, foreign, pending, step, cancelled, token, ses, dev, chip>>,
             op' \in Outcomes, op'.status = "running", ~op'.critical,
             op.physical => op'.physical, op'.fresh = op.fresh,
             pc \in {"verified", "quiesce", "unwind"},
             next = "fresh" => pc = "verified" /\ op'.phase = 11 /\ op'.physical,
             next = "finish" => pc = "quiesce" /\ op'.phase = 12,
             next = "except" => pc = "unwind"
      PROVE  EepromInv'
  <2>1. /\ ret' = next /\ pc' \in {"deinitialize", "close", next}
        /\ pc' = "deinitialize" => ses.inited
        /\ pc' = "close" => ses.opened /\ ~ses.inited
        /\ pc' = next => ~ses.opened
    BY <1>c, <1>i DEF EE!Cleanup
  <2>2. EepromCore'
    <3>1. CASE next = "finish"
      <4>1. EE!TypeOK' /\ (pc \in EepromPc)'
        BY <1>c, <2>1, <3>1, <1>i, <1>o, <1>s
      <4>2. EepromOperation'
        BY <1>c, <2>1, <3>1, <1>i, <1>o, <1>s
      <4>3. EepromSession'
        BY <1>c, <2>1, <3>1, <1>i, <1>o, <1>s
      <4>4. EepromPending'
        BY <1>c, <2>1, <3>1, <1>i, <1>o, <1>s
      <4> QED BY <4>1, <4>2, <4>3, <4>4
    <3>2. CASE next = "fresh"
      BY <1>c, <2>1, <3>2, <1>i, <1>o, <1>s
    <3>3. CASE next = "except"
      <4>1. EE!TypeOK' /\ (pc \in EepromPc)'
        BY <1>c, <2>1, <3>3, <1>i, <1>o, <1>s
      <4>2. EepromOperation'
        BY <1>c, <2>1, <3>3, <1>i, <1>o, <1>s
      <4>3. EepromSession'
        BY <1>c, <2>1, <3>3, <1>i, <1>o, <1>s
      <4>4. EepromPending'
        BY <1>c, <2>1, <3>3, <1>i, <1>o, <1>s
      <4> QED BY <4>1, <4>2, <4>3, <4>4
    <3> QED BY <1>c, <3>1, <3>2, <3>3
  <2>3. EepromRest'
    BY <1>c, <2>1, <1>i, RestQuiet DEF EE!Disarms, Doubt
  <2>4. EepromContent'
    BY <1>c, <2>1, <1>i, ContentQuiet
  <2> QED BY <2>2, <2>3, <2>4, <1>q
<1>8. CASE EE!PhysicallyVerified
  <2>1. /\ pc = "verified" /\ EE!Cleanup("fresh") /\ op' = [AdvanceTo(op, 11) EXCEPT !.physical = TRUE]
        /\ UNCHANGED <<job, executing, foreign, pending, step, cancelled, token, ses, dev, chip>>
    BY <1>8, EepromVocabulary DEF EE!PhysicallyVerified
  <2>2. /\ AdvanceTo(op, 11) \in Outcomes /\ AdvanceTo(op, 11).status = "running"
        /\ AdvanceTo(op, 11).phase = 11 /\ ~AdvanceTo(op, 11).critical
        /\ AdvanceTo(op, 11).fresh = op.fresh
    BY <2>1, <1>i, <1>o, <1>p, Advanced
  <2>3. /\ op' \in Outcomes /\ op'.status = "running" /\ op'.phase = 11 /\ ~op'.critical
        /\ op'.physical /\ op'.fresh = op.fresh
    BY <2>1, <2>2 DEF Outcomes
  <2> QED BY <2>1, <2>3, <1>c
<1>9. CASE EE!FreshSession
  <2>1. /\ pc = "fresh" /\ cancelled' = (pending.code = "none" /\ token)
        /\ pc' = IF pending.code # "none" \/ token THEN "quiesce" ELSE "reopen"
        /\ UNCHANGED <<job, executing, foreign, ret, op, pending, step, token, ses, dev, chip>>
    BY <1>9 DEF EE!FreshSession
  <2>0. \/ pending.code # "none" /\ cancelled' = FALSE /\ pc' = "quiesce"
        \/ pending.code = "none" /\ cancelled' = TRUE /\ pc' = "quiesce"
        \/ pending.code = "none" /\ cancelled' = FALSE /\ pc' = "reopen"
    BY <2>1, <1>i
  <2>2. EepromCore'
    <3>1. CASE pending.code # "none" /\ cancelled' = FALSE /\ pc' = "quiesce"
      BY <2>1, <3>1, <1>i, <1>o, <1>s
    <3>2. CASE pending.code = "none" /\ cancelled' = TRUE /\ pc' = "quiesce"
      BY <2>1, <3>2, <1>i, <1>o, <1>s
    <3>3. CASE pending.code = "none" /\ cancelled' = FALSE /\ pc' = "reopen"
      BY <2>1, <3>3, <1>i, <1>o, <1>s
    <3> QED BY <2>0, <3>1, <3>2, <3>3
  <2>3. EepromRest'
    BY <2>1, <1>i, RestQuiet DEF EE!Disarms, Doubt
  <2>4. EepromContent'
    BY <2>1, <1>i, ContentQuiet
  <2> QED BY <2>2, <2>3, <2>4, <1>q
<1>10. CASE EE!FreshLoop
  <2>1. /\ pc = "reloop" /\ step \in Nat \ {0}
        /\ UNCHANGED <<job, executing, foreign, ret, pending, token, ses, dev, chip>>
    BY <1>10, <1>i DEF EE!FreshLoop
  <2>2. step > Len(EE!Steps) \/ step \in 1 .. Len(EE!Steps)
    BY <2>1, <1>i, StepsShape
  <2>3. CASE step > Len(EE!Steps)
    <3>1. op' = [op EXCEPT !.fresh = TRUE] /\ pc' = "quiesce" /\ UNCHANGED <<step, cancelled>>
      BY <1>10, <2>3 DEF EE!FreshLoop
    <3>2. /\ op' \in Outcomes /\ op'.fresh /\ op'.status = op.status /\ op'.phase = op.phase
          /\ op'.physical = op.physical /\ op'.critical = op.critical
      BY <3>1, <1>o DEF Outcomes
    <3>3. EepromCore'
      BY <2>1, <3>1, <3>2, <1>i, <1>o, <1>s
    <3>4. EepromRest'
      BY <2>1, <3>1, <3>2, <1>i, RestQuiet DEF EE!Disarms, Doubt
    <3>5. EepromContent'
      <4>1. EE!Idle
        BY <2>1, <1>i DEF EepromRest, Doubt
      <4>2. EE!Holds
        <5>1. ASSUME NEW p \in job.patched PROVE chip.mem[p] = EE!Wanted(p)
          <6>1. PICK i \in 1 .. Len(EE!Steps) : EE!Steps[i].kind = "verify" /\ EE!Steps[i].page = p
            BY <1>i, StepsShape
          <6>2. i \in 1 .. step - 1
            BY <2>1, <2>3, <1>i, StepsShape
          <6> QED BY <2>1, <6>1, <6>2, <1>i DEF EepromContent
        <5> QED BY <5>1 DEF EE!Holds
      <4>3. EE!Idle' /\ EE!Holds'
        BY <2>1, <4>1, <4>2 DEF EE!Idle, EE!Holds, EE!Wanted
      <4>4. (~dev.first => \A p \in Pages : chip.mem[p] = "old" \/ p \in job.changed)'
            /\ (chip.busy \in job.changed \cup {0})'
        BY <2>1, <1>i DEF EepromContent
      <4> QED BY <3>1, <4>3, <4>4 DEF EepromContent
    <3> QED BY <3>3, <3>4, <3>5, <1>q
  <2>4. CASE step \in 1 .. Len(EE!Steps)
    <3>1. ~(step > Len(EE!Steps)) /\ EE!Current.kind \in {"write", "verify"}
      BY <2>4, <1>i, StepsShape DEF EE!Current
    <3>2. \/ /\ EE!Current.kind = "write" /\ step' = step + 1 /\ pc' = "reloop"
             /\ UNCHANGED <<cancelled, op>>
          \/ /\ EE!Current.kind = "verify" /\ UNCHANGED <<step, op>> /\ cancelled' = token
             /\ pc' = IF token THEN "quiesce" ELSE "reverify"
      BY <1>10, <2>1, <3>1 DEF EE!FreshLoop
    <3>3. step' \in 1 .. Len(EE!Steps) + 1
      BY <2>4, <3>2, <1>i, StepsShape
    <3>4. EepromCore'
      <4>1. CASE pc' = "reloop"
        BY <2>1, <3>2, <3>3, <4>1, <1>i, <1>o, <1>s
      <4>2. CASE pc' = "reverify"
        BY <2>1, <3>2, <3>3, <4>2, <1>i, <1>o, <1>s
      <4>3. CASE pc' = "quiesce"
        BY <2>1, <3>2, <3>3, <4>3, <1>i, <1>o, <1>s
      <4> QED BY <3>2, <4>1, <4>2, <4>3
    <3>5. EepromRest'
      BY <2>1, <3>2, <1>i, RestQuiet DEF EE!Disarms, Doubt
    <3>6. EepromContent'
      <4>1. op' = op /\ (EE!Idle' <=> EE!Idle) /\ (EE!Holds' <=> EE!Holds)
        BY <2>1, <3>2 DEF EE!Idle, EE!Holds, EE!Wanted
      <4>2. (~dev.first => \A p \in Pages : chip.mem[p] = "old" \/ p \in job.changed)'
            /\ (chip.busy \in job.changed \cup {0})'
        BY <2>1, <1>i DEF EepromContent
      <4>3. ASSUME NEW i \in 1 .. step' - 1, EE!Steps[i].kind = "verify"
            PROVE  chip.mem[EE!Steps[i].page] = EE!Wanted(EE!Steps[i].page)
        <5>1. i \in 1 .. step - 1 \/ (i = step /\ EE!Current.kind = "write")
          BY <2>1, <3>2, <4>3
        <5>2. i # step \/ EE!Current.kind # "write"
          BY <4>3 DEF EE!Current
        <5> QED BY <2>1, <4>3, <5>1, <5>2, <1>i DEF EepromContent
      <4>4. \A p : EE!Wanted(p) = IF p \in job.changed THEN "new" ELSE "old"
        BY DEF EE!Wanted
      <4>5. \A p : EE!Wanted(p)' = IF p \in job'.changed THEN "new" ELSE "old"
        BY DEF EE!Wanted
      <4>6. (\A i \in 1 .. step - 1 : EE!Steps[i].kind = "verify" =>
                chip.mem[EE!Steps[i].page] = EE!Wanted(EE!Steps[i].page))'
        BY <2>1, <4>3, <4>4, <4>5, <1>s
      <4>7. pc' = "reverify" => (step <= Len(EE!Steps) /\ EE!Current.kind = "verify")'
        BY <2>1, <2>4, <3>2, <1>i, <1>s, StepsShape DEF EE!Current
      <4> QED BY <3>2, <4>1, <4>2, <4>6, <4>7, <1>i DEF EepromContent
    <3> QED BY <3>4, <3>5, <3>6, <1>q
  <2> QED BY <2>2, <2>3, <2>4
<1>11. CASE EE!Quiesce
  <2>1. /\ pc = "quiesce" /\ EE!Cleanup("finish") /\ op' = AdvanceTo(op, 12)
        /\ UNCHANGED <<job, executing, foreign, pending, step, cancelled, token, ses, dev, chip>>
    BY <1>11, <1>i, EepromVocabulary DEF EE!Quiesce
  <2>2. /\ op' \in Outcomes /\ op'.status = "running" /\ op'.phase = 12 /\ ~op'.critical
        /\ op'.physical = op.physical /\ op'.fresh = op.fresh
    BY <2>1, <1>i, <1>o, <1>p, Advanced
  <2> QED BY <2>1, <2>2, <1>c
<1>12. CASE EE!Finally
  <2>1. /\ pc = "unwind" /\ EE!Cleanup("except") /\ op' = op
        /\ UNCHANGED <<job, executing, foreign, pending, step, cancelled, token, ses, dev, chip>>
    BY <1>12 DEF EE!Finally
  <2> QED BY <2>1, <1>c, <1>i, <1>o
<1>e. ASSUME EE!EndBus
      PROVE  /\ dev' \in [opened : BOOLEAN, started : BOOLEAN, first : BOOLEAN, enabled : BOOLEAN]
             /\ ~dev'.started /\ ~dev'.enabled /\ dev'.first = dev.first
             /\ dev'.opened <=> dev.opened /\ pc = "deinitialize"
             /\ chip' \in [mem : [Pages -> EE!Cell], busy : Pages \cup {0}, armed : BOOLEAN]
             /\ chip'.mem = chip.mem /\ chip'.busy = chip.busy /\ (chip'.armed => chip.armed)
             /\ pending' \in Pendings /\ (Doubt => Doubt') /\ (~Clean => ~Clean')
             /\ ~Doubt' /\ EE!Idle /\ EE!Disarms => ~chip'.armed
  <2>1. /\ dev' \in [opened : BOOLEAN, started : BOOLEAN, first : BOOLEAN, enabled : BOOLEAN]
        /\ ~dev'.started /\ ~dev'.enabled /\ dev'.first = dev.first
        /\ dev'.opened <=> dev.opened /\ pc = "deinitialize"
    BY <1>e, <1>i DEF EE!EndBus
  <2>2. ASSUME pending' = EE!CleanupFails
        PROVE  pending' \in Pendings /\ ~Clean' /\ Doubt'
    BY <2>2, <1>o, <1>d, FaultNames, SettingGrows DEF EE!CleanupFails
  <2>3. ASSUME pending' = pending
        PROVE  pending' \in Pendings /\ (Doubt => Doubt') /\ (~Clean => ~Clean')
    BY <2>3, <1>o DEF Doubt
  <2>4. /\ EE!Disarmed \in [mem : [Pages -> EE!Cell], busy : Pages \cup {0}, armed : BOOLEAN]
        /\ EE!Disarmed.mem = chip.mem /\ EE!Disarmed.busy = chip.busy
        /\ EE!Disarmed.armed => chip.armed
        /\ EE!Disarms /\ EE!Idle => ~EE!Disarmed.armed
    BY <1>i DEF EE!Disarmed
  <2>5. \/ chip' = EE!Disarmed /\ pending' \in {pending, EE!CleanupFails}
        \/ chip' = chip /\ pending' = EE!CleanupFails
    BY <1>e DEF EE!EndBus
  <2> QED BY <2>1, <2>2, <2>3, <2>4, <2>5, <1>i
<1>13. CASE EE!Deinitialize
  <2>1. /\ pc = "deinitialize" /\ EE!EndBus /\ pc' = "close"
        /\ ses' = [ses EXCEPT !.inited = FALSE]
        /\ UNCHANGED <<job, executing, foreign, ret, op, step, cancelled, token>>
    BY <1>13 DEF EE!Deinitialize
  <2>2. ses' \in [opened : BOOLEAN, inited : BOOLEAN] /\ ~ses'.inited /\ ses'.opened = ses.opened
    BY <2>1, <1>i
  <2>3. EepromCore'
    BY <2>1, <2>2, <1>e, <1>i, <1>o, <1>s
  <2>4. EepromRest'
    <3>1. ~EE!Idle => Doubt
      BY <2>1, <1>i DEF EepromRest
    <3>2. chip'.armed => Doubt'
      BY <2>1, <3>1, <1>e, <1>i DEF EepromRest
    <3>3. ~EE!Idle' => Doubt'
      BY <2>1, <3>1, <1>e DEF EE!Idle
    <3>4. ~IsTerminal(op')
      BY <2>1, <1>i
    <3> QED BY <3>2, <3>3, <3>4, EepromVocabulary DEF EepromRest, EE!SafeMeansDisarmed
  <2>5. EepromContent'
    BY <2>1, <1>e, <1>i, ContentQuiet
  <2> QED BY <2>3, <2>4, <2>5, <1>q
<1>14. CASE EE!Close
  <2>1. /\ pc = "close" /\ pc' = ret
        /\ ses' = [ses EXCEPT !.opened = FALSE]
        /\ UNCHANGED <<job, executing, foreign, ret, op, step, cancelled, token>>
    BY <1>14 DEF EE!Close
  <2>2. ses' \in [opened : BOOLEAN, inited : BOOLEAN] /\ ~ses'.inited /\ ~ses'.opened
    BY <2>1, <1>i
  <2>3. /\ dev' \in [opened : BOOLEAN, started : BOOLEAN, first : BOOLEAN, enabled : BOOLEAN]
        /\ ~dev'.started /\ ~dev'.enabled /\ dev'.first = dev.first /\ ~dev'.opened
        /\ chip' \in [mem : [Pages -> EE!Cell], busy : Pages \cup {0}, armed : BOOLEAN]
        /\ chip'.mem = chip.mem /\ chip'.busy = chip.busy /\ (chip'.armed => chip.armed)
        /\ pending' \in Pendings /\ (Doubt => Doubt') /\ (~Clean => ~Clean')
    <3>1. CASE EE!OwesTheBus
      BY <2>1, <3>1, <1>14, <1>e DEF EE!Close
    <3>2. CASE ~EE!OwesTheBus
      <4>1. /\ dev' = [dev EXCEPT !.opened = FALSE] /\ UNCHANGED chip
            /\ pending' \in {pending, EE!CleanupFails} /\ ~dev.started
        BY <3>2, <1>14 DEF EE!Close, EE!OwesTheBus
      <4>2. ASSUME pending' = EE!CleanupFails
            PROVE  pending' \in Pendings /\ ~Clean' /\ Doubt'
        BY <4>2, <1>o, <1>d, FaultNames, SettingGrows DEF EE!CleanupFails
      <4>3. ASSUME pending' = pending
            PROVE  pending' \in Pendings /\ (Doubt => Doubt') /\ (~Clean => ~Clean')
        BY <4>3, <1>o DEF Doubt
      <4>4. /\ dev' \in [opened : BOOLEAN, started : BOOLEAN, first : BOOLEAN, enabled : BOOLEAN]
            /\ dev'.started = dev.started /\ dev'.enabled = dev.enabled
            /\ dev'.first = dev.first /\ ~dev'.opened
        BY <4>1, <1>i
      <4> QED BY <4>1, <4>2, <4>3, <4>4, <1>i
    <3> QED BY <3>1, <3>2
  <2>4. EepromCore'
    <3>1. CASE ret = "finish"
      <4>1. EE!TypeOK' /\ (pc \in EepromPc)'
        BY <2>1, <2>2, <2>3, <3>1, <1>i, <1>o, <1>s
      <4>2. EepromOperation'
        BY <2>1, <2>2, <2>3, <3>1, <1>i, <1>o, <1>s
      <4>3. EepromSession'
        BY <2>1, <2>2, <2>3, <3>1, <1>i, <1>o, <1>s
      <4>4. EepromPending'
        BY <2>1, <2>2, <2>3, <3>1, <1>i, <1>o, <1>s
      <4> QED BY <4>1, <4>2, <4>3, <4>4
    <3>2. CASE ret = "fresh"
      <4>1. EE!TypeOK' /\ (pc \in EepromPc)'
        BY <2>1, <2>2, <2>3, <3>2, <1>i, <1>o, <1>s
      <4>2. EepromOperation'
        BY <2>1, <2>2, <2>3, <3>2, <1>i, <1>o, <1>s
      <4>3. EepromSession'
        BY <2>1, <2>2, <2>3, <3>2, <1>i, <1>o, <1>s
      <4>4. EepromPending'
        BY <2>1, <2>2, <2>3, <3>2, <1>i, <1>o, <1>s
      <4> QED BY <4>1, <4>2, <4>3, <4>4
    <3>3. CASE ret = "except"
      BY <2>1, <2>2, <2>3, <3>3, <1>i, <1>o, <1>s
    <3> QED BY <3>1, <3>2, <3>3, <1>i
  <2>5. EepromRest'
    <3>1. (chip.armed => Doubt) /\ (~EE!Idle => Doubt)
      BY <2>1, <1>i DEF EepromRest
    <3>2. (chip'.armed => Doubt') /\ (~EE!Idle' => Doubt')
      BY <2>3, <3>1 DEF EE!Idle
    <3>3. ~IsTerminal(op')
      BY <2>1, <1>i
    <3> QED BY <3>2, <3>3, EepromVocabulary DEF EepromRest, EE!SafeMeansDisarmed
  <2>6. EepromContent'
    BY <2>1, <2>3, <1>i, ContentQuiet
  <2> QED BY <2>4, <2>5, <2>6, <1>q
<1>t. ASSUME pc \in {"finish", "commit", "except"}, pc' = "done", executing' = FALSE,
             UNCHANGED <<job, foreign, ret, step, cancelled, token, ses, dev, chip>>,
             op' \in Outcomes, ~op'.critical, op'.physical = op.physical, op'.fresh = op.fresh,
             pending' \in Pendings, Doubt => Doubt', Clean \/ ~Clean',
             \/ op'.status = "failed" /\ op'.disp = pending'.disp /\ ~Clean'
             \/ op'.status = "succeeded" /\ op'.disp = 1 /\ Clean /\ op.fresh
             \/ op'.status = "cancelled" /\ op'.disp = 1 /\ Clean
      PROVE  EepromInv'
  <2>1. EepromCore'
    <3>1. CASE op'.status = "failed"
      BY <1>t, <3>1, <1>i, <1>o, <1>s
    <3>2. CASE op'.status = "succeeded"
      BY <1>t, <3>2, <1>i, <1>o, <1>s
    <3>3. CASE op'.status = "cancelled"
      BY <1>t, <3>3, <1>i, <1>o, <1>s
    <3> QED BY <1>t, <3>1, <3>2, <3>3
  <2>2. EepromRest'
    <3>1. (chip.armed => Doubt) /\ (~EE!Idle => Doubt)
      BY <1>t, <1>i DEF EepromRest
    <3>2. (chip'.armed => Doubt') /\ (~EE!Idle' => Doubt')
      BY <1>t, <3>1 DEF EE!Idle
    <3>3. Doubt => op'.status = "failed" /\ op'.disp > 1
      BY <1>t DEF Doubt
    <3>4. op'.disp = 1 => EE!Idle' /\ ~chip'.armed
      BY <1>t, <3>1, <3>3 DEF EE!Idle
    <3> QED BY <3>2, <3>4, EepromVocabulary DEF EepromRest, EE!SafeMeansDisarmed
  <2>3. EepromContent'
    BY <1>t, <1>i, ContentQuiet
  <2> QED BY <2>1, <2>2, <2>3, <1>q
<1>k. ASSUME pc \in {"finish", "commit", "except"}, EE!TerminateFailed(pending'),
             UNCHANGED <<job, foreign, ret, step, cancelled, token, ses, dev, chip>>,
             pending' \in Pendings, ~Clean', Doubt => Doubt'
      PROVE  EepromInv'
  <2>1. /\ op' = Fail(op, pending'.code, pending'.disp) /\ pc' = "done" /\ executing' = FALSE
    BY <1>k, EepromVocabulary DEF EE!TerminateFailed, EE!Terminate
  <2>2. pending'.code \in ErrorCodes /\ pending'.disp \in Dispositions
    BY <1>k DEF Pendings
  <2>3. /\ op' \in Outcomes /\ ~op'.critical /\ op'.physical = op.physical /\ op'.fresh = op.fresh
        /\ op'.status = "failed" /\ op'.disp = pending'.disp
    BY <1>k, <2>1, <2>2, <1>i, <1>o, Failed
  <2> QED BY <1>k, <2>1, <2>3, <1>t
<1>m. ASSUME pc \in {"finish", "commit"}, EE!Terminate(EE!Complete(op)), UNCHANGED pending,
             pending.code = "none", op.fresh,
             UNCHANGED <<job, foreign, ret, step, cancelled, token, ses, dev, chip>>
      PROVE  EepromInv'
  <2>1. /\ op' = Complete(op) /\ pc' = "done" /\ executing' = FALSE
    BY <1>m, EepromVocabulary DEF EE!Terminate
  <2>2. /\ op' \in Outcomes /\ ~op'.critical /\ op'.physical = op.physical /\ op'.fresh = op.fresh
        /\ op'.status = "succeeded" /\ op'.disp = 1
    <3>1. op.status = "running" /\ ~op.critical /\ op.phase \in {12, 13}
      BY <1>m, <1>i
    <3> QED BY <2>1, <3>1, <1>o, Completed DEF opCompleted
  <2>3. pending' \in Pendings /\ Clean /\ ~Doubt
    BY <1>m, <1>o DEF Doubt
  <2> QED BY <1>m, <2>1, <2>2, <2>3, <1>t
<1>15. CASE EE!Finish
  <2>1. /\ pc = "finish"
        /\ UNCHANGED <<job, foreign, ret, step, cancelled, token, ses, dev, chip>>
    BY <1>15 DEF EE!Finish
  <2>2. \/ pending.code # "none" /\ EE!TerminateFailed(pending)
        \/ /\ pending.code = "none" /\ cancelled /\ UNCHANGED pending
           /\ EE!Terminate(EE!Cancel(op, 1))
        \/ /\ pending.code = "none" /\ ~cancelled /\ UNCHANGED <<pending, executing>>
           /\ op' = AdvanceTo(op, 13) /\ pc' = "commit"
        \/ /\ pending.code = "none" /\ ~cancelled /\ UNCHANGED pending
           /\ EE!Terminate(EE!Complete(op))
    BY <1>15, EepromVocabulary DEF EE!Finish
  <2>3. CASE pending.code # "none" /\ EE!TerminateFailed(pending)
    <3>1. pending' = pending
      BY <2>3 DEF EE!TerminateFailed
    <3> QED BY <2>1, <2>3, <3>1, <1>k, <1>o DEF Doubt
  <2>4. CASE /\ pending.code = "none" /\ cancelled /\ UNCHANGED pending
             /\ EE!Terminate(EE!Cancel(op, 1))
    <3>1. op' = Cancel(op, 1) /\ pc' = "done" /\ executing' = FALSE
      BY <2>4, EepromVocabulary DEF EE!Terminate
    <3>2. /\ op' \in Outcomes /\ ~op'.critical /\ op'.physical = op.physical /\ op'.fresh = op.fresh
          /\ op'.status = "cancelled" /\ op'.disp = 1
      BY <2>1, <3>1, <1>i, <1>o, <1>d, Cancelled
    <3> QED BY <2>1, <2>4, <3>1, <3>2, <1>t, <1>o DEF Doubt
  <2>5. CASE /\ pending.code = "none" /\ ~cancelled /\ UNCHANGED <<pending, executing>>
             /\ op' = AdvanceTo(op, 13) /\ pc' = "commit"
    <3>1. /\ op' \in Outcomes /\ op'.status = "running" /\ op'.phase = 13 /\ ~op'.critical
          /\ op'.physical = op.physical /\ op'.fresh = op.fresh
      BY <2>1, <2>5, <1>i, <1>o, <1>p, Advanced
    <3>2. op.fresh
      BY <2>1, <2>5, <1>i
    <3>3. EepromCore'
      BY <2>1, <2>5, <3>1, <3>2, <1>i, <1>o, <1>s
    <3>4. EepromRest'
      BY <2>1, <2>5, <3>1, <1>i, RestQuiet DEF EE!Disarms, Doubt
    <3>5. EepromContent'
      BY <2>1, <2>5, <3>1, <1>i, ContentQuiet
    <3> QED BY <3>3, <3>4, <3>5, <1>q
  <2>6. CASE /\ pending.code = "none" /\ ~cancelled /\ UNCHANGED pending
             /\ EE!Terminate(EE!Complete(op))
    <3>1. op.fresh
      BY <2>1, <2>6, <1>i
    <3> QED BY <2>1, <2>6, <3>1, <1>m
  <2> QED BY <2>2, <2>3, <2>4, <2>5, <2>6
<1>16. CASE EE!CommitEvidence
  <2>1. /\ pc = "commit" /\ pending.code = "none" /\ op.fresh
        /\ UNCHANGED <<job, foreign, ret, step, cancelled, token, ses, dev, chip>>
    BY <1>16, <1>i DEF EE!CommitEvidence
  <2>2. CASE EE!Terminate(EE!Complete(op)) /\ UNCHANGED pending
    BY <2>1, <2>2, <1>m
  <2>3. CASE EE!TerminateFailed(EE!SetPending(pending, "evidenceFailed", 1))
    <3>1. pending' = EE!SetPending(pending, "evidenceFailed", 1)
      BY <2>3 DEF EE!TerminateFailed
    <3>2. pending' \in Pendings /\ ~Clean' /\ (Doubt => Doubt')
      BY <3>1, <1>o, <1>d, FaultNames, SettingGrows
    <3> QED BY <2>1, <2>3, <3>1, <3>2, <1>k
  <2>4. CASE EE!Unwind /\ UNCHANGED <<op, executing>>
    <3>1. pc' = "unwind" /\ UNCHANGED <<op, executing, pending>>
      BY <2>4 DEF EE!Unwind
    <3>2. EepromCore'
      BY <2>1, <3>1, <1>i, <1>o, <1>s
    <3>3. EepromRest'
      BY <2>1, <3>1, <1>i, RestQuiet DEF EE!Disarms, Doubt
    <3>4. EepromContent'
      BY <2>1, <3>1, <1>i, ContentQuiet
    <3> QED BY <3>2, <3>3, <3>4, <1>q
  <2> QED BY <1>16, <2>2, <2>3, <2>4 DEF EE!CommitEvidence
<1>17. CASE EE!ExceptClause
  <2>1. /\ pc = "except"
        /\ UNCHANGED <<job, foreign, ret, step, cancelled, token, ses, dev, chip>>
        /\ EE!TerminateFailed(IF pending.code = "none"
                              THEN EE!SetPending(pending, "transport", 4) ELSE pending)
    BY <1>17 DEF EE!ExceptClause
  <2>2. pending' = IF pending.code = "none"
                   THEN EE!SetPending(pending, "transport", 4) ELSE pending
    BY <2>1 DEF EE!TerminateFailed
  <2>3. CASE pending.code = "none"
    <3>1. pending' \in Pendings /\ ~Clean' /\ (Doubt => Doubt')
      BY <2>2, <2>3, <1>o, <1>d, FaultNames, SettingGrows
    <3> QED BY <2>1, <2>2, <3>1, <1>k
  <2>4. CASE pending.code # "none"
    <3>1. pending' = pending
      BY <2>2, <2>4
    <3> QED BY <2>1, <2>2, <2>4, <3>1, <1>k, <1>o DEF Doubt
  <2> QED BY <2>3, <2>4
<1>18. CASE EE!ChipSettles
  <2>1. /\ ~EE!Idle /\ chip.busy \in job.changed
        /\ UNCHANGED <<job, executing, foreign, pc, ret, op, pending, step, cancelled, token,
                       ses, dev>>
    BY <1>18, <1>i DEF EE!ChipSettles, EepromContent, EE!Idle
  <2>2. PICK cell \in {"new", "torn"} :
           chip' = [mem |-> [chip.mem EXCEPT ![chip.busy] = cell], busy |-> 0,
                    armed |-> chip.armed /\ job.bus = "mw"]
    BY <1>18 DEF EE!ChipSettles
  <2>3. /\ chip'.mem = [chip.mem EXCEPT ![chip.busy] = cell] /\ chip'.busy = 0
        /\ chip'.armed <=> (chip.armed /\ job.bus = "mw")
    BY <2>2, Zenon
  <2>4. chip' \in [mem : [Pages -> EE!Cell], busy : Pages \cup {0}, armed : BOOLEAN]
    <3>1. [chip.mem EXCEPT ![chip.busy] = cell] \in [Pages -> EE!Cell]
      BY <1>i DEF EE!Cell
    <3>2. (chip.armed /\ job.bus = "mw") \in BOOLEAN
      OBVIOUS
    <3> HIDE DEF EE!TypeOK
    <3> QED BY <2>2, <3>1, <3>2, Zenon
  <2>5. EepromCore'
    BY <2>1, <2>4, <1>i, <1>o, <1>s
  <2>6. EepromRest'
    <3>1. (chip.armed => Doubt \/ (ses.inited /\ EE!Disarms))'
      BY <2>1, <2>3, <1>i DEF EepromRest, EE!Disarms, Doubt
    <3>2. EE!Idle'
      BY <2>3 DEF EE!Idle
    <3>3. ~(IsTerminal(op) /\ op.disp = 1)
      BY <2>1, <1>i, EepromVocabulary DEF EepromRest, EE!SafeMeansDisarmed
    <3> QED BY <2>1, <3>1, <3>2, <3>3, EepromVocabulary DEF EepromRest, EE!SafeMeansDisarmed
  <2>7. EepromContent'
    <3>1. pc = "settle" \/ pc \notin First \cup {"reloop", "reverify"}
      BY <2>1, <1>i DEF EepromRest, Doubt
    <3>2. ASSUME NEW p \in Pages, p # chip.busy PROVE chip'.mem[p] = chip.mem[p]
      BY <2>3, <3>2, <1>i
    <3>3. (~dev.first => \A p \in Pages : chip.mem[p] = "old" \/ p \in job.changed)'
      BY <2>1, <3>2, <1>i DEF EepromContent
    <3>4. ~op'.fresh
      BY <2>1, <1>i DEF EepromContent
    <3>5. CASE pc = "settle"
      <4>1. chip.busy = EE!Current.page /\ step \in 1 .. Len(EE!Steps)
        BY <2>1, <3>5, <1>i, StepsShape DEF EepromContent, EE!Idle
      <4>2. \A p \in Pages : chip'.mem[p] = "old" \/ \E i \in 1 .. step : EE!Steps[i].page = p
        BY <2>1, <3>2, <3>5, <4>1, <1>i DEF EepromContent, StepReached, EE!Current
      <4>3. (\A p \in Pages : chip.mem[p] = "old" \/ \E i \in 1 .. step : EE!Steps[i].page = p)'
        BY <2>1, <4>2, <1>s
      <4>4. (step <= Len(EE!Steps) /\ EE!Current.kind = "write")'
        BY <2>1, <3>5, <1>i, <1>s DEF EepromContent, EE!Current
      <4> QED BY <2>1, <2>3, <3>3, <3>4, <3>5, <4>3, <4>4 DEF EepromContent, StepReached
    <3>6. CASE pc \notin First \cup {"reloop", "reverify"}
      BY <2>1, <2>3, <3>3, <3>4, <3>6 DEF EepromContent
    <3> QED BY <3>1, <3>5, <3>6
  <2> QED BY <2>5, <2>6, <2>7, <1>q
<1>19. CASE EE!RequestCancellation
  <2>1. /\ token' = TRUE
        /\ UNCHANGED <<job, executing, foreign, pc, ret, op, pending, step, cancelled, ses, dev,
                       chip>>
    BY <1>19 DEF EE!RequestCancellation
  <2>2. EepromCore'
    BY <2>1, <1>i, <1>o, <1>s
  <2>3. EepromRest'
    BY <2>1, <1>i, EepromVocabulary DEF EepromRest, EE!Idle, EE!Disarms, Doubt, EE!SafeMeansDisarmed
  <2>4. EepromContent'
    BY <2>1, <1>i, <1>s
       DEF EepromContent, StepReached, EE!Current, EE!Idle, EE!Holds, EE!Wanted
  <2> QED BY <2>2, <2>3, <2>4, <1>q
<1> QED
  <2> HIDE DEF EepromCore
  <2> QED BY <1>1, <1>2, <1>3, <1>4, <1>5, <1>6, <1>7, <1>8, <1>9, <1>10, <1>11, <1>12, <1>13,
             <1>14, <1>15, <1>16, <1>17, <1>18, <1>19 DEF EE!Next

LEMMA EepromStutter == EepromInv /\ UNCHANGED EE!vars => EepromInv'
<1> SUFFICES ASSUME EepromInv, UNCHANGED EE!vars PROVE EepromInv'
  OBVIOUS
<1> USE DEF EE!vars
<1>1. EE!Steps' = EE!Steps
  BY DEF EE!Steps
<1>2. EE!TypeOK' /\ (pc \in EepromPc)'
  BY <1>1 DEF EepromInv, EE!TypeOK
<1>3. EepromOperation' /\ EepromSession' /\ EepromPending'
  BY DEF EepromInv, EepromOperation, EepromSession, EepromPending, Cleaning, Clean
<1>4. EepromRest'
  BY DEF EepromInv, EepromRest, EE!Idle, EE!Disarms, Doubt, Clean, EE!SafeMeansDisarmed
<1>5. EepromContent'
  BY <1>1 DEF EepromInv, EepromContent, StepReached, EE!Current, EE!Idle, EE!Holds, EE!Wanted
<1> QED BY <1>2, <1>3, <1>4, <1>5 DEF EepromInv

LEMMA SuiteEepromInvariant == Spec => []SuiteEeprom
<1>1. Init => SuiteEeprom
  BY EepromInit DEF Init, SuiteEeprom
<1>2. SuiteEeprom /\ [Next]_vars => SuiteEeprom'
  BY EepromStep, EepromStutter DEF Next, SuiteEeprom, vars, EE!vars
<1> QED BY <1>1, <1>2, PTL DEF Spec

(* An EEPROM reported safe is at rest and write-disabled; a success has put  *)
(* the patch into its pages, changed no other and been seen by two sessions; *)
(* whichever call failed or raised, everything is given back; and a page is  *)
(* written only over the snapshot (TEEPROMPlanExecutor.Execute).            *)
THEOREM EEPROMAlwaysKeepsPromises == Spec => []EEPROMPromises
<1>1. EepromInv => EE!TypeOK /\ EE!SafeMeansDisarmed
  BY DEF EepromInv, EepromRest
<1>2. EepromInv => EE!SuccessMeansWritten
  <2> SUFFICES ASSUME EepromInv, op.status = "succeeded"
               PROVE  chip.mem = [p \in Pages |-> EE!Wanted(p)] /\ op.physical /\ op.fresh /\ EE!Idle
    BY DEF EE!SuccessMeansWritten
  <2>1. op.fresh /\ op.physical /\ EE!Idle /\ EE!Holds /\ ~dev.first
    BY DEF EepromInv, EepromOperation, EepromPending, EepromContent
  <2>2. \A p \in Pages : chip.mem[p] = EE!Wanted(p)
    BY <2>1, EepromConstants DEF EepromInv, EepromContent, EE!Holds, EE!Wanted, EE!TypeOK
  <2>3. chip.mem = [p \in Pages |-> chip.mem[p]]
    BY DEF EepromInv, EE!TypeOK
  <2> QED BY <2>1, <2>2, <2>3
<1>3. EepromInv => EE!EverythingReleased
  BY EepromVocabulary
     DEF EepromInv, EepromSession, EepromOperation, EE!EverythingReleased, IsTerminal
<1>4. EepromInv => EE!WritesOverTheSnapshot
  BY DEF EepromInv, EepromContent, EE!WritesOverTheSnapshot, StepReached
<1>5. SuiteEeprom => EEPROMPromises
  BY <1>1, <1>2, <1>3, <1>4 DEF SuiteEeprom, EEPROMPromises
<1> QED BY <1>5, SuiteEepromInvariant, PTL

-----------------------------------------------------------------------------
(* The transaction of DeviceTransaction, seen in the run.                   *)
EepromSeen == EE!SeenOutcome
LEMMA EepromOutcome ==
    EepromInv => /\ pc # "done" => EepromSeen = "running"
                 /\ pc = "done" => /\ EepromSeen \in T!Outcome \ {"running"}
                                   /\ EepromSeen \in T!Promises => EE!Idle
                                   /\ EepromSeen = "succeeded" => EE!Holds
<1> SUFFICES ASSUME EepromInv
             PROVE  /\ pc # "done" => EepromSeen = "running"
                    /\ pc = "done" => /\ EepromSeen \in T!Outcome \ {"running"}
                                      /\ EepromSeen \in T!Promises => EE!Idle
                                      /\ EepromSeen = "succeeded" => EE!Holds
  OBVIOUS
<1>1. EepromSeen = IF ~IsTerminal(op) THEN "running"
                   ELSE IF op.status # "failed" THEN op.status
                   ELSE IF op.disp = 1 THEN "failedSafe" ELSE "failedUnknown"
  BY EepromVocabulary DEF EepromSeen, EE!SeenOutcome, EE!ddKnownSafe
<1>2. ASSUME pc # "done" PROVE ~IsTerminal(op)
  BY <1>2, NewIsBlank DEF EepromInv, EepromOperation, EepromPc, IsTerminal, Terminal
<1>3. ASSUME pc = "done" PROVE op.status \in {"succeeded", "failed", "cancelled"}
  BY <1>3 DEF EepromInv, EepromOperation, Terminal
<1>4. IsTerminal(op) /\ op.disp = 1 => EE!Idle
  BY EepromVocabulary
     DEF EepromInv, EepromRest, EE!SafeMeansDisarmed, EE!ddKnownSafe
<1>5. op.status \in {"succeeded", "cancelled"} => op.disp = 1
  BY DEF EepromInv, EepromOperation, ddKnownSafe
<1>6. op.status = "succeeded" => EE!Holds
  BY DEF EepromInv, EepromOperation, EepromContent
<1> QED BY <1>1, <1>2, <1>3, <1>4, <1>5, <1>6
        DEF T!Outcome, T!Promises, IsTerminal, Terminal

(* Only a write and the part itself make more than a quiet step.            *)
LEMMA EepromQuiet ==
    ASSUME EepromInv, EE!Next, ~EE!ChipSettles
    PROVE  /\ job' = job /\ pc # "done" /\ chip'.mem = chip.mem
           /\ \/ chip'.busy = chip.busy
              \/ EE!Idle /\ ~EE!Idle' /\ pc' # "done"
<1>0. /\ chip \in [mem : [Pages -> EE!Cell], busy : Pages \cup {0}, armed : BOOLEAN]
      /\ ret # "done"
  BY DEF EepromInv, EE!TypeOK, EepromSession
<1>1. CASE EE!WritePage
  <2>1. job' = job /\ pc = "write" /\ pc' # "done"
    BY <1>1 DEF EE!WritePage, EE!given, EE!WriteFailed, EE!Fails
  <2>2. EE!Idle
    BY <2>1 DEF EepromInv, EepromRest, EepromPending, First, Clean, Doubt
  <2>3. chip' \in {chip, EE!Armed(chip), EE!Works(chip)}
    BY <1>1 DEF EE!WritePage
  <2>4. EE!Armed(chip).mem = chip.mem /\ EE!Armed(chip).busy = chip.busy
    BY <1>0 DEF EE!Armed
  <2>5. EE!Works(chip).mem = chip.mem /\ EE!Works(chip).busy = EE!Current.page
    BY <1>0 DEF EE!Works, EE!Armed
  <2> QED BY <2>1, <2>2, <2>3, <2>4, <2>5 DEF EE!Idle
<1>2. ASSUME EE!EndBus PROVE chip'.mem = chip.mem /\ chip'.busy = chip.busy
  BY <1>0, <1>2 DEF EE!EndBus, EE!Disarmed
<1>3. CASE EE!Deinitialize
  BY <1>2, <1>3 DEF EE!Deinitialize, EE!given
<1>4. CASE EE!Close
  BY <1>2, <1>4 DEF EE!Close, EE!given
<1>5. ASSUME NEW at \in {"open", "reopen"}, NEW next, EE!Open(at, next)
      PROVE  job' = job /\ pc # "done" /\ chip' = chip
  BY <1>5 DEF EE!Open, EE!given
<1>6. ASSUME NEW at \in {"initialize", "reinitialize"}, NEW next, EE!Initialize(at, next)
      PROVE  job' = job /\ pc # "done" /\ chip' = chip
  BY <1>6 DEF EE!Initialize, EE!given
<1>7. ASSUME NEW at \in {"verify", "reverify"}, NEW next, EE!ReadPage(at, next)
      PROVE  job' = job /\ pc # "done" /\ chip' = chip
  BY <1>7 DEF EE!ReadPage, EE!given
<1>8. CASE EE!Begin \/ EE!NextStep \/ EE!WaitReady \/ EE!PhysicallyVerified \/ EE!FreshSession
  BY <1>8 DEF EE!Begin, EE!NextStep, EE!WaitReady, EE!PhysicallyVerified, EE!FreshSession, EE!given
<1>9. CASE EE!FreshLoop \/ EE!Quiesce \/ EE!Finish \/ EE!CommitEvidence \/ EE!Finally
           \/ EE!ExceptClause \/ EE!RequestCancellation
  BY <1>9 DEF EE!FreshLoop, EE!Quiesce, EE!Finish, EE!CommitEvidence, EE!Finally,
              EE!ExceptClause, EE!RequestCancellation, EE!given
<1> QED BY <1>1, <1>3, <1>4, <1>5, <1>6, <1>7, <1>8, <1>9 DEF EE!Next

LEMMA EepromTransaction ==
    ASSUME subject = "eeprom", subject' = "eeprom", EepromInv, EepromInv', EE!Next
    PROVE  T!TNext \/ UNCHANGED <<chip.mem, EE!Holds, ~EE!Idle, EE!SeenOutcome>>
<1>t. /\ T!Command <=> /\ EE!SeenOutcome = "running" /\ EE!Idle /\ ~EE!Idle'
                       /\ UNCHANGED <<chip.mem, EE!Holds, EE!SeenOutcome>>
      /\ T!Settle <=> /\ ~EE!Idle /\ EE!Idle' /\ chip'.mem \in [Pages -> EE!Cell]
                      /\ EE!Holds' \in BOOLEAN /\ EE!SeenOutcome' = EE!SeenOutcome
      /\ T!End <=> /\ EE!SeenOutcome = "running"
                   /\ EE!SeenOutcome' \in T!Outcome \ {"running"}
                   /\ EE!SeenOutcome' \in T!Promises => EE!Idle
                   /\ EE!SeenOutcome' = "succeeded" => EE!Holds
                   /\ UNCHANGED <<chip.mem, EE!Holds, ~EE!Idle>>
  BY DEF T!Command, T!Settle, T!End, Eeprom
<1>o. (EepromInv => /\ pc # "done" => EepromSeen = "running"
                    /\ pc = "done" => /\ EepromSeen \in T!Outcome \ {"running"}
                                      /\ EepromSeen \in T!Promises => EE!Idle
                                      /\ EepromSeen = "succeeded" => EE!Holds)'
  BY EepromOutcome, PTL
<1>p. pc' # "done" => EE!SeenOutcome' = "running"
  BY <1>o DEF EepromSeen
<1>d. pc' = "done" => /\ EE!SeenOutcome' \in T!Outcome \ {"running"}
                      /\ EE!SeenOutcome' \in T!Promises => EE!Idle'
                      /\ EE!SeenOutcome' = "succeeded" => EE!Holds'
  BY <1>o DEF EepromSeen
<1>1. CASE EE!ChipSettles
  <2>1. /\ ~EE!Idle /\ EE!Idle' /\ op' = op
    BY <1>1 DEF EE!ChipSettles, EE!Idle
  <2>2. chip'.mem \in [Pages -> EE!Cell] /\ EE!Holds' \in BOOLEAN
    BY DEF EepromInv, EE!TypeOK, EE!Holds
  <2>3. EE!SeenOutcome' = EE!SeenOutcome
    BY <2>1 DEF EE!SeenOutcome, EE!IsTerminal
  <2> QED BY <2>1, <2>2, <2>3, <1>t DEF T!TNext
<1>2. CASE ~EE!ChipSettles
  <2>1. /\ job' = job /\ pc # "done" /\ chip'.mem = chip.mem
        /\ \/ chip'.busy = chip.busy
           \/ EE!Idle /\ ~EE!Idle' /\ pc' # "done"
    BY <1>2, EepromQuiet
  <2>2. EE!SeenOutcome = "running"
    BY <2>1, EepromOutcome DEF EepromSeen
  <2>3. EE!Holds' = EE!Holds
    BY <2>1 DEF EE!Holds, EE!Wanted
  <2>4. CASE EE!Idle /\ ~EE!Idle' /\ pc' # "done"
    BY <2>1, <2>2, <2>3, <2>4, <1>t, <1>p DEF T!TNext
  <2>5. CASE chip'.busy = chip.busy
    <3>1. (~EE!Idle)' = ~EE!Idle /\ (EE!Idle' <=> EE!Idle)
      BY <2>5 DEF EE!Idle
    <3>2. CASE pc' # "done"
      BY <2>1, <2>2, <2>3, <3>1, <3>2, <1>p
    <3>3. CASE pc' = "done"
      BY <2>1, <2>2, <2>3, <3>1, <3>3, <1>d, <1>t DEF T!TNext
    <3> QED BY <3>2, <3>3
  <2> QED BY <2>1, <2>4, <2>5
<1> QED BY <1>1, <1>2

LEMMA SuiteTransaction ==
    ASSUME SuiteEeprom, SuiteEeprom', [Next]_vars
    PROVE  [T!TNext]_<<Eeprom(chip.mem, [p \in Pages |-> "old"]), Eeprom(EE!Holds, TRUE),
                       Eeprom(~EE!Idle, FALSE), Eeprom(EE!SeenOutcome, "running")>>
<1>1. CASE subject # "eeprom" /\ subject' = subject
  BY <1>1 DEF Eeprom
<1>2. CASE UNCHANGED vars
  <2>1. UNCHANGED <<subject, chip, job, op>>
    BY <1>2 DEF vars
  <2> QED BY <2>1 DEF Eeprom, EE!Holds, EE!Wanted, EE!Idle, EE!SeenOutcome, EE!IsTerminal
<1>3. CASE subject = "eeprom" /\ subject' = subject /\ EE!Next
  <2>1. EepromInv /\ EepromInv'
    BY <1>3 DEF SuiteEeprom
  <2>2. T!TNext \/ UNCHANGED <<chip.mem, EE!Holds, ~EE!Idle, EE!SeenOutcome>>
    BY <1>3, <2>1, EepromTransaction
  <2> QED BY <1>3, <2>2 DEF Eeprom
<1> QED BY <1>1, <1>2, <1>3 DEF Next

(* The run of an EEPROM plan implements the transaction its callers see: no  *)
(* outcome promises more than the part bears out, and commands go out only  *)
(* from a running transaction and only to an idle part.                     *)
THEOREM EEPROMImplementsTransaction == Spec => IsTransaction
<1>1. Init => T!TInit
  <2> SUFFICES ASSUME Init PROVE T!TInit
    OBVIOUS
  <2>1. CASE subject = "eeprom" /\ EE!Init
    <3>1. EepromInv /\ pc # "done"
      BY <2>1, EepromInit DEF EE!Init
    <3>2. EE!SeenOutcome = "running"
      BY <3>1, EepromOutcome DEF EepromSeen
    <3>3. chip.mem \in [Pages -> EE!Cell]
      BY <3>1 DEF EepromInv, EE!TypeOK
    <3> QED BY <2>1, <3>2, <3>3 DEF T!TInit, Eeprom, EE!Holds, EE!Idle
  <2>2. CASE subject # "eeprom"
    BY <2>2 DEF T!TInit, Eeprom, EE!Cell
  <2> QED BY <2>1, <2>2 DEF Init
<1>2. SuiteEeprom /\ SuiteEeprom' /\ [Next]_vars =>
        [T!TNext]_<<Eeprom(chip.mem, [p \in Pages |-> "old"]), Eeprom(EE!Holds, TRUE),
                    Eeprom(~EE!Idle, FALSE), Eeprom(EE!SeenOutcome, "running")>>
  BY SuiteTransaction
<1> QED BY <1>1, <1>2, SuiteEepromInvariant, PTL DEF Spec, IsTransaction, T!TSpec

-----------------------------------------------------------------------------
(***************************************************************************)
(* The session record.  NothingIsStale is not inductive: facts are revoked  *)
(* from the top, so a chip rests on a rail and a rail on an open            *)
(* programmer, and what a fact says of the bench has to be kept with it.    *)
(***************************************************************************)
SessionInv ==
    /\ SS!TypeOK
    /\ SS!NothingIsStale
    /\ "rail" \in facts => "open" \in facts
    /\ "chip" \in facts => "rail" \in facts /\ bench.chip # None
    /\ "image" \in facts => bench.image # None

LEMMA SessionConstants == None \notin Identities \cup ImageFiles /\ Rails # {}
BY SessionAssumptions DEF SS!SessionAssumption

LEMMA SessionInit == SS!Init => SessionInv
BY SessionConstants
   DEF SS!Init, SessionInv, SS!TypeOK, SS!NothingIsStale, SS!Facts, SS!Bench, SS!Judged,
       SS!MayStart, SS!MayArm, SS!RequiredFacts

(* Every event, refused or not, preserves the invariant.                    *)
LEMMA SessionStep ==
    ASSUME SessionInv, SS!Next
    PROVE  SessionInv'
<1> USE SessionConstants
<1> USE DEF SessionInv, SS!TypeOK, SS!NothingIsStale, SS!Facts, SS!Bench, SS!Judged,
            SS!MayStart, SS!MayArm, SS!RequiredFacts,
            SS!Invalidate, SS!Establish, SS!Refused, SS!DependentsOf
<1>1. CASE SS!ProgrammerOpened
  BY <1>1 DEF SS!ProgrammerOpened
<1>2. CASE SS!ProgrammerClosed
  BY <1>2 DEF SS!ProgrammerClosed
<1>3. CASE SS!RailConfigured
  BY <1>3 DEF SS!RailConfigured
<1>4. CASE SS!RailChanged
  BY <1>4 DEF SS!RailChanged, SS!RailMoved
<1>5. CASE SS!ChipDetected
  BY <1>5 DEF SS!ChipDetected
<1>6. CASE SS!ChipLost
  BY <1>6 DEF SS!ChipLost
<1>7. CASE SS!ChipSwapped
  BY <1>7 DEF SS!ChipSwapped
<1>8. CASE SS!ImageLoaded
  BY <1>8 DEF SS!ImageLoaded
<1>9. CASE SS!ImageCleared
  BY <1>9 DEF SS!ImageCleared
<1>10. CASE SS!PreflightPassed
  <2>1. CASE "chip" \in facts
    <3>1. /\ facts' = facts \cup {"preflight"}
          /\ judged' = [bench |-> bench, swapped |-> FALSE]
          /\ UNCHANGED <<bench, answered, activity>>
      BY <1>10, <2>1 DEF SS!PreflightPassed
    <3>2. /\ judged' \in SS!Judged /\ judged'.bench = bench'
          /\ bench'.chip # None
      BY <2>1, <3>1
    <3> QED BY <2>1, <3>1, <3>2
  <2>2. CASE "chip" \notin facts
    BY <1>10, <2>2 DEF SS!PreflightPassed
  <2> QED BY <2>1, <2>2
<1>11. CASE SS!PreflightFailed
  BY <1>11 DEF SS!PreflightFailed
<1>12. CASE SS!Armed
  BY <1>12 DEF SS!Armed
<1>13. CASE SS!Disarmed
  BY <1>13 DEF SS!Disarmed
<1>14. CASE SS!WriteStarted
  BY <1>14 DEF SS!WriteStarted
<1>15. CASE SS!VerifyStarted
  BY <1>15 DEF SS!VerifyStarted
<1>16. CASE SS!OperationSucceeded
  BY <1>16 DEF SS!OperationSucceeded, SS!RunEnds
<1>17. CASE SS!OperationFailed
  BY <1>17 DEF SS!OperationFailed, SS!RunEnds
<1> QED BY <1>1, <1>2, <1>3, <1>4, <1>5, <1>6, <1>7, <1>8, <1>9, <1>10, <1>11, <1>12,
           <1>13, <1>14, <1>15, <1>16, <1>17 DEF SS!Next

LEMMA SessionStutter == SessionInv /\ UNCHANGED SS!vars => SessionInv'
BY DEF SessionInv, SS!TypeOK, SS!NothingIsStale, SS!MayStart, SS!MayArm, SS!vars

SuiteSession == subject = "session" => SessionInv

LEMMA SuiteSessionInvariant == Spec => []SuiteSession
<1>1. Init => SuiteSession
  BY SessionInit DEF Init, SuiteSession
<1>2. SuiteSession /\ [Next]_vars => SuiteSession'
  BY SessionStep, SessionStutter DEF Next, SuiteSession, vars, SS!vars
<1> QED BY <1>1, <1>2, PTL DEF Spec

(* No fact of the session outlives the loss of its premise, whatever is       *)
(* reported and in whatever order; preflight and arming do outlive the part   *)
(* they were made for when another answers with no loss reported              *)
(* (TProgrammingSession.Apply).                                             *)
THEOREM NothingIsEverStale == Spec => []NothingIsStale
<1>1. SuiteSession => NothingIsStale
  BY DEF SuiteSession, SessionInv, NothingIsStale
<1> QED BY <1>1, SuiteSessionInvariant, PTL

-----------------------------------------------------------------------------
(***************************************************************************)
(* The life cycle of the adapter.  PaidOnce needs to know which cleanup      *)
(* calls can have been made by each point of StopBus and Close; LeftAsFound, *)
(* that whatever the part may still be in has its flag up, or its cleanup   *)
(* call ahead, or has been reported as failed.                              *)
(***************************************************************************)
Starting == {"identity", "enterWren", "enter", "ready"}
Stopping == {"exitWren", "exit", "disable", "deinit"}

AdapterObligations ==
    /\ has.bus <=> "SPIDeinit" \in owed
    /\ has.opened <=> "DevClose" \in owed
    /\ has.bus => has.opened
    /\ pc \in Starting \cup Stopping \cup {"stop"} => has.bus
    /\ pc \in {"close", "gone"} => ~has.bus
    /\ pc = "gone" => ~has.opened

AdapterFlags ==
    /\ ~has.bus => ~has.inited /\ ~has.four /\ ~has.wel
    /\ has.inited => has.gate
    /\ pc \in Starting \ {"identity"} => has.gate
    /\ pc \in Starting \cup Stopping => ~has.inited
    /\ pc \in Stopping => ~has.four
    /\ pc = "deinit" => ~has.wel

AdapterSent ==
    /\ ~twice
    /\ has.bus => sent \subseteq IF pc = "deinit" THEN {"E9", "WRDI"}
                                 ELSE IF pc = "disable" THEN {"E9"} ELSE {}
    /\ has.opened => "DevClose" \notin sent

AdapterPart ==
    left.ok /\ left.idle =>
        /\ bad => pc \in {"disable", "deinit"}
        /\ part.busy => has.bus /\ pc \in {"idle", "stop"}
        /\ part.four => has.four \/ pc \in {"exitWren", "exit"} \/ bad
        /\ part.wel => has.wel \/ part.busy \/ bad
        /\ pc = "exit" /\ strategy = "wrenB7" => part.wel

AdapterInv ==
    /\ AD!TypeOK
    /\ pc \in Starting \cup Stopping \cup {"idle", "stop", "close", "gone"}
    /\ AdapterObligations /\ AdapterFlags /\ AdapterSent /\ AdapterPart

LEMMA AdapterConstants == Strategies \subseteq AD!Strategy
BY SessionAssumptions DEF AD!AdapterAssumption

Flag  == {"opened", "bus", "inited", "gate", "four", "wel"}
Flags == [opened : BOOLEAN, bus : BOOLEAN, inited : BOOLEAN, gate : BOOLEAN,
          four : BOOLEAN, wel : BOOLEAN]
Parts == [four : BOOLEAN, wel : BOOLEAN, busy : BOOLEAN]

(* A flag that is set, the others being left as they were.                  *)
FlagBecomes(f, value) ==
    /\ has' \in Flags
    /\ has'.opened <=> IF f = "opened" THEN value ELSE has.opened
    /\ has'.bus <=> IF f = "bus" THEN value ELSE has.bus
    /\ has'.inited <=> IF f = "inited" THEN value ELSE has.inited
    /\ has'.gate <=> IF f = "gate" THEN value ELSE has.gate
    /\ has'.four <=> IF f = "four" THEN value ELSE has.four
    /\ has'.wel <=> IF f = "wel" THEN value ELSE has.wel

LEMMA FlagSet ==
    ASSUME NEW f \in Flag, NEW value \in BOOLEAN, has \in Flags,
           has' = [has EXCEPT ![f] = value]
    PROVE  FlagBecomes(f, value)
<1> USE DEF Flags, FlagBecomes
<1>1. CASE f = "opened"
  <2>1. has' = [has EXCEPT !.opened = value]
    BY <1>1
  <2> QED BY <2>1, <1>1
<1>2. CASE f = "bus"
  <2>1. has' = [has EXCEPT !.bus = value]
    BY <1>2
  <2> QED BY <2>1, <1>2
<1>3. CASE f = "inited"
  <2>1. has' = [has EXCEPT !.inited = value]
    BY <1>3
  <2> QED BY <2>1, <1>3
<1>4. CASE f = "gate"
  <2>1. has' = [has EXCEPT !.gate = value]
    BY <1>4
  <2> QED BY <2>1, <1>4
<1>5. CASE f = "four"
  <2>1. has' = [has EXCEPT !.four = value]
    BY <1>5
  <2> QED BY <2>1, <1>5
<1>6. CASE f = "wel"
  <2>1. has' = [has EXCEPT !.wel = value]
    BY <1>6
  <2> QED BY <2>1, <1>6
<1> QED BY <1>1, <1>2, <1>3, <1>4, <1>5, <1>6 DEF Flag

(* What an opcode leaves of a part: its mode and latch are what the opcode  *)
(* says, and a busy part is left alone.                                     *)
PartBecomes(p, opcode) ==
    /\ p \in Parts
    /\ p.busy <=> part.busy
    /\ part.busy => p = part
    /\ opcode = "WREN" => (p.four <=> part.four) /\ (p.wel \/ part.busy)
    /\ opcode = "WRDI" => (p.four <=> part.four) /\ (p.wel => part.busy)
    /\ p.wel => opcode = "WREN" \/ part.wel
    /\ opcode = "E9" /\ p.four => part.busy \/ (strategy = "wrenB7" /\ ~part.wel)

LEMMA PartTakes ==
    ASSUME part \in Parts, NEW opcode \in {"WREN", "WRDI", "B7", "E9"},
           NEW p, p = AD!Takes(opcode)
    PROVE  PartBecomes(p, opcode)
<1> USE DEF PartBecomes
<1>1. CASE part.busy
  <2>1. p = part
    BY <1>1 DEF AD!Takes
  <2> QED BY <2>1, <1>1
<1>2. CASE ~part.busy
  <2> DEFINE moves == opcode \in {"B7", "E9"} /\ (strategy = "wrenB7" => part.wel)
             four  == IF moves THEN opcode = "B7" ELSE part.four
             wel   == \/ opcode = "WREN"
                      \/ part.wel /\ opcode # "WRDI" /\ ~(moves /\ strategy = "wrenB7")
  <2>1. four \in BOOLEAN /\ wel \in BOOLEAN
    BY DEF Parts
  <2>2. p = [four |-> four, wel |-> wel, busy |-> FALSE]
    BY <1>2 DEF AD!Takes
  <2>3. p \in Parts /\ p.four = four /\ p.wel = wel /\ ~p.busy
    <3> HIDE DEF four, wel
    <3> QED BY <2>1, <2>2 DEF Parts
  <2> QED BY <2>3, <1>2
<1> QED BY <1>1, <1>2

LEMMA AdapterInit == AD!Init => AdapterInv
<1> SUFFICES ASSUME AD!Init PROVE AdapterInv
  OBVIOUS
<1>1. has \in Flags /\ \A f \in Flag : ~has[f]
  BY DEF AD!Init, AD!Unused, Flags, Flag
<1>2. part \in Parts /\ ~part.four /\ ~part.wel /\ ~part.busy
  BY DEF AD!Init, Parts
<1>3. left \in [ok : BOOLEAN, idle : BOOLEAN]
  BY DEF AD!Init
<1> QED BY <1>1, <1>2, <1>3
        DEF AD!Init, AD!TypeOK, AdapterInv, AdapterObligations, AdapterFlags,
            AdapterSent, AdapterPart, Starting, Stopping, Flags, Flag, Parts

LEMMA AdapterSafety ==
    AdapterInv => AD!TypeOK /\ AD!LeftAsFound /\ AD!PaidOnce /\ AD!GateFirst
BY DEF AdapterInv, AdapterObligations, AdapterFlags, AdapterSent, AdapterPart,
       AD!TypeOK, AD!LeftAsFound, AD!PaidOnce, AD!GateFirst, Starting, Stopping

(* Every transfer, sent, failed or in doubt, preserves the invariant.       *)
LEMMA AdapterStep ==
    ASSUME AdapterInv, AD!Next
    PROVE  AdapterInv'
<1> USE AdapterConstants
<1> USE DEF AdapterInv, AD!TypeOK, AdapterObligations, AdapterFlags, AdapterSent, AdapterPart,
            Starting, Stopping, AD!Strategy
<1> DEFINE Flagged(f, value) == has' = [has EXCEPT ![f] = value]
<1>a. has \in Flags /\ part \in Parts
  BY DEF Flags, Parts
<1>b. ASSUME NEW f \in Flag, NEW value \in BOOLEAN, Flagged(f, value)
      PROVE  FlagBecomes(f, value)
  BY <1>a, <1>b, FlagSet
<1>c. ASSUME NEW opcode \in {"WREN", "WRDI", "B7", "E9"}, AD!Sent(opcode)
      PROVE  PartBecomes(part', opcode)
  BY <1>a, <1>c, PartTakes DEF AD!Sent
<1>d. ASSUME NEW opcode \in {"WREN", "WRDI", "B7", "E9"}, AD!Doubtful(opcode)
      PROVE  part' = part \/ PartBecomes(part', opcode)
  BY <1>a, <1>d, PartTakes DEF AD!Doubtful
<1> HIDE DEF Flagged
<1>1. CASE AD!Opening
  BY <1>1 DEF AD!Opening, AD!Unused, AD!Owes
<1>2. CASE AD!Initialize
  BY <1>2 DEF AD!Initialize, AD!Owes
<1>3. CASE AD!CheckIdentity
  <2>1. pc = "identity" /\ UNCHANGED <<strategy, call, bad, part, owed, sent, twice, left>>
    BY <1>3 DEF AD!CheckIdentity
  <2>2. \/ Flagged("gate", TRUE) /\ pc' \in {"enterWren", "enter", "ready"} /\ ~part.busy
        \/ Flagged("gate", FALSE) /\ pc' = "stop"
    BY <1>3 DEF AD!CheckIdentity, Flagged
  <2>3. \/ FlagBecomes("gate", TRUE) /\ pc' \in {"enterWren", "enter", "ready"} /\ ~part.busy
        \/ FlagBecomes("gate", FALSE) /\ pc' = "stop"
    BY <2>2, <1>b DEF Flag
  <2> QED BY <2>1, <2>3 DEF FlagBecomes, Flags
<1>4. ASSUME NEW at \in Starting \ {"identity"}, NEW opcode \in {"WREN", "B7"},
             NEW flag \in {"four", "wel"}, NEW next \in {"enter", "ready"},
             opcode = "WREN" <=> flag = "wel",
             AD!Enter(at, opcode, flag, next)
      PROVE  AdapterInv'
  <2>1. pc = at /\ UNCHANGED <<strategy, call, bad, owed, sent, twice, left>>
        /\ pc' \in {next, "stop"}
    BY <1>4 DEF AD!Enter
  <2>2. FlagBecomes(flag, TRUE)
    BY <1>4, <1>b DEF AD!Enter, AD!Own, Flagged, Flag
  <2>3. part' = part \/ PartBecomes(part', opcode)
    BY <1>4, <1>c, <1>d DEF AD!Enter
  <2> QED BY <1>4, <2>1, <2>2, <2>3 DEF FlagBecomes, Flags, PartBecomes, Parts
<1>6. CASE AD!Ready
  BY <1>6 DEF AD!Ready
<1>7. CASE AD!WriteEnable
  <2>1. pc = "idle" /\ has.inited /\ has.gate
        /\ UNCHANGED <<strategy, pc, call, bad, owed, sent, twice, left>>
    BY <1>7 DEF AD!WriteEnable
  <2>2. FlagBecomes("wel", TRUE)
    BY <1>7, <1>b DEF AD!WriteEnable, Flagged, Flag
  <2>3. part' = part \/ PartBecomes(part', "WREN")
    BY <1>7, <1>d DEF AD!WriteEnable
  <2> QED BY <2>1, <2>2, <2>3 DEF FlagBecomes, Flags, PartBecomes, Parts
<1>8. CASE AD!WriteDisable
  <2>1. pc = "idle" /\ has.inited
        /\ UNCHANGED <<strategy, pc, call, bad, owed, sent, twice, left>>
    BY <1>8 DEF AD!WriteDisable
  <2>2. \/ FlagBecomes("wel", FALSE) /\ PartBecomes(part', "WRDI")
        \/ UNCHANGED has /\ (part' = part \/ PartBecomes(part', "WRDI"))
    BY <1>8, <1>b, <1>c, <1>d DEF AD!WriteDisable, Flagged, Flag
  <2> QED BY <2>1, <2>2 DEF FlagBecomes, Flags, PartBecomes, Parts
<1>9. CASE AD!Mutate
  BY <1>9 DEF AD!Mutate
<1>10. CASE AD!Settles
  BY <1>10 DEF AD!Settles
<1>11. ASSUME NEW m \in {"deinitialize", "close", "destroy"}, AD!End(m)
       PROVE  AdapterInv'
  BY <1>11 DEF AD!End
<1>12. CASE AD!StopBus
  BY <1>12 DEF AD!StopBus, AD!ExitFirst
<1>13. CASE AD!ExitWren
  <2>1. pc = "exitWren" /\ UNCHANGED <<strategy, call, owed, sent, twice, left>>
    BY <1>13 DEF AD!ExitWren
  <2>2. FlagBecomes("wel", TRUE)
    BY <1>13, <1>b DEF AD!ExitWren, Flagged, Flag
  <2>3. \/ PartBecomes(part', "WREN") /\ pc' = "exit" /\ UNCHANGED bad
        \/ (part' = part \/ PartBecomes(part', "WREN")) /\ pc' = "disable" /\ bad' = TRUE
    BY <1>13, <1>c, <1>d DEF AD!ExitWren
  <2> QED BY <2>1, <2>2, <2>3 DEF FlagBecomes, Flags, PartBecomes, Parts
<1>14. CASE AD!Exit
  <2>1. pc = "exit" /\ pc' = "disable" /\ UNCHANGED <<strategy, has, call, owed, left>>
        /\ AD!Pays("E9")
    BY <1>14 DEF AD!Exit
  <2>2. \/ PartBecomes(part', "E9") /\ UNCHANGED bad
        \/ (part' = part \/ PartBecomes(part', "E9")) /\ bad' = TRUE
    BY <1>14, <1>c, <1>d DEF AD!Exit
  <2> QED BY <2>1, <2>2 DEF PartBecomes, Parts, AD!Pays
<1>15. CASE AD!Disable
  <2>1. pc = "disable" /\ pc' = "deinit" /\ UNCHANGED <<strategy, call, owed, left>>
    BY <1>15 DEF AD!Disable
  <2>2. CASE has.wel
    <3>1. FlagBecomes("wel", FALSE) /\ AD!Pays("WRDI")
      BY <1>15, <2>2, <1>b DEF AD!Disable, Flagged, Flag
    <3>2. \/ PartBecomes(part', "WRDI") /\ UNCHANGED bad
          \/ (part' = part \/ PartBecomes(part', "WRDI")) /\ bad' = TRUE
      BY <1>15, <2>2, <1>c, <1>d DEF AD!Disable
    <3> QED BY <2>1, <2>2, <3>1, <3>2
            DEF FlagBecomes, Flags, PartBecomes, Parts, AD!Pays
  <2>3. CASE ~has.wel
    <3>1. UNCHANGED <<has, sent, twice, part, bad>>
      BY <1>15, <2>3 DEF AD!Disable
    <3> QED BY <2>1, <2>3, <3>1
  <2> QED BY <2>2, <2>3
<1>16. CASE AD!Deinit
  BY <1>16 DEF AD!Deinit, AD!LetGo, AD!Pays
<1>17. CASE AD!Close
  BY <1>17 DEF AD!Close, AD!Pays
<1>18. CASE AD!Enter("enterWren", "WREN", "wel", "enter")
  BY <1>18, <1>4
<1>19. CASE AD!Enter("enter", "B7", "four", "ready")
  BY <1>19, <1>4
<1> QED BY <1>1, <1>2, <1>3, <1>6, <1>7, <1>8, <1>9, <1>10, <1>11, <1>12, <1>13, <1>14,
           <1>15, <1>16, <1>17, <1>18, <1>19 DEF AD!Next

LEMMA AdapterStutter == AdapterInv /\ UNCHANGED AD!vars => AdapterInv'
BY DEF AdapterInv, AD!TypeOK, AdapterObligations, AdapterFlags, AdapterSent, AdapterPart, AD!vars

SuiteAdapter == subject = "adapter" => AdapterInv

LEMMA SuiteAdapterInvariant == Spec => []SuiteAdapter
<1>1. Init => SuiteAdapter
  BY AdapterInit DEF Init, SuiteAdapter
<1>2. SuiteAdapter /\ [Next]_vars => SuiteAdapter'
  BY AdapterStep, AdapterStutter DEF Next, SuiteAdapter, vars, AD!vars
<1> QED BY <1>1, <1>2, PTL DEF Spec

(* A stopped bus leaves the part as it was found, no cleanup call is made    *)
(* twice or forgotten, and the part is changed only behind the identity      *)
(* gate, whichever transfer failed (TSPI25NORAdapter.StopBus).              *)
THEOREM AdapterAlwaysPaysOnce == Spec => []AdapterPaysOnce
<1>1. SuiteAdapter => AdapterPaysOnce
  BY AdapterSafety DEF SuiteAdapter, AdapterPaysOnce
<1> QED BY <1>1, SuiteAdapterInvariant, PTL

(***************************************************************************)
(* Smart Write and its recovery.  First: the planner of this instance is    *)
(* the planner NORPlanner_proofs is about, definition by definition.        *)
(***************************************************************************)
NP == INSTANCE NORPlanner_proofs

LEMMA SmartConstants ==
    /\ NP!ChipAssumption /\ NP!GeometryAssumption
    /\ SW!SmartAssumption /\ ChipSize \in Nat \ {0}
BY SessionAssumptions
   DEF SW!ChipAssumption, NP!ChipAssumption, SW!GeometryAssumption,
       NP!GeometryAssumption, SW!ValidGeometry, NP!ValidGeometry

LEMMA SamePieces ==
    /\ \A image, patch, a, n :
          SW!Overlay(image, patch, a, n) = NP!Overlay(image, patch, a, n)
    /\ \A a : SW!PageOf(a) = NP!PageOf(a)
    /\ \A b : SW!BlockRange(b) = NP!BlockRange(b)
    /\ \A x, y : SW!ByteNeedsErase(x, y) <=> NP!ByteNeedsErase(x, y)
    /\ \A b, a, n : SW!Touches(b, a, n) <=> NP!Touches(b, a, n)
    /\ SW!Addr = NP!Addr /\ SW!Erased = NP!Erased
    /\ SW!Byte = NP!Byte /\ SW!Image = NP!Image
BY DEF SW!Overlay, NP!Overlay, SW!Touches, NP!Touches, SW!PageOf, NP!PageOf,
       SW!ByteNeedsErase, NP!ByteNeedsErase, SW!BlockRange, NP!BlockRange,
       SW!Erased, NP!Erased, SW!Addr, NP!Addr, SW!Byte, NP!Byte, SW!Image,
       NP!Image

LEMMA SameFlat == \A s : SW!FlattenSeq(s) = NP!FlattenSeq(s)
BY Zenon DEF SW!FlattenSeq, NP!FlattenSeq

LEMMA SameRuns ==
    \A block, needs, desired :
        SW!ProgramRuns(block, needs, desired) = NP!ProgramRuns(block, needs, desired)
<1>1. \A block, needs, a : SW!RunStarts(block, needs, a) = NP!RunStarts(block, needs, a)
  BY SamePieces, Zenon DEF SW!RunStarts, NP!RunStarts
<1>2. \A needs, a : SW!RunEnd(needs, a) = NP!RunEnd(needs, a)
  BY SamePieces, Zenon DEF SW!RunEnd, NP!RunEnd
<1> QED BY SamePieces, SameFlat, <1>1, <1>2, Zenon DEF SW!ProgramRuns, NP!ProgramRuns

LEMMA SameBlockSteps ==
    \A block, current, desired :
        SW!BlockSteps(block, current, desired) = NP!BlockSteps(block, current, desired)
<1> TAKE block, current, desired
<1>1. SW!BlockRange(block) = NP!BlockRange(block) /\ SW!Erased = NP!Erased
  BY SamePieces, Zenon
<1>2. (\E a \in SW!BlockRange(block) : SW!ByteNeedsErase(current[a], desired[a]))
         = (\E a \in NP!BlockRange(block) : NP!ByteNeedsErase(current[a], desired[a]))
  BY SamePieces, <1>1
<1> QED BY SameRuns, <1>1, <1>2, Zenon DEF SW!BlockSteps, NP!BlockSteps

LEMMA SamePlan ==
    \A current, patch, a, n :
        SW!DifferentialPlan(current, patch, a, n) = NP!DifferentialPlan(current, patch, a, n)
<1>1. \A current, desired, a, n :
         SW!PerBlock(current, desired, a, n) = NP!PerBlock(current, desired, a, n)
  BY SamePieces, SameBlockSteps, Zenon DEF SW!PerBlock, NP!PerBlock
<1> QED BY SamePieces, SameFlat, <1>1, Zenon DEF SW!DifferentialPlan, NP!DifferentialPlan

(* What the session uses of a job's plan.                                   *)
SmartPlanSound(steps, before, after) ==
    /\ steps \in Seq(SW!Step)
    /\ \A i \in DOMAIN steps : steps[i].data = after
    /\ \A x \in SW!Addr :
          \/ \E i \in DOMAIN steps :
                steps[i].kind = "verify" /\ x \in SW!StepRange(steps[i])
          \/ after[x] = before[x] /\ \A i \in DOMAIN steps : x \notin SW!StepRange(steps[i])
    /\ \A i, k \in DOMAIN steps : i < k /\ steps[i].kind = "verify" =>
          SW!StepRange(steps[i]) \cap SW!StepRange(steps[k]) = {}

LEMMA SmartPlan ==
    ASSUME NEW j \in SW!Job
    PROVE  /\ SmartPlanSound(SW!Plan(j).steps, j.before, SW!Patched(j.before, j.patch))
           /\ SW!Patched(j.before, j.patch) \in SW!Image
<1>1. /\ j.before \in NP!Image /\ j.patch.data \in NP!Image
      /\ j.patch.address \in Nat /\ j.patch.length \in Nat
  BY SamePieces, SmartConstants DEF SW!Job, SW!Patch, SW!Addr
<1>2. NP!PlanIsSound(NP!DifferentialPlan(j.before, j.patch.data, j.patch.address,
                                         j.patch.length).steps,
                     j.before, NP!Overlay(j.before, j.patch.data, j.patch.address,
                                          j.patch.length))
  BY <1>1, SmartConstants, NP!PlanSound
<1>3. NP!Overlay(j.before, j.patch.data, j.patch.address, j.patch.length) \in NP!Image
  BY <1>1, SmartConstants, NP!OverlayShape
<1>4. SW!Plan(j) = NP!DifferentialPlan(j.before, j.patch.data, j.patch.address,
                                       j.patch.length)
  BY SamePlan, Zenon DEF SW!Plan
<1>5. SW!Patched(j.before, j.patch)
         = NP!Overlay(j.before, j.patch.data, j.patch.address, j.patch.length)
  BY SamePieces, Zenon DEF SW!Patched
<1>6. SW!Step = NP!Step /\ \A s : SW!StepRange(s) = NP!StepRange(s)
  BY SamePieces DEF SW!Step, NP!Step, SW!StepRange, NP!StepRange
<1> QED BY <1>2, <1>3, <1>4, <1>5, <1>6, SamePieces, Zenon
       DEF SmartPlanSound, NP!PlanIsSound

(***************************************************************************)
(* The invariant of Smart Write.  None of its three promises is inductive.  *)
(* AlwaysRecoverable speaks of a bundle once its job has changed the part;  *)
(* that the bundle is good has to be known from the moment its journal is   *)
(* whole, and that the hashes in the journal make the promise even if       *)
(* somebody changes a file.  SuccessKeepsPromise needs what each step of    *)
(* the plan left, AcceptedWasShown what the gate stands for.                *)
(***************************************************************************)
Begun == {"accepted", "image", "journal", "open", "writing", "succeeded"}

(* A journal that is there, or may come back: the bundle names a part, and  *)
(* its hashes make what was promised; so do its files if nobody changed one. *)
GoodBundle(x, promise, untouched) ==
    x.journal \in {"whole", "deleted"} =>
        /\ x.part \in Part /\ x.backup \in SW!Image /\ x.image \in SW!Patch
        /\ x.backupHash \in SW!Image /\ x.imageHash \in SW!Patch
        /\ promise = SW!Patched(x.backupHash, x.imageHash)
        /\ untouched => x.backup = x.backupHash /\ x.image = x.imageHash

GoodBundles == \A b \in SW!Ids : GoodBundle(bundles[b], promised[b], tampering = 0)

OwedHaveJournals == \A b \in owed : bundles[b].journal = "whole"

(* The bundle of a job that is saving its recovery inputs.                  *)
SavedFor(x, j, atJournal) ==
    /\ x.part = j.part /\ x.backup = j.before /\ x.backupHash = j.before
    /\ x.imageHash = j.patch /\ x.journal = "none"
    /\ atJournal => x.image = j.patch

Saving ==
    phase \in {"image", "journal"} =>
        /\ job.bundle \in SW!Ids /\ job.recovers = 0
        /\ SavedFor(bundles[job.bundle], job, phase = "journal")

(* A job and the bundle it has: one that changes the part opens its session *)
(* only with a whole journal.                                              *)
JobHasBundle ==
    phase \in Begun =>
        /\ job.recovers \in {0, job.bundle}
        /\ phase = "accepted" => job.bundle = job.recovers
        /\ job.bundle # 0 =>
              /\ promised[job.bundle] = SW!Patched(job.before, job.patch)
              /\ bundles[job.bundle].part = job.part
              /\ phase \in {"accepted", "open", "writing"} =>
                    bundles[job.bundle].journal = "whole"
        /\ phase \in {"open", "writing"} /\ SW!Changes(job) => job.bundle # 0

(* What the gate stands for, and what was shown.                            *)
Same(j, k) == /\ j.recovers = k.recovers /\ j.part = k.part
              /\ j.before = k.before /\ j.patch = k.patch

GateStands ==
    \/ gate = None
    \/ /\ shown \in SW!Job
       /\ gate.context[2] = shown.recovers /\ gate.identity = SW!Identity(shown)

JobWasShown == phase \in Begun /\ job.asked => shown \in SW!Job /\ Same(shown, job)

(* What the part holds once the steps before i are done.                    *)
Reached(steps, i, now, before) ==
    /\ \A k \in DOMAIN steps, a \in SW!Addr :
          k < i /\ steps[k].kind = "verify" /\ a \in SW!StepRange(steps[k]) =>
             now[a] = steps[k].data[a]
    /\ \A a \in SW!Addr :
          \/ now[a] = before[a]
          \/ \E k \in DOMAIN steps : /\ k < i /\ SW!Destructive(steps[k])
                                     /\ a \in SW!StepRange(steps[k])

PartReached ==
    /\ phase \in {"preview", "commit", "batch"} => buffer # None
    /\ phase = "writing" =>
          /\ socket = job.part
          /\ Reached(SW!Plan(job).steps, index, mem[socket], job.before)
    /\ phase = "succeeded" => mem[job.part] = SW!Patched(job.before, job.patch)

SmartInv ==
    /\ SW!TypeOK /\ GoodBundles /\ OwedHaveJournals /\ Saving
    /\ JobHasBundle /\ GateStands /\ JobWasShown /\ PartReached

LEMMA SmartSets ==
    /\ None \notin Part /\ None \notin SW!Image /\ None \notin SW!Patch
    /\ None \notin SW!Job /\ None \notin SW!Offers
    /\ Part # {} /\ Contents \subseteq SW!Image /\ Patches \subseteq SW!Patch
    /\ MaxBundles \in Nat /\ MaxCrashes \in Nat /\ MaxTampering \in Nat
    /\ SW!NoFiles \in SW!Bundle /\ SW!NoFiles.journal = "none"
BY SmartConstants DEF SW!SmartAssumption, SW!NoFiles, SW!Bundle

LEMMA SmartInit == SW!Init => SmartInv
<1> SUFFICES ASSUME SW!Init PROVE SmartInv
  OBVIOUS
<1> USE SmartSets DEF SW!Init
<1>1. SW!TypeOK
  BY DEF SW!TypeOK
<1>2. GoodBundles /\ OwedHaveJournals
  BY DEF GoodBundles, GoodBundle, OwedHaveJournals, SW!NoFiles
<1>3. Saving /\ JobHasBundle /\ GateStands /\ JobWasShown /\ PartReached
  BY DEF Saving, JobHasBundle, GateStands, JobWasShown, PartReached, Begun
<1> QED BY <1>1, <1>2, <1>3 DEF SmartInv

(* The steps that change neither the files nor the part nor the job.        *)
LEMMA SmartQuiet ==
    ASSUME SmartInv,
           \/ \E p \in Patches : SW!LoadImage(p)
           \/ \E kind \in {"preview", "commit", "batch"} : SW!Click(kind)
           \/ SW!Abort \/ SW!Return \/ \E p \in Part : SW!Exchange(p)
    PROVE  SmartInv'
<1> USE SmartSets DEF SmartInv, SW!disk, SW!ui, SW!ghost
<1>1. UNCHANGED <<mem, bundles, tampering, promised, owed, crashes>>
  BY DEF SW!LoadImage, SW!Click, SW!Abort, SW!Return, SW!Exchange
<1>2. GoodBundles' /\ OwedHaveJournals'
  BY <1>1 DEF GoodBundles, OwedHaveJournals
<1>3. ASSUME NEW p \in Patches, SW!LoadImage(p) PROVE SmartInv'
  BY <1>1, <1>2, <1>3 DEF SW!LoadImage, SW!TypeOK, Saving, JobHasBundle,
     GateStands, JobWasShown, PartReached, Begun
<1>4. ASSUME NEW kind \in {"preview", "commit", "batch"}, SW!Click(kind) PROVE SmartInv'
  BY <1>1, <1>2, <1>4 DEF SW!Click, SW!TypeOK, Saving, JobHasBundle,
     GateStands, JobWasShown, PartReached, Begun
<1>5. CASE SW!Abort \/ SW!Return
  BY <1>1, <1>2, <1>5 DEF SW!Abort, SW!Return, SW!TypeOK, Saving, JobHasBundle,
     GateStands, JobWasShown, PartReached, Begun
<1>6. ASSUME NEW p \in Part, SW!Exchange(p) PROVE SmartInv'
  BY <1>1, <1>2, <1>6 DEF SW!Exchange, SW!TypeOK, Saving, JobHasBundle,
     GateStands, JobWasShown, PartReached, Begun
<1> QED BY <1>3, <1>4, <1>5, <1>6

(* A directory flush takes a deleted journal for good.                      *)
LEMMA SmartFlush ==
    ASSUME SmartInv, bundles' = SW!DirectoryFlushed, UNCHANGED <<promised, tampering, owed>>
    PROVE  /\ bundles' \in [SW!Ids -> SW!Bundle] /\ GoodBundles' /\ OwedHaveJournals'
           /\ \A b \in SW!Ids : /\ bundles'[b].part = bundles[b].part
                                /\ bundles[b].journal = "whole" => bundles'[b] = bundles[b]
<1> USE DEF SmartInv
<1>1. \A x \in SW!Bundle : LET y == [x EXCEPT !.journal = "none"]
                           IN  y \in SW!Bundle /\ y.journal = "none" /\ y.part = x.part
  BY DEF SW!Bundle
<1>2. bundles \in [SW!Ids -> SW!Bundle] /\ owed \subseteq SW!Ids
  BY DEF SW!TypeOK
<1>3. ASSUME NEW b \in SW!Ids
      PROVE  /\ bundles'[b] \in SW!Bundle /\ bundles'[b].part = bundles[b].part
             /\ bundles[b].journal = "whole" => bundles'[b] = bundles[b]
             /\ bundles'[b] = bundles[b] \/ bundles'[b].journal = "none"
  BY <1>1, <1>2, <1>3 DEF SW!DirectoryFlushed
<1>4. GoodBundles'
  BY <1>3 DEF GoodBundles, GoodBundle
<1>5. OwedHaveJournals'
  BY <1>2, <1>3 DEF OwedHaveJournals
<1> QED BY <1>2, <1>3, <1>4, <1>5 DEF SW!DirectoryFlushed

(* What a job in hand must be to be presented.                              *)
Presentable(j) ==
    /\ j \in SW!Job /\ j.bundle = requested /\ j.recovers = requested
    /\ j.asked = (phase # "batch")
    /\ requested # 0 => /\ bundles[requested].journal = "whole"
                        /\ bundles[requested].part = j.part
                        /\ promised[requested] = SW!Patched(j.before, j.patch)

LEMMA SmartPresent ==
    ASSUME SmartInv, NEW j, Presentable(j), SW!Present(j),
           phase \in {"preview", "commit", "batch"}, bundles' = SW!DirectoryFlushed,
           UNCHANGED <<mem, socket, tampering, buffer, requested, index, promised,
                       owed, crashes>>
    PROVE  SmartInv'
<1> USE SmartSets DEF SmartInv
<1>1. /\ bundles' \in [SW!Ids -> SW!Bundle] /\ GoodBundles' /\ OwedHaveJournals'
      /\ \A b \in SW!Ids : /\ bundles'[b].part = bundles[b].part
                           /\ bundles[b].journal = "whole" => bundles'[b] = bundles[b]
  BY SmartFlush
<1>2. requested \in 0 .. MaxBundles /\ (requested # 0 => requested \in SW!Ids)
  BY DEF SW!TypeOK, SW!Ids
<1>3. SW!Offer(j) \in SW!Offers
  BY DEF Presentable, SW!TypeOK, SW!Offers, SW!Offer, SW!Context, SW!Identity, SW!Job
<1>4. CASE phase = "commit" /\ SW!Accepts(j)
  <2>1. gate' = None /\ phase' = "accepted" /\ job' = j /\ shown' = shown
    BY <1>4 DEF SW!Present
  <2>2. SW!TypeOK'
    BY <1>1, <2>1 DEF SW!TypeOK, Presentable
  <2>3. shown \in SW!Job /\ Same(shown, j)
    <3>1. gate # None /\ gate = SW!Offer(j)
      BY <1>3, <1>4 DEF SW!Accepts
    <3>2. /\ shown \in SW!Job /\ gate.context[2] = shown.recovers
          /\ gate.identity = SW!Identity(shown)
      BY <3>1 DEF GateStands
    <3>3. gate.context[2] = requested /\ gate.identity = SW!Identity(j)
      BY <3>1 DEF SW!Offer, SW!Context
    <3> QED BY <3>2, <3>3 DEF Same, SW!Identity, Presentable
  <2>4. JobHasBundle'
    BY <1>1, <1>2, <2>1 DEF JobHasBundle, Presentable
  <2> QED BY <1>1, <2>1, <2>2, <2>3, <2>4
         DEF Saving, GateStands, JobWasShown, PartReached
<1>5. CASE phase = "preview" \/ (phase = "commit" /\ ~SW!Accepts(j))
  <2>1. gate' = SW!Offer(j) /\ shown' = j /\ phase' = "idle" /\ job' = job
    BY <1>5 DEF SW!Present
  <2>2. SW!TypeOK'
    BY <1>1, <2>1 DEF SW!TypeOK, Presentable
  <2>3. GateStands'
    BY <2>1 DEF GateStands, SW!Offer, SW!Context, Presentable
  <2> QED BY <1>1, <2>1, <2>2, <2>3
         DEF Saving, JobHasBundle, JobWasShown, PartReached, Begun
<1>6. CASE phase = "batch"
  <2>1. phase' = "accepted" /\ job' = j /\ gate' = gate /\ shown' = shown /\ ~j.asked
    BY <1>6 DEF SW!Present, Presentable
  <2>2. SW!TypeOK'
    BY <1>1, <2>1 DEF SW!TypeOK, Presentable
  <2>3. JobHasBundle'
    BY <1>1, <1>2, <2>1 DEF JobHasBundle, Presentable
  <2> QED BY <1>1, <2>1, <2>2, <2>3
         DEF Saving, GateStands, JobWasShown, PartReached
<1> QED BY <1>4, <1>5, <1>6

(* A patch of the whole chip leaves itself.                                 *)
LEMMA WholeChipLeft ==
    ASSUME NEW before \in SW!Image, NEW image \in SW!Image
    PROVE  /\ SW!WholeChip(image) \in SW!Patch
           /\ SW!Patched(before, SW!WholeChip(image)) = image
BY SmartConstants
   DEF SW!WholeChip, SW!Patch, SW!Patched, SW!Overlay, SW!Image, SW!Addr

LEMMA PatchedShape ==
    ASSUME NEW image \in SW!Image, NEW p \in SW!Patch
    PROVE  SW!Patched(image, p) \in SW!Image
BY DEF SW!Patched, SW!Overlay, SW!Patch, SW!Image

LEMMA SmartRead ==
    ASSUME SmartInv, SW!ReadAndPresent
    PROVE  SmartInv'
<1> USE SmartSets DEF SmartInv, SW!ghost
<1>1. /\ phase \in {"preview", "commit", "batch"} /\ bundles' = SW!DirectoryFlushed
      /\ UNCHANGED <<mem, socket, tampering, buffer, requested, index, promised,
                     owed, crashes>>
  BY DEF SW!ReadAndPresent
<1>2. buffer \in SW!Patch /\ mem[socket] \in SW!Image /\ socket \in Part
      /\ requested \in 0 .. MaxBundles
  BY <1>1 DEF SW!TypeOK, PartReached
<1>3. CASE requested = 0 /\ SW!Present(SW!FreshJob)
  <2>1. Presentable(SW!FreshJob)
    BY <1>2, <1>3 DEF Presentable, SW!FreshJob, SW!Job
  <2> QED BY <1>1, <1>3, <2>1, SmartPresent
<1>4. CASE SW!PrepareRecovery /\ SW!Present(SW!RecoveryJob)
  <2> DEFINE x == bundles[requested]
             desired == SW!Desired(requested)
  <2>1. /\ requested # 0 /\ x.journal = "whole" /\ x.part = socket
        /\ x.backup = x.backupHash /\ x.image = x.imageHash
    BY <1>4 DEF SW!PrepareRecovery, SW!RecoveryAllowed
  <2>2. requested \in SW!Ids
    BY <1>2, <2>1 DEF SW!Ids
  <2>3. /\ x.backup \in SW!Image /\ x.image \in SW!Patch
        /\ promised[requested] = SW!Patched(x.backupHash, x.imageHash)
    BY <2>1, <2>2 DEF GoodBundles, GoodBundle
  <2>4. desired = promised[requested] /\ desired \in SW!Image
    BY <2>1, <2>3, PatchedShape DEF SW!Desired
  <2>5. /\ SW!WholeChip(desired) \in SW!Patch
        /\ SW!Patched(mem[socket], SW!WholeChip(desired)) = desired
    BY <1>2, <2>4, WholeChipLeft
  <2> HIDE DEF desired
  <2>6. SW!RecoveryJob = [recovers |-> requested, bundle |-> requested, part |-> socket,
                          before |-> mem[socket], patch |-> SW!WholeChip(desired),
                          asked |-> phase # "batch"]
    BY DEF SW!RecoveryJob, desired
  <2>7. SW!RecoveryJob \in SW!Job
    BY <1>2, <2>5, <2>6 DEF SW!Job
  <2>8. Presentable(SW!RecoveryJob)
    BY <2>1, <2>4, <2>5, <2>6, <2>7 DEF Presentable
  <2> QED BY <1>1, <1>4, <2>8, SmartPresent
<1> QED BY <1>3, <1>4 DEF SW!ReadAndPresent

LEMMA SmartRequest ==
    ASSUME SmartInv, NEW b \in SW!Ids, SW!RequestRecovery(b)
    PROVE  SmartInv'
<1> USE SmartSets DEF SmartInv, SW!disk, SW!ghost
<1>1. /\ phase = "idle" /\ phase' = "preview" /\ requested' = b /\ gate' = None
      /\ buffer' = bundles[b].image /\ shown' = None
      /\ UNCHANGED <<mem, socket, bundles, tampering, job, index, promised, owed, crashes>>
  BY DEF SW!RequestRecovery
<1>2. bundles[b].image \in SW!Patch
  BY DEF SW!RequestRecovery, GoodBundles, GoodBundle
<1>3. b \in 0 .. MaxBundles
  BY DEF SW!Ids
<1>4. SW!TypeOK'
  BY <1>1, <1>2, <1>3 DEF SW!TypeOK
<1>5. GoodBundles' /\ OwedHaveJournals'
  BY <1>1 DEF GoodBundles, OwedHaveJournals
<1> QED BY <1>1, <1>2, <1>4, <1>5
       DEF Saving, JobHasBundle, GateStands, JobWasShown, PartReached, Begun

LEMMA SmartChoose ==
    ASSUME SmartInv, SW!ChooseJournal
    PROVE  SmartInv'
<1> USE SmartSets DEF SmartInv, SW!ui
<1>1. /\ phase = "accepted" /\ job \in SW!Job /\ job.bundle = job.recovers
      /\ bundles \in [SW!Ids -> SW!Bundle] /\ promised \in [SW!Ids -> SW!Image \cup {None}]
      /\ owed \subseteq SW!Ids
      /\ UNCHANGED <<mem, socket, tampering, buffer, requested, gate, shown, index,
                     owed, crashes>>
  BY DEF SW!ChooseJournal, SW!TypeOK, JobHasBundle, Begun
<1>2. CASE /\ job.recovers # 0 \/ ~SW!Changes(job)
           /\ phase' = "open" /\ UNCHANGED <<bundles, promised, job>>
  <2>1. SW!TypeOK' /\ GoodBundles' /\ OwedHaveJournals'
    BY <1>1, <1>2 DEF SW!TypeOK, GoodBundles, OwedHaveJournals
  <2> QED BY <1>1, <1>2, <2>1
         DEF Saving, JobHasBundle, GateStands, JobWasShown, PartReached, Begun
<1>3. ASSUME job.recovers = 0, phase' = "image", NEW b \in SW!Ids,
             \A c \in SW!Ids : bundles[c] = SW!NoFiles <=> c >= b,
             bundles' = [bundles EXCEPT ![b] =
                   [SW!NoFiles EXCEPT !.part = job.part, !.backup = job.before,
                                      !.backupHash = job.before,
                                      !.imageHash = job.patch]],
             promised' = [promised EXCEPT ![b] = SW!Patched(job.before, job.patch)],
             job' = [job EXCEPT !.bundle = b]
      PROVE  SmartInv'
  <2>1. bundles[b] = SW!NoFiles
    BY <1>3 DEF SW!Ids
  <2>2. /\ bundles'[b] \in SW!Bundle /\ SavedFor(bundles'[b], job, FALSE)
    <3>1. bundles'[b] = [SW!NoFiles EXCEPT !.part = job.part, !.backup = job.before,
                                      !.backupHash = job.before,
                                      !.imageHash = job.patch]
      BY <1>1, <1>3
    <3>2. job.part \in Part /\ job.before \in SW!Image /\ job.patch \in SW!Patch
      BY <1>1 DEF SW!Job
    <3> QED BY <3>1, <3>2 DEF SW!NoFiles, SW!Bundle, SavedFor
  <2>3. \A c \in SW!Ids : c # b => bundles'[c] = bundles[c] /\ promised'[c] = promised[c]
    BY <1>1, <1>3
  <2>4. bundles' \in [SW!Ids -> SW!Bundle]
    BY <1>1, <1>3, <2>2, <2>3
  <2>5. /\ promised' \in [SW!Ids -> SW!Image \cup {None}]
        /\ promised'[b] = SW!Patched(job.before, job.patch)
    <3>1. SW!Patched(job.before, job.patch) \in SW!Image
      BY <1>1, SmartPlan
    <3> QED BY <1>1, <1>3, <3>1
  <2>6. /\ job' \in SW!Job /\ job'.bundle = b /\ job'.recovers = 0
        /\ job'.part = job.part /\ job'.before = job.before /\ job'.patch = job.patch
        /\ job'.asked = job.asked
    <3>1. b \in 0 .. MaxBundles
      BY DEF SW!Ids
    <3> QED BY <1>1, <1>3, <3>1 DEF SW!Job
  <2>7. SW!TypeOK'
    BY <1>1, <1>3, <2>4, <2>5, <2>6 DEF SW!TypeOK
  <2>8. GoodBundles' /\ OwedHaveJournals'
    <3>1. bundles'[b].journal = "none" /\ b \notin owed
      BY <2>1, <2>2 DEF SavedFor, OwedHaveJournals
    <3> QED BY <1>1, <2>3, <3>1 DEF GoodBundles, GoodBundle, OwedHaveJournals
  <2>9. Saving'
    BY <1>3, <2>2, <2>6 DEF Saving, SavedFor
  <2>10. JobHasBundle'
    BY <1>3, <2>2, <2>5, <2>6 DEF JobHasBundle, SavedFor
  <2>11. JobWasShown'
    BY <1>1, <1>3, <2>6 DEF JobWasShown, Same, Begun
  <2> QED BY <1>1, <1>3, <2>7, <2>8, <2>9, <2>10, <2>11 DEF GateStands, PartReached
<1> QED BY <1>2, <1>3 DEF SW!ChooseJournal

LEMMA SmartImage ==
    ASSUME SmartInv, SW!SaveImage
    PROVE  SmartInv'
<1> USE SmartSets DEF SmartInv, SW!ui, SW!ghost
<1>1. /\ phase = "image" /\ job \in SW!Job /\ phase' \in {"journal", "idle"}
      /\ bundles \in [SW!Ids -> SW!Bundle] /\ owed \subseteq SW!Ids
      /\ job.bundle \in SW!Ids /\ job.recovers = 0
      /\ SavedFor(bundles[job.bundle], job, FALSE)
      /\ job' = IF phase' = "idle" THEN None ELSE job
      /\ UNCHANGED <<mem, socket, tampering, buffer, requested, gate, shown, index,
                     promised, owed, crashes>>
  BY DEF SW!SaveImage, SW!TypeOK, Saving
<1>2. /\ bundles' \in [SW!Ids -> SW!Bundle]
      /\ \A b \in SW!Ids : b # job.bundle => bundles'[b] = bundles[b]
      /\ bundles'[job.bundle].journal = "none"
      /\ bundles'[job.bundle].part = bundles[job.bundle].part
      /\ phase' = "journal" => SavedFor(bundles'[job.bundle], job, TRUE)
  <2>1. CASE UNCHANGED bundles /\ phase' = "idle"
    BY <1>1, <2>1 DEF SavedFor
  <2>2. CASE bundles' = [bundles EXCEPT ![job.bundle].image = job.patch]
    <3> DEFINE y == [bundles[job.bundle] EXCEPT !.image = job.patch]
    <3>1. bundles' = [bundles EXCEPT ![job.bundle] = y]
      BY <2>2
    <3>2. job.patch \in SW!Patch /\ bundles[job.bundle] \in SW!Bundle
      BY <1>1 DEF SW!Job
    <3>3. /\ y \in SW!Bundle /\ y.image = job.patch
          /\ y.part = bundles[job.bundle].part
          /\ y.backup = bundles[job.bundle].backup
          /\ y.backupHash = bundles[job.bundle].backupHash
          /\ y.imageHash = bundles[job.bundle].imageHash
          /\ y.journal = bundles[job.bundle].journal
      BY <3>2 DEF SW!Bundle
    <3>4. /\ y.journal = "none" /\ SavedFor(y, job, TRUE)
      BY <1>1, <3>3 DEF SavedFor
    <3> HIDE DEF y
    <3>5. /\ bundles'[job.bundle] = y /\ bundles' \in [SW!Ids -> SW!Bundle]
          /\ \A b \in SW!Ids : b # job.bundle => bundles'[b] = bundles[b]
      BY <1>1, <3>1, <3>3
    <3> QED BY <3>3, <3>4, <3>5
  <2> QED BY <2>1, <2>2 DEF SW!SaveImage
<1>3. SW!TypeOK'
  BY <1>1, <1>2 DEF SW!TypeOK
<1>4. GoodBundles' /\ OwedHaveJournals'
  <2>1. job.bundle \notin owed
    BY <1>1 DEF SavedFor, OwedHaveJournals
  <2> QED BY <1>1, <1>2, <2>1 DEF GoodBundles, GoodBundle, OwedHaveJournals
<1>5. Saving' /\ JobHasBundle' /\ JobWasShown'
  BY <1>1, <1>2 DEF Saving, JobHasBundle, JobWasShown, Begun
<1> QED BY <1>1, <1>3, <1>4, <1>5 DEF GateStands, PartReached

LEMMA SmartJournal ==
    ASSUME SmartInv, SW!BeginJournal
    PROVE  SmartInv'
<1> USE SmartSets DEF SmartInv, SW!ui, SW!ghost
<1>0. job.bundle \in SW!Ids => job.bundle # 0
  BY DEF SW!Ids
<1>1. /\ phase = "journal" /\ job \in SW!Job /\ phase' \in {"open", "idle"}
      /\ bundles \in [SW!Ids -> SW!Bundle] /\ owed \subseteq SW!Ids
      /\ job.bundle \in SW!Ids /\ job.recovers = 0
      /\ SavedFor(bundles[job.bundle], job, TRUE)
      /\ promised[job.bundle] = SW!Patched(job.before, job.patch)
      /\ job' = IF phase' = "idle" THEN None ELSE job
      /\ UNCHANGED <<mem, socket, tampering, buffer, requested, gate, shown, index,
                     promised, owed, crashes>>
  BY <1>0 DEF SW!BeginJournal, SW!TypeOK, Saving, JobHasBundle, Begun
<1>2. /\ bundles' \in [SW!Ids -> SW!Bundle]
      /\ \A b \in SW!Ids : b # job.bundle => bundles'[b] = bundles[b]
      /\ bundles'[job.bundle].part = job.part
      /\ phase' = "open" => bundles'[job.bundle].journal = "whole"
      /\ GoodBundle(bundles'[job.bundle], promised[job.bundle], tampering = 0)
  <2> DEFINE x == bundles[job.bundle]
             y(j) == [x EXCEPT !.journal = j]
  <2>1. PICK j \in {"whole", "torn"} :
           /\ bundles' = [bundles EXCEPT ![job.bundle] = y(j)]
           /\ phase' = "open" => j = "whole"
    BY DEF SW!BeginJournal
  <2>2. /\ job.part \in Part /\ job.before \in SW!Image /\ job.patch \in SW!Patch
        /\ x \in SW!Bundle
    BY <1>1 DEF SW!Job
  <2>3. /\ y(j) \in SW!Bundle /\ y(j).journal = j
        /\ y(j).part = x.part /\ y(j).backup = x.backup /\ y(j).image = x.image
        /\ y(j).backupHash = x.backupHash /\ y(j).imageHash = x.imageHash
    BY <2>2 DEF SW!Bundle
  <2>4. /\ x.part = job.part /\ x.backup = job.before /\ x.backupHash = job.before
        /\ x.imageHash = job.patch /\ x.image = job.patch
    BY <1>1 DEF SavedFor
  <2> HIDE DEF x, y
  <2>5. /\ bundles'[job.bundle] = y(j) /\ bundles' \in [SW!Ids -> SW!Bundle]
        /\ \A b \in SW!Ids : b # job.bundle => bundles'[b] = bundles[b]
    BY <1>1, <2>1, <2>3
  <2>6. GoodBundle(y(j), promised[job.bundle], tampering = 0)
    BY <1>1, <2>2, <2>3, <2>4 DEF GoodBundle
  <2> QED BY <2>1, <2>3, <2>4, <2>5, <2>6
<1>3. SW!TypeOK'
  BY <1>1, <1>2 DEF SW!TypeOK
<1>4. GoodBundles' /\ OwedHaveJournals'
  <2>1. job.bundle \notin owed
    BY <1>1 DEF SavedFor, OwedHaveJournals
  <2> QED BY <1>1, <1>2, <2>1 DEF GoodBundles, OwedHaveJournals
<1>5. Saving' /\ JobHasBundle' /\ JobWasShown'
  BY <1>1, <1>2 DEF Saving, JobHasBundle, JobWasShown, Begun, SW!Ids
<1> QED BY <1>1, <1>3, <1>4, <1>5 DEF GateStands, PartReached

(* The plan, step by step.  What a verify step has proved no later step      *)
(* touches, and what no destructive step touches is what it was.            *)
LEMMA ReachedStart ==
    ASSUME NEW steps \in Seq(SW!Step), NEW now
    PROVE  Reached(steps, 1, now, now)
<1>1. \A k \in DOMAIN steps : ~(k < 1)
  OBVIOUS
<1> QED BY <1>1 DEF Reached

LEMMA ReachedChange ==
    ASSUME NEW steps, NEW before, NEW after, SmartPlanSound(steps, before, after),
           NEW i \in DOMAIN steps, SW!Destructive(steps[i]), NEW now \in SW!Image,
           Reached(steps, i, now, before),
           NEW then, then = SW!Effect(now, steps[i], SW!StepRange(steps[i]))
    PROVE  then \in SW!Image /\ Reached(steps, i + 1, then, before)
<1>1. steps \in Seq(SW!Step) /\ DOMAIN steps = 1 .. Len(steps) /\ Len(steps) \in Nat
  BY DEF SmartPlanSound
<1>2. \A a \in SW!Addr : a \notin SW!StepRange(steps[i]) => then[a] = now[a]
  BY DEF SW!Effect
<1>3. then \in SW!Image
  <2>1. steps[i] \in SW!Step
    BY <1>1
  <2>2. steps[i].data \in SW!Image
    BY <2>1 DEF SW!Step
  <2> QED BY <2>2 DEF SW!Effect, SW!Image, SW!Byte, SW!Erased
<1>4. steps[i].kind # "verify"
  BY DEF SW!Destructive
<1>5. \A k \in DOMAIN steps : k < i + 1 => k = i \/ k < i
  BY <1>1
<1>6. \A k \in DOMAIN steps : k < i => k < i + 1
  BY <1>1
<1>7. i < i + 1
  BY <1>1
<1>8. ASSUME NEW k \in DOMAIN steps, NEW a \in SW!Addr, k < i + 1,
             steps[k].kind = "verify", a \in SW!StepRange(steps[k])
      PROVE  then[a] = steps[k].data[a]
  <2>1. k < i
    BY <1>4, <1>5, <1>8
  <2>2. a \notin SW!StepRange(steps[i])
    BY <1>8, <2>1 DEF SmartPlanSound
  <2> QED BY <1>2, <1>8, <2>1, <2>2 DEF Reached
<1>9. ASSUME NEW a \in SW!Addr
      PROVE  \/ then[a] = before[a]
             \/ \E k \in DOMAIN steps : /\ k < i + 1 /\ SW!Destructive(steps[k])
                                        /\ a \in SW!StepRange(steps[k])
  <2>1. CASE a \in SW!StepRange(steps[i])
    BY <1>7, <2>1
  <2>2. CASE a \notin SW!StepRange(steps[i])
    BY <1>2, <1>6, <2>2 DEF Reached
  <2> QED BY <2>1, <2>2
<1> QED BY <1>3, <1>8, <1>9 DEF Reached

LEMMA ReachedVerify ==
    ASSUME NEW steps \in Seq(SW!Step), NEW before, NEW now,
           NEW i \in DOMAIN steps, ~SW!Destructive(steps[i]),
           \A a \in SW!StepRange(steps[i]) : now[a] = steps[i].data[a],
           Reached(steps, i, now, before)
    PROVE  Reached(steps, i + 1, now, before)
<1>1. \A k \in DOMAIN steps : (k < i + 1 => k = i \/ k < i) /\ (k < i => k < i + 1)
  OBVIOUS
<1> QED BY <1>1 DEF Reached

LEMMA ReachedEnd ==
    ASSUME NEW steps, NEW before, NEW after \in SW!Image, SmartPlanSound(steps, before, after),
           NEW i \in Nat, i > Len(steps), NEW now \in SW!Image,
           Reached(steps, i, now, before)
    PROVE  now = after
<1>1. \A k \in DOMAIN steps : k < i
  BY DEF SmartPlanSound
<1>2. ASSUME NEW a \in SW!Addr PROVE now[a] = after[a]
  BY <1>1 DEF Reached, SmartPlanSound
<1> QED BY <1>2 DEF SW!Image

LEMMA SmartOpen ==
    ASSUME SmartInv, SW!OpenSession
    PROVE  SmartInv'
<1> USE SmartSets DEF SmartInv, SW!disk, SW!ui, SW!ghost
<1>1. /\ phase = "open" /\ job \in SW!Job
      /\ UNCHANGED <<mem, socket, bundles, tampering, buffer, requested, gate, shown,
                     promised, owed, crashes>>
  BY DEF SW!OpenSession, SW!TypeOK
<1>2. GoodBundles' /\ OwedHaveJournals' /\ GateStands' /\ Saving'
  BY <1>1 DEF GoodBundles, OwedHaveJournals, GateStands, Saving, SW!OpenSession
<1>3. CASE SW!SameChip /\ phase' = "writing" /\ index' = 1 /\ UNCHANGED job
  <2>1. SW!Plan(job).steps \in Seq(SW!Step)
    BY <1>1, SmartPlan DEF SmartPlanSound
  <2>2. SW!TypeOK'
    BY <1>1, <1>3, <2>1 DEF SW!TypeOK, SW!Steps
  <2>3. PartReached'
    BY <1>1, <1>3, <2>1, ReachedStart DEF PartReached, SW!SameChip
  <2> QED BY <1>1, <1>2, <1>3, <2>2, <2>3 DEF JobHasBundle, JobWasShown, Begun
<1>4. CASE phase' = "idle" /\ job' = None
  BY <1>1, <1>2, <1>4 DEF SW!TypeOK, JobHasBundle, JobWasShown, PartReached, Begun
<1> QED BY <1>3, <1>4 DEF SW!OpenSession

(* The step a writing session is at.                                        *)
LEMMA SmartWriting ==
    ASSUME SmartInv, phase = "writing"
    PROVE  /\ job \in SW!Job /\ socket = job.part /\ socket \in Part
           /\ SmartPlanSound(SW!Steps, job.before, SW!Patched(job.before, job.patch))
           /\ SW!Steps \in Seq(SW!Step) /\ SW!Patched(job.before, job.patch) \in SW!Image
           /\ Reached(SW!Steps, index, mem[socket], job.before)
           /\ mem \in [Part -> SW!Image]
           /\ index \in Nat /\ index \in 1 .. Len(SW!Steps) + 1
           /\ index <= Len(SW!Steps) =>
                 /\ index \in DOMAIN SW!Steps /\ SW!Steps[index] \in SW!Step
                 /\ index + 1 \in 1 .. Len(SW!Steps) + 1
           /\ index <= Len(SW!Steps) /\ SW!Destructive(SW!Current) =>
                 job.bundle \in SW!Ids /\ bundles[job.bundle].journal = "whole"
<1> USE SmartSets DEF SmartInv
<1>1. job \in SW!Job /\ socket \in Part /\ mem \in [Part -> SW!Image]
      /\ index \in 1 .. Len(SW!Steps) + 1
  BY DEF SW!TypeOK
<1>2. /\ SmartPlanSound(SW!Steps, job.before, SW!Patched(job.before, job.patch))
      /\ SW!Steps \in Seq(SW!Step) /\ SW!Patched(job.before, job.patch) \in SW!Image
  BY <1>1, SmartPlan DEF SmartPlanSound, SW!Steps
<1>3. index \in Nat /\ (index <= Len(SW!Steps) =>
                 /\ index \in DOMAIN SW!Steps /\ SW!Steps[index] \in SW!Step
                 /\ index + 1 \in 1 .. Len(SW!Steps) + 1)
  BY <1>1, <1>2
<1>4. socket = job.part /\ Reached(SW!Steps, index, mem[socket], job.before)
  BY DEF PartReached, SW!Steps
<1>5. ASSUME index <= Len(SW!Steps), SW!Destructive(SW!Current)
      PROVE  job.bundle \in SW!Ids /\ bundles[job.bundle].journal = "whole"
  <2>1. SW!Changes(job)
    BY <1>3, <1>5 DEF SW!Changes, SW!NORPlanHasDestructiveSteps, SW!Current, SW!Steps
  <2>2. job.bundle # 0 /\ bundles[job.bundle].journal = "whole"
    BY <2>1 DEF JobHasBundle, Begun
  <2> QED BY <1>1, <2>2 DEF SW!Job, SW!Ids
<1> QED BY <1>1, <1>2, <1>3, <1>4, <1>5

LEMMA SmartChange ==
    ASSUME SmartInv, SW!Change
    PROVE  SmartInv'
<1> USE SmartSets DEF SmartInv, SW!disk, SW!ui
<1>1. /\ phase = "writing" /\ index <= Len(SW!Steps) /\ SW!Destructive(SW!Current)
      /\ mem' = [mem EXCEPT ![socket] = SW!Effect(@, SW!Current, SW!StepRange(SW!Current))]
      /\ owed' = owed \cup {job.bundle} /\ index' = index + 1
      /\ UNCHANGED <<socket, bundles, tampering, buffer, requested, gate, shown, phase,
                     job, promised, crashes>>
  BY DEF SW!Change, SW!Take, SW!Owing
<1>2. Reached(SW!Steps, index + 1, mem'[socket], job.before)
      /\ mem' \in [Part -> SW!Image]
  <2>1. mem'[socket] = SW!Effect(mem[socket], SW!Steps[index],
                                 SW!StepRange(SW!Steps[index]))
    BY <1>1, SmartWriting DEF SW!Current
  <2>2. mem'[socket] \in SW!Image
        /\ Reached(SW!Steps, index + 1, mem'[socket], job.before)
    BY <1>1, <2>1, SmartWriting, ReachedChange DEF SW!Current
  <2> QED BY <1>1, <2>2, SmartWriting
<1>3. job.bundle \in SW!Ids /\ bundles[job.bundle].journal = "whole"
  BY <1>1, SmartWriting
<1>4. SW!TypeOK'
  <2>1. index' \in 1 .. Len(SW!Steps)' + 1
    BY <1>1, SmartWriting DEF SW!Steps
  <2> QED BY <1>1, <1>2, <1>3, <2>1 DEF SW!TypeOK
<1>5. PartReached'
  BY <1>1, <1>2, SmartWriting DEF PartReached, SW!Steps
<1>6. GoodBundles' /\ OwedHaveJournals' /\ GateStands' /\ Saving'
  BY <1>1, <1>3 DEF GoodBundles, OwedHaveJournals, GateStands, Saving
<1> QED BY <1>1, <1>4, <1>5, <1>6 DEF JobHasBundle, JobWasShown

LEMMA SmartVerify ==
    ASSUME SmartInv, SW!Verify
    PROVE  SmartInv'
<1> USE SmartSets DEF SmartInv, SW!disk, SW!ui, SW!ghost
<1>1. /\ phase = "writing" /\ index <= Len(SW!Steps) /\ ~SW!Destructive(SW!Current)
      /\ \A a \in SW!StepRange(SW!Current) : mem[socket][a] = SW!Current.data[a]
      /\ index' = index + 1
      /\ UNCHANGED <<mem, socket, bundles, tampering, buffer, requested, gate, shown,
                     phase, job, promised, owed, crashes>>
  BY DEF SW!Verify
<1>2. Reached(SW!Steps, index + 1, mem[socket], job.before)
  BY <1>1, SmartWriting, ReachedVerify DEF SW!Current
<1>3. SW!TypeOK'
  <2>1. index' \in 1 .. Len(SW!Steps)' + 1
    BY <1>1, SmartWriting DEF SW!Steps
  <2> QED BY <1>1, <2>1 DEF SW!TypeOK
<1>4. PartReached'
  BY <1>1, <1>2, SmartWriting DEF PartReached, SW!Steps
<1>5. GoodBundles' /\ OwedHaveJournals' /\ GateStands' /\ Saving'
  BY <1>1 DEF GoodBundles, OwedHaveJournals, GateStands, Saving
<1> QED BY <1>1, <1>3, <1>4, <1>5 DEF JobHasBundle, JobWasShown

(* What interrupting a run may make of the part it writes.                  *)
LEMMA SmartTaken ==
    ASSUME SmartInv, phase = "writing", index <= Len(SW!Steps),
           SW!Destructive(SW!Current),
           \E cells \in SUBSET SW!StepRange(SW!Current) : SW!Take(cells), SW!Owing
    PROVE  /\ mem' \in [Part -> SW!Image] /\ owed' \subseteq SW!Ids
           /\ \A b \in owed' : bundles[b].journal = "whole"
<1>1. PICK cells : mem' = [mem EXCEPT ![socket] = SW!Effect(@, SW!Current, cells)]
  BY DEF SW!Take
<1>2. SW!Effect(mem[socket], SW!Current, cells) \in SW!Image
  <2>1. mem[socket] \in SW!Image /\ SW!Current \in SW!Step
    BY SmartWriting DEF SW!Current
  <2>2. SW!Current.data \in SW!Image
    BY <2>1 DEF SW!Step
  <2> QED BY <2>1, <2>2 DEF SW!Effect, SW!Image, SW!Byte, SW!Erased
<1>3. mem' \in [Part -> SW!Image]
  BY <1>1, <1>2, SmartWriting
<1>4. owed' = owed \cup {job.bundle} /\ owed \subseteq SW!Ids
      /\ \A b \in owed : bundles[b].journal = "whole"
  BY DEF SW!Owing, SmartInv, SW!TypeOK, OwedHaveJournals
<1> QED BY <1>3, <1>4, SmartWriting

LEMMA SmartInterrupt ==
    ASSUME SmartInv, SW!Interrupt
    PROVE  SmartInv'
<1> USE SmartSets DEF SmartInv, SW!disk, SW!ui
<1>1. /\ phase = "writing" /\ phase' = "idle" /\ job' = None /\ index' = 0
      /\ UNCHANGED <<socket, bundles, tampering, buffer, requested, gate, shown,
                     promised, crashes>>
  BY DEF SW!Interrupt
<1>2. /\ mem' \in [Part -> SW!Image] /\ owed' \subseteq SW!Ids
      /\ \A b \in owed' : bundles[b].journal = "whole"
  BY SmartTaken DEF SW!Interrupt, SW!TypeOK, OwedHaveJournals
<1>3. SW!TypeOK'
  BY <1>1, <1>2 DEF SW!TypeOK
<1> QED BY <1>1, <1>2, <1>3 DEF GoodBundles, OwedHaveJournals, GateStands, Saving,
       JobHasBundle, JobWasShown, PartReached, Begun

LEMMA SmartSucceed ==
    ASSUME SmartInv, SW!Succeed
    PROVE  SmartInv'
<1> USE SmartSets DEF SmartInv
<1>1. /\ phase = "writing" /\ index > Len(SW!Steps) /\ phase' = "succeeded"
      /\ owed' = owed \ {job.bundle} /\ requested' = 0
      /\ UNCHANGED <<mem, socket, tampering, buffer, gate, shown, job, index,
                     promised, crashes>>
  BY DEF SW!Succeed
<1>2. /\ bundles \in [SW!Ids -> SW!Bundle] /\ owed \subseteq SW!Ids
      /\ job \in SW!Job
  BY <1>1 DEF SW!TypeOK
<1>3. /\ bundles' \in [SW!Ids -> SW!Bundle] /\ GoodBundles'
      /\ \A b \in SW!Ids : b # job.bundle => bundles'[b] = bundles[b]
      /\ \A b \in SW!Ids : bundles'[b].part = bundles[b].part
  <2>1. CASE UNCHANGED bundles
    BY <1>1, <1>2, <2>1 DEF GoodBundles
  <2>2. CASE job.bundle # 0 /\ bundles' = [bundles EXCEPT ![job.bundle].journal = "deleted"]
    <3> DEFINE x == bundles[job.bundle]
               y == [x EXCEPT !.journal = "deleted"]
    <3>1. job.bundle \in SW!Ids
      BY <1>2, <2>2 DEF SW!Job, SW!Ids
    <3>2. bundles' = [bundles EXCEPT ![job.bundle] = y] /\ x \in SW!Bundle
      BY <1>2, <2>2, <3>1
    <3>3. /\ y \in SW!Bundle /\ y.journal = "deleted"
          /\ y.part = x.part /\ y.backup = x.backup /\ y.image = x.image
          /\ y.backupHash = x.backupHash /\ y.imageHash = x.imageHash
      BY <3>2 DEF SW!Bundle
    <3>4. x.journal = "whole"
      BY <1>1, <2>2 DEF JobHasBundle, Begun
    <3>5. GoodBundle(y, promised[job.bundle], tampering = 0)
      BY <3>1, <3>3, <3>4 DEF GoodBundles, GoodBundle
    <3> HIDE DEF y
    <3>6. /\ bundles'[job.bundle] = y /\ bundles' \in [SW!Ids -> SW!Bundle]
          /\ \A b \in SW!Ids : b # job.bundle => bundles'[b] = bundles[b]
      BY <1>2, <3>1, <3>2, <3>3
    <3> QED BY <1>1, <3>1, <3>3, <3>5, <3>6 DEF GoodBundles
  <2> QED BY <2>1, <2>2 DEF SW!Succeed
<1>4. SW!TypeOK'
  BY <1>1, <1>3 DEF SW!TypeOK, SW!Steps
<1>5. OwedHaveJournals'
  BY <1>1, <1>2, <1>3 DEF OwedHaveJournals
<1>6. PartReached'
  BY <1>1, SmartWriting, ReachedEnd DEF PartReached
<1>7. JobHasBundle'
  BY <1>1, <1>2, <1>3 DEF JobHasBundle, Begun, SW!Job, SW!Ids
<1> QED BY <1>1, <1>3, <1>4, <1>5, <1>6, <1>7 DEF GateStands, Saving, JobWasShown, Begun

LEMMA SmartTamper ==
    ASSUME SmartInv, NEW b \in SW!Ids, SW!Tamper(b)
    PROVE  SmartInv'
<1> USE SmartSets DEF SmartInv, SW!ui, SW!ghost
<1>1. /\ tampering < MaxTampering /\ tampering' = tampering + 1
      /\ bundles[b].journal = "whole"
      /\ UNCHANGED <<mem, socket, buffer, requested, gate, shown, phase, job, index,
                     promised, owed, crashes>>
  BY DEF SW!Tamper
<1>2. /\ bundles \in [SW!Ids -> SW!Bundle] /\ owed \subseteq SW!Ids
      /\ tampering \in 0 .. MaxTampering
  BY DEF SW!TypeOK
<1>3. tampering' \in 0 .. MaxTampering /\ tampering' # 0
  BY <1>1, <1>2
<1>4. PICK y \in SW!Bundle :
         /\ bundles' = [bundles EXCEPT ![b] = y]
         /\ y.part = bundles[b].part /\ y.journal = "whole"
         /\ y.backupHash = bundles[b].backupHash /\ y.imageHash = bundles[b].imageHash
         /\ y.backup \in SW!Image /\ y.image \in SW!Patch
  <2>1. /\ bundles[b] \in SW!Bundle
        /\ bundles[b].backup \in SW!Image /\ bundles[b].image \in SW!Patch
    BY <1>1, <1>2 DEF GoodBundles, GoodBundle
  <2>2. ASSUME NEW c \in Contents, bundles' = [bundles EXCEPT ![b].backup = c]
        PROVE  \E y \in SW!Bundle :
                  /\ bundles' = [bundles EXCEPT ![b] = y]
                  /\ y.part = bundles[b].part /\ y.journal = "whole"
                  /\ y.backupHash = bundles[b].backupHash
                  /\ y.imageHash = bundles[b].imageHash
                  /\ y.backup \in SW!Image /\ y.image \in SW!Patch
    <3> DEFINE z == [bundles[b] EXCEPT !.backup = c]
    <3>1. bundles' = [bundles EXCEPT ![b] = z]
      BY <2>2
    <3>2. /\ z \in SW!Bundle /\ z.part = bundles[b].part /\ z.journal = "whole"
          /\ z.backupHash = bundles[b].backupHash
          /\ z.imageHash = bundles[b].imageHash
          /\ z.backup \in SW!Image /\ z.image \in SW!Patch
      BY <1>1, <2>1 DEF SW!Bundle
    <3> HIDE DEF z
    <3> QED BY <3>1, <3>2
  <2>3. ASSUME NEW p \in Patches, bundles' = [bundles EXCEPT ![b].image = p]
        PROVE  \E y \in SW!Bundle :
                  /\ bundles' = [bundles EXCEPT ![b] = y]
                  /\ y.part = bundles[b].part /\ y.journal = "whole"
                  /\ y.backupHash = bundles[b].backupHash
                  /\ y.imageHash = bundles[b].imageHash
                  /\ y.backup \in SW!Image /\ y.image \in SW!Patch
    <3> DEFINE z == [bundles[b] EXCEPT !.image = p]
    <3>1. bundles' = [bundles EXCEPT ![b] = z]
      BY <2>3
    <3>2. /\ z \in SW!Bundle /\ z.part = bundles[b].part /\ z.journal = "whole"
          /\ z.backupHash = bundles[b].backupHash
          /\ z.imageHash = bundles[b].imageHash
          /\ z.backup \in SW!Image /\ z.image \in SW!Patch
      BY <1>1, <2>1 DEF SW!Bundle
    <3> HIDE DEF z
    <3> QED BY <3>1, <3>2
  <2> QED BY <2>2, <2>3 DEF SW!Tamper
<1>5. /\ bundles' \in [SW!Ids -> SW!Bundle] /\ bundles'[b] = y
      /\ \A c \in SW!Ids : c # b => bundles'[c] = bundles[c]
  BY <1>2, <1>4
<1>6. \A c \in SW!Ids : /\ bundles'[c].part = bundles[c].part
                        /\ bundles'[c].journal = bundles[c].journal
  BY <1>1, <1>4, <1>5
<1>7. SW!TypeOK'
  BY <1>1, <1>3, <1>5 DEF SW!TypeOK, SW!Steps
<1>8. GoodBundles'
  <2>1. GoodBundle(y, promised[b], tampering' = 0)
    BY <1>1, <1>3, <1>4 DEF GoodBundles, GoodBundle
  <2>2. \A c \in SW!Ids : GoodBundle(bundles[c], promised[c], tampering' = 0)
    BY <1>3 DEF GoodBundles, GoodBundle
  <2> QED BY <1>1, <1>5, <2>1, <2>2 DEF GoodBundles
<1>9. OwedHaveJournals'
  BY <1>1, <1>2, <1>6 DEF OwedHaveJournals
<1>10. Saving'
  <2>1. phase \in {"image", "journal"} => job.bundle # b
    BY <1>1 DEF Saving, SavedFor
  <2> QED BY <1>1, <1>5, <2>1 DEF Saving
<1>11. JobHasBundle'
  <2>1. phase \in Begun /\ job.bundle # 0 => job.bundle \in SW!Ids
    BY DEF SW!TypeOK, Begun, SW!Job, SW!Ids
  <2> QED BY <1>1, <1>6, <2>1 DEF JobHasBundle
<1> QED BY <1>1, <1>7, <1>8, <1>9, <1>10, <1>11 DEF GateStands, JobWasShown, PartReached, SW!Steps

(* What a power cut may leave of a bundle: what was being written, or a      *)
(* deletion undone.                                                        *)
LEMMA SmartLeft ==
    ASSUME SmartInv, NEW b \in SW!Ids, NEW y, y \in SW!Left(b)
    PROVE  /\ y \in SW!Bundle /\ GoodBundle(y, promised[b], tampering = 0)
           /\ bundles[b].journal = "whole" => y.journal = "whole"
<1> USE SmartSets DEF SmartInv
<1> DEFINE x == bundles[b]
<1>1. x \in SW!Bundle /\ GoodBundle(x, promised[b], tampering = 0)
  BY DEF SW!TypeOK, GoodBundles
<1>2. phase \in {"image", "journal"} =>
         /\ job \in SW!Job /\ SavedFor(bundles[job.bundle], job, phase = "journal")
         /\ promised[job.bundle] = SW!Patched(job.before, job.patch)
  BY DEF SW!TypeOK, Saving, JobHasBundle, Begun, SW!Ids
<1>3. CASE phase = "image" /\ b = job.bundle
  <2> DEFINE z(i) == [x EXCEPT !.image = i]
  <2>1. PICK i \in {x.image, job.patch} : y = z(i)
    <3>1. phase # "journal" /\ bundles[b].journal # "deleted"
      BY <1>2, <1>3 DEF SavedFor
    <3>2. SW!Left(b) = {[bundles[b] EXCEPT !.image = i] : i \in {bundles[b].image, job.patch}}
      BY <1>3, <3>1 DEF SW!Left
    <3> QED BY <3>2
  <2>2. z(i) \in SW!Bundle /\ z(i).journal = x.journal
    <3>1. job.patch \in SW!Patch
      BY <1>2, <1>3 DEF SW!Job
    <3> QED BY <1>1, <2>1, <3>1 DEF SW!Bundle
  <2>3. x.journal = "none"
    BY <1>2, <1>3 DEF SavedFor
  <2> HIDE DEF z
  <2> QED BY <1>1, <2>1, <2>2, <2>3 DEF GoodBundle
<1>4. CASE phase = "journal" /\ b = job.bundle
  <2> DEFINE z(j) == [x EXCEPT !.journal = j]
  <2>1. PICK j \in {"none", "torn", "whole"} : y = z(j)
    BY <1>4 DEF SW!Left
  <2>2. /\ z(j) \in SW!Bundle /\ z(j).journal = j
        /\ z(j).part = x.part /\ z(j).backup = x.backup /\ z(j).image = x.image
        /\ z(j).backupHash = x.backupHash /\ z(j).imageHash = x.imageHash
    BY <1>1 DEF SW!Bundle
  <2>3. /\ x.part = job.part /\ x.backup = job.before /\ x.backupHash = job.before
        /\ x.imageHash = job.patch /\ x.image = job.patch /\ x.journal = "none"
    BY <1>2, <1>4 DEF SavedFor
  <2>4. job.part \in Part /\ job.before \in SW!Image /\ job.patch \in SW!Patch
    BY <1>2, <1>4 DEF SW!Job
  <2> HIDE DEF z
  <2> QED BY <1>2, <1>4, <2>1, <2>2, <2>3, <2>4 DEF GoodBundle
<1>5. CASE /\ ~(phase = "image" /\ b = job.bundle) /\ ~(phase = "journal" /\ b = job.bundle)
           /\ x.journal = "deleted"
  <2> DEFINE z(j) == [x EXCEPT !.journal = j]
  <2>1. PICK j \in {"none", "whole"} : y = z(j)
    BY <1>5 DEF SW!Left
  <2>2. /\ z(j) \in SW!Bundle /\ z(j).journal = j
        /\ z(j).part = x.part /\ z(j).backup = x.backup /\ z(j).image = x.image
        /\ z(j).backupHash = x.backupHash /\ z(j).imageHash = x.imageHash
    BY <1>1 DEF SW!Bundle
  <2> HIDE DEF z
  <2> QED BY <1>1, <1>5, <2>1, <2>2 DEF GoodBundle
<1>6. CASE /\ ~(phase = "image" /\ b = job.bundle) /\ ~(phase = "journal" /\ b = job.bundle)
           /\ x.journal # "deleted"
  <2>1. y = x
    BY <1>6 DEF SW!Left
  <2> QED BY <1>1, <2>1
<1> QED BY <1>3, <1>4, <1>5, <1>6

LEMMA SmartCrash ==
    ASSUME SmartInv, SW!Crash
    PROVE  SmartInv'
<1> USE SmartSets DEF SmartInv
<1>1. /\ crashes < MaxCrashes /\ crashes' = crashes + 1
      /\ buffer' = None /\ requested' = 0 /\ gate' = None /\ shown' = None
      /\ phase' = "idle" /\ job' = None /\ index' = 0
      /\ UNCHANGED <<socket, tampering, promised>>
  BY DEF SW!Crash
<1>2. /\ mem' \in [Part -> SW!Image] /\ owed' \subseteq SW!Ids
      /\ \A b \in owed' : bundles[b].journal = "whole"
  BY SmartTaken DEF SW!Crash, SW!TypeOK, OwedHaveJournals
<1>3. \A b \in SW!Ids : /\ bundles'[b] \in SW!Bundle
                        /\ GoodBundle(bundles'[b], promised[b], tampering = 0)
                        /\ bundles[b].journal = "whole" => bundles'[b].journal = "whole"
  BY SmartLeft DEF SW!Crash
<1>4. bundles' \in [SW!Ids -> SW!Bundle]
  BY <1>3 DEF SW!Crash
<1>5. crashes' \in 0 .. MaxCrashes
  BY <1>1 DEF SW!TypeOK
<1>6. SW!TypeOK'
  BY <1>1, <1>2, <1>4, <1>5 DEF SW!TypeOK
<1>7. GoodBundles' /\ OwedHaveJournals'
  BY <1>1, <1>2, <1>3 DEF GoodBundles, OwedHaveJournals
<1> QED BY <1>1, <1>6, <1>7
       DEF GateStands, Saving, JobHasBundle, JobWasShown, PartReached, Begun

LEMMA SmartStep ==
    ASSUME SmartInv, SW!Next
    PROVE  SmartInv'
BY SmartQuiet, SmartRequest, SmartRead, SmartChoose, SmartImage, SmartJournal,
   SmartOpen, SmartChange, SmartVerify, SmartInterrupt, SmartSucceed, SmartTamper,
   SmartCrash DEF SW!Next

LEMMA SmartStutter == SmartInv /\ UNCHANGED SW!vars => SmartInv'
<1> SUFFICES ASSUME SmartInv, UNCHANGED SW!vars PROVE SmartInv'
  OBVIOUS
<1> USE DEF SmartInv, SW!vars, SW!disk, SW!ui, SW!ghost
<1>1. SW!TypeOK'
  BY DEF SW!TypeOK, SW!Steps
<1>2. GoodBundles' /\ OwedHaveJournals' /\ Saving' /\ JobHasBundle'
  BY DEF GoodBundles, OwedHaveJournals, Saving, JobHasBundle
<1>3. GateStands' /\ JobWasShown' /\ PartReached'
  BY DEF GateStands, JobWasShown, PartReached, SW!Steps
<1> QED BY <1>1, <1>2, <1>3

SuiteSmart == subject = "smart" => SmartInv

LEMMA SuiteSmartInvariant == Spec => []SuiteSmart
<1>1. Init => SuiteSmart
  BY SmartInit DEF Init, SuiteSmart
<1>2. SuiteSmart /\ [Next]_vars => SuiteSmart'
  BY SmartStep, SmartStutter
     DEF Next, SuiteSmart, vars, SW!vars, SW!disk, SW!ui, SW!ghost
<1> QED BY <1>1, <1>2, PTL DEF Spec

(* Whenever a job has changed a part and has not come to its end, a whole    *)
(* journal on the disk names the part, and unless somebody changed a file    *)
(* the backup and the image with it make the very content the job was to     *)
(* leave, through every failed save, power cut, exchange and interruption    *)
(* (recoveryworkflow.pas, PrepareRecovery).                                 *)
THEOREM AlwaysStaysRecoverable == Spec => []AlwaysRecoverable
<1>1. SmartInv => SW!TypeOK /\ SW!AlwaysRecoverable
  <2> SUFFICES ASSUME SmartInv PROVE SW!AlwaysRecoverable
    BY DEF SmartInv
  <2>1. owed \subseteq SW!Ids
    BY DEF SmartInv, SW!TypeOK
  <2> QED BY <2>1, SmartSets DEF SmartInv, SW!AlwaysRecoverable, OwedHaveJournals,
          GoodBundles, GoodBundle, SW!Desired
<1>2. SuiteSmart => AlwaysRecoverable
  BY <1>1 DEF SuiteSmart, AlwaysRecoverable
<1> QED BY <1>2, SuiteSmartInvariant, PTL

(* A run that succeeds leaves on the part exactly what was promised: a       *)
(* fresh job its patch over what was read, a recovery what the job it takes   *)
(* up was to leave, outside the patch too (recoveryworkflow.pas).           *)
THEOREM SuccessAlwaysKeepsPromise == Spec => []SuccessKeepsPromise
<1>1. SmartInv => SW!SuccessKeepsPromise
  BY DEF SmartInv, SW!SuccessKeepsPromise, PartReached, JobHasBundle, Begun
<1>2. SuiteSmart => SuccessKeepsPromise
  BY <1>1 DEF SuiteSmart, SuccessKeepsPromise
<1> QED BY <1>2, SuiteSmartInvariant, PTL

(* Where a user is asked, what is written was shown to him before, for this    *)
(* part and from this content; everywhere only the part the job was accepted   *)
(* for, and a recovery's journal names, is written                          *)
(* (ConfirmSmartWritePreview; writeworkflow.pas, TInlineWriteGate).         *)
THEOREM AcceptedWasAlwaysShown == Spec => []AcceptedWasShown
<1>1. SmartInv => SW!AcceptedWasShown
  <2> SUFFICES ASSUME SmartInv, phase \in {"image", "journal", "open", "writing"},
                      job.asked
               PROVE  /\ shown # None
                      /\ shown.recovers = job.recovers /\ shown.part = job.part
                      /\ SW!Plan(shown) = SW!Plan(job)
    BY DEF SW!AcceptedWasShown
  <2>1. shown \in SW!Job /\ Same(shown, job)
    BY DEF SmartInv, JobWasShown, Begun
  <2> QED BY <2>1, SmartSets DEF Same, SW!Plan
<1>2. SmartInv => SW!OwnChipOnly
  BY DEF SmartInv, SW!OwnChipOnly, PartReached, JobHasBundle, Begun
<1>3. SuiteSmart => AcceptedWasShown
  BY <1>1, <1>2 DEF SuiteSmart, AcceptedWasShown
<1> QED BY <1>3, SuiteSmartInvariant, PTL
=============================================================================
