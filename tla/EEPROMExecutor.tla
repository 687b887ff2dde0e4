--------------------------- MODULE EEPROMExecutor ---------------------------
(***************************************************************************)
(* TEEPROMPlanExecutor.Execute (eepromengine.pas) over a TEEPROMSession    *)
(* (eepromsession.pas) and one of the three adapters (eepromadapters.pas): *)
(* a plan of page writes and verify reads on a serial EEPROM.  The worker, *)
(* the thread that may cancel it and the part interleave; each call may    *)
(* fail or raise, with its bytes sent or not.                              *)
(***************************************************************************)
EXTENDS OperationModel, Sequences, FiniteSets

CONSTANTS
    Pages,      \* the pages of the part
    Jobs,       \* what a caller may ask for
    Contents,   \* what the part may hold when the run begins
    Faults      \* how a call may fail: some IOErrors, or "raised"

(* The patch touches the pages of patched and differs in those of changed   *)
(* from the snapshot, where each page is "old".  valid stands for the       *)
(* checks on request and plan, evidence for RequireEvidenceCommit.         *)
Job == [bus : {"spi", "i2c", "mw"}, patched : SUBSET Pages, changed : SUBSET Pages,
        valid : BOOLEAN, evidence : BOOLEAN]
Cell == {"old", "new", "torn"}

EEPROMAssumption ==
    /\ Pages \subseteq Nat \ {0} /\ IsFiniteSet(Pages)
    /\ Jobs \subseteq {j \in Job : j.changed \subseteq j.patched}
    /\ Contents \subseteq [Pages -> Cell]
    /\ Faults \subseteq IOErrors \cup {"raised"}

VARIABLES
    job, executing, foreign,
    pc, ret, op, pending, step, cancelled, token,
    ses,        \* the executor's Opened and Initialized
    dev,        \* FOpened, FBusStarted, FFirstSession; FWriteEnabled of the 93xx
    chip        \* the pages, the one in its write cycle or 0, WEL or EWEN

vars == <<job, executing, foreign, pc, ret, op, pending, step, cancelled, token,
          ses, dev, chip>>
given == <<job, foreign>>

(* BuildEEPROMDifferentialPlan: the pages that differ are written, then all *)
(* pages of the patch are verified.                                        *)
Step(kind, page) == [kind |-> kind, page |-> page]
Nth(pages, i) == CHOOSE p \in pages : Cardinality({q \in pages : q < p}) = i - 1
InOrder(kind, pages) == [i \in 1 .. Cardinality(pages) |-> Step(kind, Nth(pages, i))]
Steps == InOrder("write", job.changed) \o InOrder("verify", job.patched)
Current == Steps[step]
Wanted(page) == IF page \in job.changed THEN "new" ELSE "old"
Snapshot == [p \in Pages |-> "old"]
Idle == chip.busy = 0

Init ==
    /\ job \in Jobs
    /\ executing \in BOOLEAN /\ foreign = executing
    /\ pc = "start" /\ ret = "finish"
    /\ op = NewOutcome /\ pending = NoPending
    /\ step = 1 /\ cancelled = FALSE /\ token = FALSE
    /\ ses = [opened |-> FALSE, inited |-> FALSE]
    /\ dev = [opened |-> FALSE, started |-> FALSE, first |-> TRUE, enabled |-> FALSE]
    /\ \E mem \in Contents : chip = [mem |-> mem, busy |-> 0, armed |-> FALSE]

-----------------------------------------------------------------------------
Error(f) == IF f = "raised" THEN "transport" ELSE f
Erroneous(f) == f \in Faults \ {"raised"}
Fails(p) == pending' = p /\ pc' = "quiesce"
Unwind == "raised" \in Faults /\ pc' = "unwind" /\ UNCHANGED pending

(* PerformCleanup, returning to next.                                      *)
Cleanup(next) ==
    /\ ret' = next
    /\ pc' = IF ses.inited THEN "deinitialize" ELSE IF ses.opened THEN "close" ELSE next

Begin ==
    /\ pc = "start"
    /\ IF executing
       THEN /\ op' = Fail(Start(op), "internalState", ddNotOpened)
            /\ pc' = "done"
            /\ UNCHANGED <<executing, pending>>
       ELSE LET validating == AdvanceTo(Start(op), opValidating) IN
            /\ executing' = TRUE
            /\ IF job.valid
               THEN /\ op' = AdvanceTo(AdvanceTo(validating, opReservingDevice), opOpening)
                    /\ pc' = "open"
                    /\ UNCHANGED pending
               ELSE /\ op' = validating
                    /\ Fails(SetPending(pending, "invalid", ddNotOpened))
    /\ UNCHANGED <<given, ret, step, cancelled, token, ses, dev, chip>>

(* TEEPROMSession.Open closes itself when it fails after DevOpen.          *)
Open(at, next) ==
    /\ pc = at
    /\ \/ /\ dev' = [dev EXCEPT !.opened = TRUE]
          /\ ses' = [ses EXCEPT !.opened = TRUE]
          /\ pending' = IF at = "open" THEN [pending EXCEPT !.disp = ddKnownSafe]
                        ELSE pending
          /\ op' = IF at = "open" THEN AdvanceTo(op, opInitializingBus) ELSE op
          /\ pc' = next
       \/ /\ \/ \E f \in Faults : Erroneous(f) /\ Fails(FailFromIO(pending, f, "openFailed", FALSE))
             \/ Unwind
          /\ UNCHANGED <<dev, ses, op>>
    /\ UNCHANGED <<given, executing, ret, step, cancelled, token, chip>>

(* Mutant: the first session does not compare the planning snapshot.       *)
SnapshotUnread == TRUE

SnapshotAgrees == dev.first => chip.mem = Snapshot

(* TEEPROMSession.Initialize: cleanup is owed before the bus is known to    *)
(* work, and the first session reads the whole part.                       *)
Initialize(at, next) ==
    /\ pc = at
    /\ \/ /\ SnapshotAgrees
          /\ dev' = [dev EXCEPT !.started = TRUE, !.enabled = FALSE, !.first = FALSE]
          /\ ses' = [ses EXCEPT !.inited = TRUE]
          /\ op' = IF at = "initialize" THEN AdvanceTo(AdvanceTo(op, opPlanning), opExecuting)
                   ELSE op
          /\ step' = 1
          /\ pc' = next
          /\ UNCHANGED pending
       \/ /\ dev' = [dev EXCEPT !.started = TRUE]
          /\ \/ \E f \in (Faults \ {"raised"}) \cup {"rejected"} :
                   Fails(FailFromIO(pending, f, "busInitFailed", FALSE))
             \/ Unwind
          /\ UNCHANGED <<ses, op, step>>
    /\ UNCHANGED <<given, executing, ret, cancelled, token, chip>>

-----------------------------------------------------------------------------
(* The step loop, with TryBeginCriticalCommand before a write.             *)
NextStep ==
    /\ pc = "loop"
    /\ IF step > Len(Steps) THEN pc' = "verified" /\ UNCHANGED <<cancelled, op>>
       ELSE IF token THEN cancelled' = TRUE /\ pc' = "quiesce" /\ UNCHANGED op
       ELSE IF Current.kind = "verify" THEN pc' = "verify" /\ UNCHANGED <<cancelled, op>>
       ELSE pc' = "write" /\ op' = BeginCritical(op) /\ UNCHANGED cancelled
    /\ UNCHANGED <<given, executing, ret, pending, step, token, ses, dev, chip>>

(* Each 95xx page needs a WREN of its own, the 93xx one EWEN for a session. *)
Arming == job.bus = "spi" \/ (job.bus = "mw" /\ ~dev.enabled)
Armed(c) == IF Arming THEN [c EXCEPT !.armed = TRUE] ELSE c
Works(c) == [Armed(c) EXCEPT !.busy = Current.page]

(* Mutant: a failed write is taken for one that never left.                *)
WriteFailedKnown(f) ==
    /\ Fails(FailFromIO(pending, Error(f), "commandRejected", FALSE))
    /\ op' = EndCritical(op)

WriteFailed(f) ==
    /\ Fails(FailFromIO(pending, Error(f), "commandRejected", TRUE))
    /\ op' = EndCritical(op)

(* WritePage until its bytes are sent.  A write-protected page takes them   *)
(* and does nothing, and a failed call may have done all or part.          *)
WritePage ==
    /\ pc = "write"
    /\ dev' = [dev EXCEPT !.enabled = @ \/ job.bus = "mw"]
    /\ \/ /\ chip' \in {Works(chip), Armed(chip)}
          /\ pc' = "settle"
          /\ UNCHANGED <<pending, op>>
       \/ /\ chip' \in {chip, Armed(chip), Works(chip)}
          /\ \E f \in Faults \cup {"rejected"} : WriteFailed(f)
    /\ UNCHANGED <<given, executing, ret, step, cancelled, token, ses>>

(* WaitReady, and what the executor does with the answer.                  *)
WaitReady ==
    /\ pc = "settle"
    /\ \/ /\ Idle
          /\ op' = EndCritical(op)
          /\ step' = step + 1
          /\ cancelled' = token
          /\ pc' = IF token THEN "quiesce" ELSE "loop"
          /\ UNCHANGED pending
       \/ /\ \E f \in Faults \cup {"timeout"} : WriteFailed(f)
          /\ UNCHANGED <<step, cancelled>>
    /\ UNCHANGED <<given, executing, ret, token, ses, dev, chip>>

(* Mutant: a verify read is not compared.                                  *)
MatchesAny == TRUE

Matches == chip.mem[Current.page] = Wanted(Current.page)

ReadPage(at, next) ==
    /\ pc = at
    /\ \/ Matches /\ step' = step + 1 /\ pc' = next /\ UNCHANGED pending
       \/ /\ \/ \E code \in {"verifyMismatch", "shortTransfer"} :
                   Fails(SetPending(pending, code, ddKnownSafe))
             \/ \E f \in Faults : Erroneous(f) /\ Fails(FailFromIO(pending, f, "transport", FALSE))
             \/ Unwind
          /\ UNCHANGED step
    /\ UNCHANGED <<given, executing, ret, op, cancelled, token, ses, dev, chip>>

PhysicallyVerified ==
    /\ pc = "verified"
    /\ op' = [AdvanceTo(op, opVerifying) EXCEPT !.physical = TRUE]
    /\ Cleanup("fresh")
    /\ UNCHANGED <<given, executing, pending, step, cancelled, token, ses, dev, chip>>

FreshSession ==
    /\ pc = "fresh"
    /\ cancelled' = (pending.code = "none" /\ token)
    /\ pc' = IF pending.code # "none" \/ token THEN "quiesce" ELSE "reopen"
    /\ UNCHANGED <<given, executing, ret, op, pending, step, token, ses, dev, chip>>

(* The second session reads the verify steps again.                        *)
FreshLoop ==
    /\ pc = "reloop"
    /\ IF step > Len(Steps)
       THEN op' = [op EXCEPT !.fresh = TRUE] /\ pc' = "quiesce" /\ UNCHANGED <<step, cancelled>>
       ELSE /\ IF Current.kind = "write" THEN step' = step + 1 /\ UNCHANGED <<pc, cancelled>>
               ELSE /\ pc' = IF token THEN "quiesce" ELSE "reverify"
                    /\ cancelled' = token
                    /\ UNCHANGED step
            /\ UNCHANGED op
    /\ UNCHANGED <<given, executing, ret, pending, token, ses, dev, chip>>

-----------------------------------------------------------------------------
Quiesce ==
    /\ pc = "quiesce"
    /\ op' = IF op.phase < opQuiescing THEN AdvanceTo(op, opQuiescing) ELSE op
    /\ Cleanup("finish")
    /\ UNCHANGED <<given, executing, pending, step, cancelled, token, ses, dev, chip>>

(* Mutant: a session that could not initialize leaves its bus alone.       *)
OwesOnlyInitialized == ses.inited

OwesTheBus == dev.started

(* TEEPROMSession.Deinitialize and EndBus: WRDI, or EWDS after an EWEN.  A  *)
(* part in its write cycle does not hear it.                               *)
Disarms == job.bus = "spi" \/ (job.bus = "mw" /\ dev.enabled)
Disarmed == IF Disarms /\ Idle THEN [chip EXCEPT !.armed = FALSE] ELSE chip
CleanupFails == SetPending(pending, "cleanupFailed", ddModeUnknown)
EndBus ==
    /\ dev' = [dev EXCEPT !.started = FALSE, !.enabled = FALSE,
                          !.opened = @ /\ pc = "deinitialize"]
    /\ \/ chip' = Disarmed /\ pending' \in {pending} \cup {CleanupFails : f \in Faults}
       \/ chip' = chip /\ pending' = CleanupFails

Deinitialize ==
    /\ pc = "deinitialize"
    /\ EndBus
    /\ ses' = [ses EXCEPT !.inited = FALSE]
    /\ pc' = "close"
    /\ UNCHANGED <<given, executing, ret, op, step, cancelled, token>>

(* TEEPROMSession.Close ends a bus that was started and not ended.         *)
Close ==
    /\ pc = "close"
    /\ ses' = [ses EXCEPT !.opened = FALSE]
    /\ IF OwesTheBus THEN EndBus
       ELSE /\ dev' = [dev EXCEPT !.opened = FALSE]
            /\ pending' \in {pending, CleanupFails}
            /\ UNCHANGED chip
    /\ pc' = ret
    /\ UNCHANGED <<given, executing, ret, op, step, cancelled, token>>

Terminate(o) == op' = o /\ pc' = "done" /\ executing' = FALSE
TerminateFailed(p) == pending' = p /\ Terminate(Fail(op, p.code, p.disp))

Finish ==
    /\ pc = "finish"
    /\ IF pending.code # "none" THEN TerminateFailed(pending)
       ELSE /\ IF cancelled THEN Terminate(Cancel(op, ddKnownSafe))
               ELSE IF job.evidence
               THEN /\ op' = AdvanceTo(op, opCommittingEvidence)
                    /\ pc' = "commit"
                    /\ UNCHANGED executing
               ELSE Terminate(Complete(op))
            /\ UNCHANGED pending
    /\ UNCHANGED <<given, ret, step, cancelled, token, ses, dev, chip>>

(* The handler may also raise: nothing is open then, and the code says so. *)
CommitEvidence ==
    /\ pc = "commit"
    /\ \/ Terminate(Complete(op)) /\ UNCHANGED pending
       \/ TerminateFailed(SetPending(pending, "evidenceFailed", ddKnownSafe))
       \/ Unwind /\ UNCHANGED <<op, executing>>
    /\ UNCHANGED <<given, ret, step, cancelled, token, ses, dev, chip>>

(* The finally and except clauses.  WritePage's exceptions do not get here. *)
Finally ==
    /\ pc = "unwind"
    /\ Cleanup("except")
    /\ UNCHANGED <<given, executing, op, pending, step, cancelled, token, ses, dev, chip>>

ExceptClause ==
    /\ pc = "except"
    /\ TerminateFailed(IF pending.code = "none"
                       THEN SetPending(pending, "transport", ddModeUnknown) ELSE pending)
    /\ UNCHANGED <<given, ret, step, cancelled, token, ses, dev, chip>>

-----------------------------------------------------------------------------
(* The write cycle ends; a worn page may not have taken it.  It clears WEL. *)
ChipSettles ==
    /\ ~Idle
    /\ \E cell \in {"new", "torn"} :
          chip' = [mem |-> [chip.mem EXCEPT ![chip.busy] = cell], busy |-> 0,
                   armed |-> chip.armed /\ job.bus = "mw"]
    /\ UNCHANGED <<given, executing, pc, ret, op, pending, step, cancelled, token, ses, dev>>

RequestCancellation ==
    /\ pc # "done" /\ ~token
    /\ token' = TRUE
    /\ UNCHANGED <<given, executing, pc, ret, op, pending, step, cancelled, ses, dev, chip>>

Next ==
    \/ Begin \/ Open("open", "initialize") \/ Initialize("initialize", "loop") \/ NextStep
    \/ WritePage \/ WaitReady \/ ReadPage("verify", "loop") \/ PhysicallyVerified
    \/ FreshSession \/ Open("reopen", "reinitialize") \/ Initialize("reinitialize", "reloop")
    \/ FreshLoop \/ ReadPage("reverify", "reloop") \/ Quiesce \/ Deinitialize \/ Close
    \/ Finish \/ CommitEvidence \/ Finally \/ ExceptClause
    \/ ChipSettles \/ RequestCancellation

Spec == Init /\ [][Next]_vars

-----------------------------------------------------------------------------
TypeOK ==
    /\ job \in Jobs /\ executing \in BOOLEAN /\ op \in Outcomes /\ pending \in Pendings
    /\ step \in 1 .. Len(Steps) + 1
    /\ ses \in [opened : BOOLEAN, inited : BOOLEAN]
    /\ dev \in [opened : BOOLEAN, started : BOOLEAN, first : BOOLEAN, enabled : BOOLEAN]
    /\ chip \in [mem : [Pages -> Cell], busy : Pages \cup {0}, armed : BOOLEAN]

Holds == \A p \in job.patched : chip.mem[p] = Wanted(p)

(* A part that is reported safe is at rest and write-disabled for the next  *)
(* tool, whatever failed (eepromadapters.pas:249).                         *)
SafeMeansDisarmed == IsTerminal(op) /\ op.disp = ddKnownSafe => Idle /\ ~chip.armed

(* Success: the patch is in its pages and the snapshot in all others.       *)
SuccessMeansWritten ==
    op.status = "succeeded" => /\ chip.mem = [p \in Pages |-> Wanted(p)]
                               /\ op.physical /\ op.fresh /\ Idle

(* A write goes out only to a part whose pages are still those the plan was *)
(* made from, apart from the ones this run wrote itself.                   *)
WritesOverTheSnapshot ==
    pc = "write" => \A p \in Pages : chip.mem[p] = "old" \/ \E i \in 1 .. step - 1 : Steps[i].page = p

(* Whatever failed, the bus, the programmer and the executor are given back. *)
EverythingReleased ==
    pc = "done" => /\ ~dev.opened /\ ~dev.started /\ executing = foreign
                   /\ IsTerminal(op) /\ ~op.critical

(* The run as the transaction its caller sees (DeviceTransaction).          *)
SeenOutcome ==
    IF ~IsTerminal(op) THEN "running"
    ELSE IF op.status # "failed" THEN op.status
    ELSE IF op.disp = ddKnownSafe THEN "failedSafe" ELSE "failedUnknown"
=============================================================================
