-------------------------- MODULE OperationModel --------------------------
(***************************************************************************)
(* The vocabulary every transactional engine of the program shares         *)
(* (operationmodel.pas), and the two records an engine keeps while it      *)
(* runs: the outcome TOperationStateMachine owns and the pending failure   *)
(* the engine has met so far (norengine.pas).                              *)
(*                                                                         *)
(* Only operators on values live here, so that the NOR, EEPROM and NAND    *)
(* engines can use them without sharing a variable.  Phases and device     *)
(* dispositions are their Pascal ordinals: the code compares them.         *)
(***************************************************************************)
EXTENDS Naturals

-----------------------------------------------------------------------------
(* TOperationPhase: declared in their only legal forward order.            *)
opCreated            == 0
opValidating         == 1
opReservingDevice    == 2
opOpening            == 3
opInitializingBus    == 4
opCheckingContact    == 6
opPlanning           == 8
opExecuting          == 10
opVerifying          == 11
opQuiescing          == 12
opCommittingEvidence == 13
opCompleted          == 14
Phases == 0 .. 14

(* TDeviceDisposition: a later value is worse news about the chip.         *)
ddNotOpened           == 0
ddKnownSafe           == 1
ddBusyUnknown         == 2
ddDisconnectedUnknown == 3
ddModeUnknown         == 4
Dispositions == 0 .. 4

Statuses == {"notStarted", "running", "succeeded", "failed", "cancelled"}
Terminal == {"succeeded", "failed", "cancelled"}

ErrorCodes == {"none", "invalid", "deviceBusy", "openFailed", "busInitFailed",
               "transport", "shortTransfer", "timeout", "disconnected",
               "contactUnstable", "writeEnableRejected", "commandRejected",
               "verifyMismatch", "cleanupFailed", "evidenceFailed",
               "backupUntrusted", "cancelled", "internalState"}

(* The ways a device call can fail with a result (TNORIOError).            *)
IOErrors == {"transport", "disconnected", "timeout", "rejected", "busy"}

-----------------------------------------------------------------------------
(* The outcome record and FInCriticalCommand of TOperationStateMachine.    *)
Outcomes == [status   : Statuses,
             phase    : Phases,
             code     : ErrorCodes,
             disp     : Dispositions,
             physical : BOOLEAN,     \* PhysicalVerifyCompleted
             fresh    : BOOLEAN,     \* FreshSessionVerifyCompleted
             critical : BOOLEAN]     \* FInCriticalCommand

NewOutcome == [status |-> "notStarted", phase |-> opCreated, code |-> "none",
               disp |-> ddNotOpened, physical |-> FALSE, fresh |-> FALSE,
               critical |-> FALSE]

IsTerminal(o) == o.status \in Terminal

(* A terminal outcome is never overwritten.                                *)
Fail(o, code, disp) ==
    IF IsTerminal(o) THEN o
    ELSE [o EXCEPT !.status = "failed", !.code = code, !.disp = disp]

Start(o) ==
    IF o.status = "notStarted" THEN [o EXCEPT !.status = "running"] ELSE o

(* Skipping a phase is allowed, moving backwards or staying is a failure.  *)
AdvanceTo(o, phase) ==
    IF o.status # "running" THEN o
    ELSE IF phase > o.phase THEN [o EXCEPT !.phase = phase]
    ELSE Fail(o, "internalState", o.disp)

(* TryBeginCriticalCommand refuses when a cancellation is already pending. *)
MayBeginCritical(o, cancelled) ==
    o.status = "running" /\ ~o.critical /\ ~cancelled
BeginCritical(o) == [o EXCEPT !.critical = TRUE]
EndCritical(o)   == [o EXCEPT !.critical = FALSE]

(* No cancelled outcome while a command is physically in flight.           *)
Cancel(o, disp) ==
    IF IsTerminal(o) \/ o.critical THEN o
    ELSE [o EXCEPT !.status = "cancelled", !.code = "cancelled", !.disp = disp]

Complete(o) ==
    LET done == IF o.phase = opCompleted THEN o ELSE AdvanceTo(o, opCompleted)
    IN  IF o.status # "running" THEN o
        ELSE IF o.critical THEN Fail(o, "internalState", o.disp)
        ELSE IF done.status # "running" THEN done
        ELSE [done EXCEPT !.status = "succeeded", !.code = "none",
                          !.disp = ddKnownSafe]

-----------------------------------------------------------------------------
(* TPendingFailure: the first cause is kept, later ones only worsen what   *)
(* is known about the device.                                              *)
Pendings == [code : ErrorCodes, disp : Dispositions]

NoPending == [code |-> "none", disp |-> ddNotOpened]

Max2(a, b) == IF a > b THEN a ELSE b

SetPending(p, code, disp) ==
    IF p.code = "none"
    THEN [code |-> code, disp |-> disp]
    ELSE [p EXCEPT !.disp = Max2(@, disp)]

(* Mutant: a failed poll of a working part is reported as safe.            *)
DispositionIgnoringFlight(error, mayBeInFlight) ==
    IF error = "disconnected" THEN ddDisconnectedUnknown ELSE ddKnownSafe

DispositionForIO(error, mayBeInFlight) ==
    IF error = "disconnected" THEN ddDisconnectedUnknown
    ELSE IF mayBeInFlight THEN ddBusyUnknown ELSE ddKnownSafe

MapIOError(error, rejectedCode) ==
    CASE error = "disconnected" -> "disconnected"
      [] error = "timeout"      -> "timeout"
      [] error = "rejected"     -> rejectedCode
      [] error = "busy"         -> "deviceBusy"
      [] OTHER                  -> "transport"

FailFromIO(p, error, rejectedCode, mayBeInFlight) ==
    SetPending(p, MapIOError(error, rejectedCode),
               DispositionForIO(error, mayBeInFlight))
=============================================================================
