------------------------- MODULE DeviceTransaction -------------------------
(***************************************************************************)
(* What a caller may rely on when an engine reports a terminal outcome:    *)
(* what TDeviceDisposition says of the part (operationmodel.pas) and what  *)
(* success stands for.  The part is a memory, a flag that says whether a   *)
(* command is at work in it, and whether it holds what was asked for.      *)
(***************************************************************************)
CONSTANT Memory     \* what the part can hold

VARIABLES mem, holds, busy, outcome

Promises == {"succeeded", "cancelled", "failedSafe"}
Outcome  == Promises \cup {"running", "failedUnknown"}

TInit == /\ mem \in Memory /\ holds \in BOOLEAN /\ busy \in BOOLEAN
         /\ outcome = "running"

(* Only a running transaction sends commands, and only to an idle part.    *)
Command ==
    /\ outcome = "running" /\ ~busy
    /\ busy' = TRUE
    /\ UNCHANGED <<mem, holds, outcome>>

(* A command ends, however late, and leaves anything in the memory.        *)
Settle ==
    /\ busy /\ ~busy'
    /\ mem' \in Memory /\ holds' \in BOOLEAN
    /\ UNCHANGED outcome

(* Every outcome but "failedUnknown" promises a part at rest, and success   *)
(* that it holds what was asked for.                                       *)
End ==
    /\ outcome = "running"
    /\ outcome' \in Outcome \ {"running"}
    /\ outcome' \in Promises => ~busy
    /\ outcome' = "succeeded" => holds
    /\ UNCHANGED <<mem, holds, busy>>

TNext == Command \/ Settle \/ End
TSpec == TInit /\ [][TNext]_<<mem, holds, busy, outcome>>
=============================================================================
