------------------------------ MODULE Register ------------------------------
(***************************************************************************)
(* What AtomicWriteDurable promises of the file it installs: a name that   *)
(* leads to nothing or to one whole content, at every moment and after     *)
(* every power cut.  A writer that was answered can only lose its content   *)
(* to a later writer, and one that must not replace never does.            *)
(***************************************************************************)
CONSTANTS Value,        \* the contents, whole
          Nothing,      \* no file under the name
          Exclusive     \* the contents that must not replace another

VARIABLES value,    \* what the name leads to
          may,      \* what it may lead to after a power cut
          answered  \* the contents whose writer was told of success

RInit == /\ value \in Value \cup {Nothing}
         /\ may = {value}
         /\ answered = {}

Put(v) == /\ v \in Exclusive => value = Nothing
          /\ value' = v
          /\ may' = may \cup {v}
          /\ UNCHANGED answered

(* What is there is there to stay.                                         *)
Commit == /\ may' = {value}
          /\ UNCHANGED <<value, answered>>

(* The answer comes after the commit, or with it.                          *)
Answer(v) == /\ may' = {value}
             /\ answered' = answered \cup {v}
             /\ UNCHANGED value

PowerCut == /\ value' \in may
            /\ may' = {value'}
            /\ UNCHANGED answered

RNext == Commit \/ PowerCut \/ \E v \in Value : Put(v) \/ Answer(v)
RSpec == RInit /\ [][RNext]_<<value, may, answered>>
=============================================================================
