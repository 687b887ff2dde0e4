---------------------------- MODULE SessionState ----------------------------
(***************************************************************************)
(* TProgrammingSession (sessionstate.pas): the facts a session has         *)
(* established, and the events that revoke them.  The bench moves on by     *)
(* itself, and the program reports each change as it happens, in any order *)
(* and as often as it likes (NoteSession in main.pas).                     *)
(***************************************************************************)
EXTENDS FiniteSets

CONSTANTS
    Rails, Chips, Images,   \* levels of the rail, parts, images
    None                    \* no part in the socket, no image

SessionAssumption == None \notin Chips \cup Images /\ Rails # {}

VARIABLES
    facts,      \* FFacts
    activity,   \* FWriting, FVerifying, FCompleted: one of them at most
    bench,      \* what is really there
    answered,   \* history: the bench the chip answered on
    judged      \* history: the bench of the last preflight that passed, and
                \* whether another part has answered in its place since

vars == <<facts, activity, bench, answered, judged>>

Facts == {"open", "rail", "chip", "image", "preflight", "armed"}
Bench == [rail : Rails, chip : Chips \cup {None}, image : Images \cup {None}]
Judged == [bench : Bench, swapped : BOOLEAN]

(* Mutant: what rests on a chip is its preflight alone.                    *)
DependentsShallow(fact) ==
    CASE fact = "image" -> {"preflight", "armed"} [] fact = "chip" -> {"preflight"}
      [] fact = "preflight" -> {"armed"} [] OTHER -> {}

(* What stops being true when fact does.                                   *)
DependentsOf(fact) ==
    CASE fact \in {"chip", "image"} -> {"preflight", "armed"}
      [] fact = "preflight" -> {"armed"}
      [] OTHER -> {}

(* Operations and the facts they need (soDetect .. soUnlock).              *)
RequiredFacts(op) ==
    CASE op = "detect" -> {"open", "rail"}
      [] op = "read"   -> {"open", "rail", "chip"}
      [] op = "verify" -> {"open", "rail", "chip", "image"}
      [] op \in {"erase", "unlock"} -> {"open", "rail", "chip", "preflight", "armed"}
      [] op = "write"  -> {"open", "rail", "chip", "image", "preflight", "armed"}
MayStart(op) == RequiredFacts(op) \subseteq facts
MayArm(op) == RequiredFacts(op) \ {"armed"} \subseteq facts

Init ==
    /\ facts = {} /\ activity = "none"
    /\ \E r \in Rails : bench = [rail |-> r, chip |-> None, image |-> None]
    /\ answered = bench /\ judged = [bench |-> bench, swapped |-> FALSE]

-----------------------------------------------------------------------------
Invalidate(fact) ==
    /\ facts' = facts \ (DependentsOf(fact) \cup {fact})
    /\ activity' = "none"
    /\ UNCHANGED <<answered, judged>>

Establish(fact) ==
    /\ facts' = facts \cup {fact}
    /\ UNCHANGED activity

(* Refused events leave the session as it is.                              *)
Refused == UNCHANGED <<facts, activity, answered, judged>>

(* A fresh session: the hardware comes up at any level.                    *)
ProgrammerOpened ==
    /\ facts' = {"open"} /\ activity' = "none"
    /\ \E r \in Rails : bench' = [bench EXCEPT !.rail = r]
    /\ UNCHANGED <<answered, judged>>

ProgrammerClosed ==
    /\ facts' = {} /\ activity' = "none"
    /\ UNCHANGED <<bench, answered, judged>>

RailConfigured ==
    /\ IF "open" \in facts THEN Establish("rail") /\ UNCHANGED <<answered, judged>>
       ELSE Refused
    /\ UNCHANGED bench

(* Mutant: a rail that moves takes only the arming along.                  *)
RailMovedLightly ==
    /\ facts' = (facts \ {"armed"}) \cup {"rail"}
    /\ activity' = "none"
    /\ UNCHANGED <<answered, judged>>

RailMoved ==
    /\ facts' = (facts \ (DependentsOf("chip") \cup {"chip"})) \cup {"rail"}
    /\ activity' = "none"
    /\ UNCHANGED <<answered, judged>>

RailChanged ==
    /\ IF "open" \in facts THEN RailMoved ELSE Refused
    /\ \E r \in Rails : bench' = [bench EXCEPT !.rail = r]

ChipDetected ==
    /\ IF "rail" \in facts
       THEN /\ bench.chip # None
            /\ Establish("chip")
            /\ answered' = bench
            /\ UNCHANGED judged
       ELSE Refused
    /\ UNCHANGED bench

(* The part left, or another came: the next identity read finds nothing.   *)
ChipLost ==
    /\ Invalidate("chip")
    /\ \E c \in Chips \cup {None} : bench' = [bench EXCEPT !.chip = c]

(* Another part came and answers at once with its own identity: nothing is    *)
(* revoked.                                                                *)
ChipSwapped ==
    /\ "rail" \in facts
    /\ \E c \in Chips : bench' = [bench EXCEPT !.chip = c]
    /\ Establish("chip")
    /\ answered' = bench'
    /\ judged' = [judged EXCEPT !.swapped = @ \/ bench'.chip # bench.chip]

ImageLoaded ==
    /\ facts' = (facts \ (DependentsOf("preflight") \cup {"preflight"})) \cup {"image"}
    /\ activity' = "none"
    /\ \E i \in Images : bench' = [bench EXCEPT !.image = i]
    /\ UNCHANGED <<answered, judged>>

ImageCleared ==
    /\ Invalidate("image")
    /\ bench' = [bench EXCEPT !.image = None]

PreflightPassed ==
    /\ IF "chip" \in facts
       THEN /\ Establish("preflight")
            /\ judged' = [bench |-> bench, swapped |-> FALSE]
            /\ UNCHANGED answered
       ELSE Refused
    /\ UNCHANGED bench

PreflightFailed == Invalidate("preflight") /\ UNCHANGED bench

Armed ==
    /\ IF "preflight" \in facts
       THEN Establish("armed") /\ UNCHANGED <<answered, judged>>
       ELSE Refused
    /\ UNCHANGED bench

Disarmed == Invalidate("armed") /\ UNCHANGED bench

WriteStarted ==
    /\ IF "armed" \in facts
       THEN /\ activity' = "writing"
            /\ UNCHANGED <<facts, answered, judged>>
       ELSE Refused
    /\ UNCHANGED bench

VerifyStarted ==
    /\ IF {"chip", "image"} \subseteq facts
       THEN activity' = "verifying" /\ UNCHANGED <<facts, answered, judged>>
       ELSE Refused
    /\ UNCHANGED bench

RunEnds(next) ==
    /\ activity' = next
    /\ facts' = facts \ {"armed"}
    /\ UNCHANGED <<bench, answered, judged>>

OperationSucceeded == RunEnds("completed")
OperationFailed == RunEnds("none")

Next ==
    \/ ProgrammerOpened \/ ProgrammerClosed \/ RailConfigured \/ RailChanged
    \/ ChipDetected \/ ChipLost \/ ChipSwapped \/ ImageLoaded \/ ImageCleared
    \/ PreflightPassed \/ PreflightFailed \/ Armed \/ Disarmed
    \/ WriteStarted \/ VerifyStarted \/ OperationSucceeded \/ OperationFailed

Spec == Init /\ [][Next]_vars

-----------------------------------------------------------------------------
TypeOK ==
    /\ facts \subseteq Facts
    /\ activity \in {"none", "writing", "verifying", "completed"}
    /\ {bench, answered} \subseteq Bench /\ judged \in Judged

(* What was concluded does not outlive the loss of a premise, however often   *)
(* the bench and the program change their minds: a part counts as detected   *)
(* only while it is the one that answered, at the level it answered on; a    *)
(* preflight only for the level and the image it judged, with a part still   *)
(* there, and for the part it judged unless another has answered in its      *)
(* place without a loss reported; an arming only on top of such a preflight,  *)
(* and a write only under an arming (DependentsOf and                        *)
(* TProgrammingSession.Apply).  That exchange revokes neither preflight nor   *)
(* arming, though the comment of DependentsOf says that a preflight is about  *)
(* a specific chip; nor does a finished run revoke the preflight.            *)
NothingIsStale ==
    /\ "chip" \in facts => bench.rail = answered.rail /\ bench.chip = answered.chip
    /\ "preflight" \in facts => /\ "chip" \in facts
                                /\ judged.bench.rail = bench.rail
                                /\ judged.bench.image = bench.image
                                /\ judged.bench.chip = bench.chip \/ judged.swapped
    /\ "armed" \in facts => "preflight" \in facts
    /\ activity = "writing" => "armed" \in facts
    /\ activity = "verifying" => {"chip", "image"} \subseteq facts
    /\ MayStart("write") => MayArm("write") /\ None \notin {bench.chip, bench.image}
=============================================================================
