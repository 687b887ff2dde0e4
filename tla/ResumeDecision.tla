--------------------------- MODULE ResumeDecision ---------------------------
(***************************************************************************)
(* DecideResume of writejournal.pas: which units of a plan are left to do    *)
(* after an interruption, from the marks that reached the journal.  The     *)
(* program takes an interrupted job up by another way (SmartWrite); this is  *)
(* the contract of the function for a caller that finishes the same plan.   *)
(*                                                                         *)
(* A unit that is done has its mark appended, or the append fails, which    *)
(* the program logs and passes over.  With AnyLoss an append may succeed    *)
(* after one that failed; without, a journal that lost a mark gets no more  *)
(* before the next attempt.                                                *)
(***************************************************************************)
EXTENDS NORPlanner

CONSTANTS Contents,     \* what the chip may hold at first
          Patches,      \* [address, length, data]
          AnyLoss,
          MaxAttempts

(* Contents and patches are of the part.                                    *)
ResumeAssumption ==
    /\ Contents \subseteq Image
    /\ Patches \subseteq [address : Nat, length : Nat, data : Image]
    /\ AnyLoss \in BOOLEAN /\ MaxAttempts \in Nat

VARIABLES before, patch,    \* what the plan was made from
          mem,              \* the chip
          marks,            \* the units recorded
          todo,             \* the units this attempt is to do
          losing,           \* has this attempt lost a mark?
          moved,            \* what is no longer as the header says
          phase, attempts

vars == <<before, patch, mem, marks, todo, losing, moved, phase, attempts>>

Steps  == DifferentialPlan(before, patch.data, patch.address, patch.length).steps
Units  == {i \in DOMAIN Steps : Destructive(Steps[i])}
Wanted == Overlay(before, patch.data, patch.address, patch.length)

(* A unit as a journal line has it.                                        *)
Mark(u) == [kind |-> u.kind, address |-> u.address, length |-> u.length]

(* Mutant: the same address is the same unit.                              *)
SameAddress(u, m) == u.address = m.address

SameUnit(u, m) == Mark(u) = m

(* What has to be done still; the order is that of the plan.                *)
Remaining == {i \in Units : ~\E m \in marks : SameUnit(Steps[i], m)}

First   == CHOOSE i \in todo : \A j \in todo : i <= j
Current == Steps[First]

Init ==
    /\ before \in Contents /\ patch \in Patches /\ mem = before
    /\ marks = {} /\ losing = FALSE /\ moved = {}
    /\ todo = Units
    /\ phase = "writing" /\ attempts = 1

(* The first unit of the list is done, and its mark appended or not.        *)
DoUnit ==
    /\ phase = "writing" /\ todo # {}
    /\ mem' = Effect(mem, Current, StepRange(Current))
    /\ todo' = todo \ {First}
    /\ \/ /\ losing => AnyLoss
          /\ marks' = marks \cup {Mark(Current)} /\ UNCHANGED losing
       \/ UNCHANGED marks /\ losing' = TRUE
    /\ UNCHANGED <<before, patch, moved, phase, attempts>>

(* The cable comes out; the unit under way is done in part.                 *)
Interrupt ==
    /\ phase = "writing"
    /\ \/ /\ todo # {}
          /\ \E cells \in SUBSET StepRange(Current) :
                mem' = Effect(mem, Current, cells)
       \/ UNCHANGED mem
    /\ phase' = "interrupted"
    /\ UNCHANGED <<before, patch, marks, todo, losing, moved, attempts>>

(* Another chip, image or backup is there now.                             *)
Move(what) ==
    /\ phase = "interrupted" /\ moved = {}
    /\ moved' = {what}
    /\ UNCHANGED <<before, patch, mem, marks, todo, losing, phase, attempts>>

(* The verdict: refused, nothing to do, or the remaining units.             *)
DecideResume ==
    /\ phase = "interrupted" /\ attempts < MaxAttempts
    /\ attempts' = attempts + 1
    /\ \/ /\ moved # {} \/ Units = {}
          /\ phase' = "refused" /\ UNCHANGED <<todo, losing>>
       \/ /\ moved = {} /\ Units # {}
          /\ todo' = Remaining /\ losing' = FALSE
          /\ phase' = IF Remaining = {} THEN "done" ELSE "writing"
    /\ UNCHANGED <<before, patch, mem, marks, moved>>

Done ==
    /\ phase = "writing" /\ todo = {}
    /\ phase' = "done"
    /\ UNCHANGED <<before, patch, mem, marks, todo, losing, moved, attempts>>

Next == \/ DoUnit \/ Interrupt \/ DecideResume \/ Done
        \/ \E what \in {"chip", "capacity", "image", "backup"} : Move(what)
Spec == Init /\ [][Next]_vars

-----------------------------------------------------------------------------
(* Doing what remains, however often it is interrupted, leaves on the chip    *)
(* what the whole plan would have: to do a finished unit again costs time    *)
(* and nothing else, and a unit passed over was done.                       *)
ResumeFinishesTheJob == phase = "done" => mem = Wanted
=============================================================================
