----------------------------- MODULE NORPlanner -----------------------------
(***************************************************************************)
(* The differential NOR planner of norplanner.pas: what to erase, program  *)
(* and verify so that a chip that holds Current ends up holding Current    *)
(* overlaid with a patch, and the checks an executor runs on a plan it is  *)
(* given.  A plan is a record [steps, address, length]: the step list and  *)
(* the requested range.                                                    *)
(*                                                                         *)
(* 64-bit overflow guards are left out: addresses here are far below them. *)
(* Opcodes are left out: a geometry declares one opcode per erase block.   *)
(* The byte counters of a plan feed progress displays only.                *)
(***************************************************************************)
EXTENDS NORChip, SequencesExt

CONSTANTS
    PageSize,   \* bytes one program command may touch
    Blocks      \* the erase map: a sequence of [address, size]

BlockRange(b) == b.address .. (b.address + b.size - 1)

(* ValidateNORGeometry: whole pages, no gap, no overlap, nothing past the  *)
(* end, the whole chip covered.                                            *)
ValidGeometry ==
    /\ ChipSize # 0 /\ PageSize # 0 /\ Len(Blocks) # 0
    /\ Blocks[1].address = 0
    /\ \A i \in DOMAIN Blocks :
          /\ Blocks[i].size # 0
          /\ Blocks[i].address % PageSize = 0
          /\ Blocks[i].size % PageSize = 0
          /\ Blocks[i].address + Blocks[i].size
                = IF i = Len(Blocks) THEN ChipSize ELSE Blocks[i + 1].address

ASSUME GeometryAssumption ==
    /\ PageSize \in Nat \ {0}
    /\ Blocks \in Seq([address : Nat, size : Nat])
    /\ ValidGeometry

-----------------------------------------------------------------------------
PageOf(a) == a \div PageSize

(* Programming clears bits only: a desired 1 over a current 0 needs erase. *)
ByteNeedsErase(current, desired) == ~(current \subseteq desired)

Overlay(image, patch, address, length) ==
    [a \in Addr |-> IF a \in address .. (address + length - 1)
                    THEN patch[a] ELSE image[a]]

(* AppendProgramRuns: one program step for each maximal run of bytes that   *)
(* need programming, never across a page, in ascending order.              *)
RunStarts(block, needs, a) ==
    /\ a \in needs
    /\ \/ a = block.address
       \/ a - 1 \notin needs
       \/ PageOf(a - 1) # PageOf(a)

RunEnd(needs, a) ==
    CHOOSE e \in needs :
        /\ a <= e /\ PageOf(e) = PageOf(a)
        /\ (a .. e) \subseteq needs
        /\ e + 1 \in needs => PageOf(e + 1) # PageOf(a)

ProgramRuns(block, needs, desired) ==
    FlattenSeq([i \in 1 .. block.size |->
        LET a == block.address + i - 1
        IN  IF RunStarts(block, needs, a)
            THEN <<[kind |-> "program", address |-> a,
                    length |-> RunEnd(needs, a) - a + 1, data |-> desired]>>
            ELSE << >>])

(* The steps for one erase block that the patch touches: nothing but a      *)
(* verify when it already holds the desired bytes.                         *)
BlockSteps(block, current, desired) ==
    LET range  == BlockRange(block)
        erase  == \E a \in range : ByteNeedsErase(current[a], desired[a])
        needs  == {a \in range :
                     desired[a] # IF erase THEN Erased ELSE current[a]}
        whole(kind) == [kind |-> kind, address |-> block.address,
                        length |-> block.size, data |-> desired]
    IN  (IF erase THEN <<whole("erase")>> ELSE << >>)
        \o ProgramRuns(block, needs, desired)
        \o <<whole("verify")>>

(* Does the requested range reach into the block?                          *)
Touches(block, address, length) ==
    /\ block.address + block.size > address
    /\ block.address < address + length

PerBlock(current, desired, address, length) ==
    [i \in DOMAIN Blocks |-> IF Touches(Blocks[i], address, length)
                             THEN BlockSteps(Blocks[i], current, desired)
                             ELSE << >>]

(* Mutant: the rest of a touched block is not preserved.                   *)
PlanLosingNeighbours(current, patch, address, length) ==
    LET desired == Overlay([a \in Addr |-> Erased], patch, address, length)
    IN  [address |-> address, length |-> length,
         steps |-> FlattenSeq(PerBlock(current, desired, address, length))]

DifferentialPlan(current, patch, address, length) ==
    LET desired == Overlay(current, patch, address, length)
    IN  [address |-> address, length |-> length,
         steps |-> IF length = 0 THEN << >> ELSE
                  FlattenSeq(PerBlock(current, desired, address, length))]

-----------------------------------------------------------------------------
(* ValidateNORPlan: every step is on the chip, an erase is a declared       *)
(* block, a program stays in one page.                                     *)
ValidateNORPlan(plan) ==
    /\ plan.address <= ChipSize
    /\ plan.length <= ChipSize - plan.address
    /\ \A i \in DOMAIN plan.steps :
          LET s == plan.steps[i]
          IN  /\ s.length # 0
              /\ s.address + s.length <= ChipSize
              /\ s.kind = "erase" =>
                    \E b \in DOMAIN Blocks : /\ Blocks[b].address = s.address
                                             /\ Blocks[b].size = s.length
              /\ s.kind = "program" =>
                    PageOf(s.address) = PageOf(s.address + s.length - 1)

NORPlanHasDestructiveSteps(plan) ==
    \E i \in DOMAIN plan.steps : Destructive(plan.steps[i])

(* The union of the verify steps covers the requested range.               *)
NORPlanVerifyCoversRequestedRange(plan) ==
    \A a \in plan.address .. (plan.address + plan.length - 1) :
        \E i \in DOMAIN plan.steps :
            plan.steps[i].kind = "verify" /\ a \in StepRange(plan.steps[i])

(* One later verify covers each destructive step entirely.                 *)
NORPlanDestructiveStepsVerifiedAfterward(plan) ==
    \A i \in DOMAIN plan.steps :
        Destructive(plan.steps[i]) =>
            \E j \in DOMAIN plan.steps :
                /\ j > i
                /\ plan.steps[j].kind = "verify"
                /\ StepRange(plan.steps[i]) \subseteq StepRange(plan.steps[j])
=============================================================================
