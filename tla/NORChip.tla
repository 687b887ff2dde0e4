------------------------------ MODULE NORChip ------------------------------
(***************************************************************************)
(* A SPI NOR part as the program sees it through a programmer: a memory,   *)
(* a write-enable latch and at most one erase or program command working   *)
(* inside the chip.  The chip is not code of the repository: it is modelled *)
(* from what norengine.pas, norplanner.pas and spi25noradapter.pas rely on. *)
(*                                                                         *)
(* A byte is the set of its bits that are 0.  Erased is then the empty set, *)
(* programming is union, and "an erase is needed" is "not a subset".       *)
(***************************************************************************)
EXTENDS Naturals

CONSTANTS
    Bits,       \* the bits of a byte
    ChipSize    \* bytes on the part

ASSUME ChipAssumption == ChipSize \in Nat \ {0}

Addr   == 0 .. ChipSize - 1
Byte   == SUBSET Bits
Erased == {}
Image  == [Addr -> Byte]

(* A step of a plan, and so the command a chip may be working on.  data is *)
(* an image of which only the bytes of the step's own range are meant.     *)
Step == [kind : {"erase", "program", "verify"}, address : Addr,
         length : 1 .. ChipSize, data : Image]

StepRange(s) == s.address .. (s.address + s.length - 1)

Destructive(s) == s.kind \in {"erase", "program"}

(* The memory once the cells in part have taken the command.               *)
Effect(mem, s, part) ==
    [a \in Addr |->
        IF a \notin part THEN mem[a]
        ELSE IF s.kind = "erase" THEN Erased
        ELSE mem[a] \cup s.data[a]]

-----------------------------------------------------------------------------
(* flight is the command at work inside the chip, if there is one.         *)
NoCommand == [kind |-> "none"]

Chips == [mem : Image, wel : BOOLEAN, flight : Step \cup {NoCommand}]

Idle(c) == c.flight = NoCommand

(* A busy part ignores everything but a status read.                       *)
WREN(c) == IF Idle(c) THEN [c EXCEPT !.wel = TRUE]  ELSE c
WRDI(c) == IF Idle(c) THEN [c EXCEPT !.wel = FALSE] ELSE c

(* An erase or program opcode starts work only with the latch set.         *)
Accept(c, s) == IF Idle(c) /\ c.wel THEN [c EXCEPT !.flight = s] ELSE c

(* Work ends: the latch clears by itself.  part is what took.              *)
Settle(c, part) ==
    [mem |-> Effect(c.mem, c.flight, part), wel |-> FALSE, flight |-> NoCommand]

(* A busy part does not drive its output, and a floating line reads as 1s. *)
Shown(c) == IF Idle(c) THEN c.mem ELSE [a \in Addr |-> Erased]

(* Mutant: only the first byte read back is compared.                      *)
MatchesFirstByte(c, s) == Shown(c)[s.address] = s.data[s.address]

(* A read of the range of s agrees with its data.                          *)
Matches(c, s) == \A a \in StepRange(s) : Shown(c)[a] = s.data[a]
=============================================================================
