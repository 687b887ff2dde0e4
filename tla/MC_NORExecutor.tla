-------------------------- MODULE MC_NORExecutor --------------------------
(* A four-byte part with one-bit bytes, two erase blocks of one page each. *)
EXTENDS NORExecutor

CONSTANT b1
MCBits   == {b1}
MCBlocks == <<[address |-> 0, size |-> 2], [address |-> 2, size |-> 2]>>

Bytes(n) == [a \in Addr |-> IF n[a + 1] = 1 THEN Erased ELSE MCBits]
Snapshot == Bytes(<<0, 1, 1, 0>>)   \* what the plans were made from
Wanted   == Bytes(<<1, 0, 0, 0>>)   \* block 0 needs an erase, block 2 does not
MCContents == {Snapshot, Wanted, Bytes(<<0, 1, 1, 1>>)}
MCLeftOver == {[kind |-> "erase", address |-> 0, length |-> 2, data |-> Wanted]}

Request(plan, bind, evidence) ==
    [plan |-> plan, bind |-> bind, expected |-> Snapshot,
     patch |-> Wanted,
     fullVerify |-> TRUE, evidence |-> evidence, consistent |-> TRUE]

Whole   == DifferentialPlan(Snapshot, Wanted, 0, 4)
Second  == DifferentialPlan(Snapshot, Wanted, 2, 1)
Nothing == DifferentialPlan(Snapshot, Snapshot, 0, 4)

(* Plans no planner made: the last verify missing, a program step that      *)
(* leaves its page, an erase that is not a declared block.                 *)
Unverified == [Whole EXCEPT !.steps = SubSeq(@, 1, Len(@) - 1), !.length = 2]
CrossesPage ==
    [Whole EXCEPT !.steps = <<[kind |-> "program", address |-> 1, length |-> 2,
                               data |-> Wanted]>> \o @]
OddErase ==
    [Whole EXCEPT !.steps = <<[kind |-> "erase", address |-> 1, length |-> 2,
                               data |-> Wanted]>> \o @]

MCRequests ==
    {Request(Whole, TRUE, TRUE), Request(Second, TRUE, FALSE),
     Request(Second, FALSE, FALSE), Request(Nothing, FALSE, FALSE),
     Request(Unverified, FALSE, FALSE), Request(CrossesPage, FALSE, FALSE),
     Request([Unverified EXCEPT !.length = 4], FALSE, FALSE),
     Request(OddErase, TRUE, FALSE),
     [Request(Whole, TRUE, FALSE) EXCEPT !.consistent = FALSE]}

MCFaults == {"transport", "disconnected", "raised"}
=============================================================================
