----------------------------- MODULE MC_Session -----------------------------
(* The values of the session's suite for TLC.                               *)
EXTENDS Session, TLC

(* Three pages; jobs of each bus, one that changes nothing, one invalid.    *)
Job(b, p, c, v, e) == [bus |-> b, patched |-> p, changed |-> c, valid |-> v, evidence |-> e]
MCJobs == {Job("i2c", {1}, {1}, TRUE, TRUE), Job("spi", {1, 2}, {1, 2}, TRUE, FALSE),
           Job("mw", {1, 2}, {1, 2}, TRUE, FALSE), Job("mw", {2}, {}, TRUE, FALSE),
           Job("spi", {1}, {1}, FALSE, FALSE)}
MCPageContents == {[p \in Pages |-> "old"],
                   [p \in Pages |-> IF p = 3 THEN "new" ELSE "old"]}
MCFaults == {"transport", "disconnected", "raised"}

Input(m, p, v, w, b, s) ==
    [mode |-> m, passes |-> p, valid |-> v, backup |-> b, sink |-> s,
     wants |-> [i \in Readings |-> IF w THEN 3 ELSE i]]
MCInputs ==
    {Input("read", 1, TRUE, FALSE, FALSE, FALSE), Input("read", 3, TRUE, FALSE, FALSE, FALSE),
     Input("preview", 2, TRUE, TRUE, TRUE, TRUE), Input("write", 3, TRUE, TRUE, TRUE, TRUE),
     Input("write", 2, TRUE, TRUE, TRUE, FALSE), Input("write", 2, TRUE, TRUE, FALSE, FALSE),
     Input("write", 2, TRUE, FALSE, TRUE, TRUE), Input("write", 2, FALSE, TRUE, TRUE, TRUE)}

(* Two parts of two one-bit bytes in one erase block, pages of one byte.  No  *)
(* byte is blank at first, and each of the two images sets one byte: what an   *)
(* erase, a changed backup or a changed image does to the other shows.  Two   *)
(* bundles, one power cut, one changed file.                                *)
Two(m, n) == [a \in 0 .. 1 |-> IF a = 0 THEN m ELSE n]
MCBlocks   == <<[address |-> 0, size |-> 2]>>
MCContents == {Two({}, {})}
MCPatches  == {[address |-> a, length |-> 1, data |-> Two(Bits, Bits)] : a \in {0, 1}}

(* The parts of Smart Write are alike.                                      *)
Alike == Permutations(Part)
=============================================================================
