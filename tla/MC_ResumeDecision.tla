-------------------------- MODULE MC_ResumeDecision --------------------------
(* Four one-bit bytes, two erase blocks of two pages each.                  *)
EXTENDS ResumeDecision
CONSTANT b1
MCBits     == {b1}
MCBlocks   == <<[address |-> 0, size |-> 2], [address |-> 2, size |-> 2]>>
Bytes(n)   == [a \in Addr |-> IF n[a + 1] = 1 THEN Erased ELSE MCBits]
MCContents == {Bytes(<<0, 0, 0, 1>>), Bytes(<<0, 1, 0, 0>>),
               Bytes(<<1, 1, 1, 0>>)}
MCPatches  == {[address |-> 0, length |-> n, data |-> Bytes(<<1, 0, m, 1>>)] :
                   n \in {1, 3, 4}, m \in {0, 1}}
=============================================================================
