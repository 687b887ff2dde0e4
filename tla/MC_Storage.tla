----------------------------- MODULE MC_Storage -----------------------------
(* The values of the storage suite for TLC.                                 *)
EXTENDS Storage, TLC

(* Four one-bit bytes, two erase blocks of two pages each.                  *)
Four(n) == [a \in 0 .. 3 |-> IF n[a + 1] = 1 THEN {} ELSE Bits]
MCBlocks   == <<[address |-> 0, size |-> 2], [address |-> 2, size |-> 2]>>
MCContents == {Four(<<0, 0, 0, 1>>), Four(<<0, 1, 0, 0>>), Four(<<1, 1, 1, 0>>)}
MCPatches  == {[address |-> 0, length |-> n, data |-> Four(<<1, 0, m, 1>>)] :
                  n \in {1, 3, 4}, m \in {0, 1}}

(* Lines without a unit's id are short: three of them fit the file, one and   *)
(* a long line do not.                                                      *)
MCLineBytes == [u \in Unit |-> IF u = NoUID THEN 1 ELSE 3]

(* The runs of production are alike.                                        *)
Alike == Permutations(Run)
=============================================================================
