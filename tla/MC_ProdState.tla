---------------------------- MODULE MC_ProdState ----------------------------
(* Three runs, one of a chip without id; room for two entries; one power cut *)
(* and one older log.  Every line fits the file.                            *)
EXTENDS ProdState, TLC
CONSTANTS r1, r2, r3, chip
MCLineBytes == [u \in Unit |-> 1]
MCRuns == Permutations({r1, r2, r3})
=============================================================================
