--------------------------- MODULE MC_NANDExecutor ---------------------------
(* Three blocks of two pages, of which one may have a factory marker on its    *)
(* first or on its second page, and an image of one block and a half.         *)
EXTENDS NANDExecutor

NoMarkers == [b \in Block |-> {}]
MCMarkerSets == {NoMarkers, [NoMarkers EXCEPT ![0] = {1}]}
MCJobs == {[kind |-> "write", skip |-> TRUE], [kind |-> "erase", skip |-> TRUE],
           [kind |-> "write", skip |-> FALSE]}
MCBlock == 0 .. 2
MCPage == 0 .. 1
NoFaults == {}
=============================================================================
