------------------------------ MODULE MC_USBasp ------------------------------
(***************************************************************************)
(* The instance of USBasp in which the search for a speed ends on a slow AVR. *)
(***************************************************************************)
EXTENDS USBasp

(* Of 64 KB at most and without pages, and two of four times that.           *)
MCKinds == {<<2, 0>>, <<8, 2>>, <<8, 4>>}

(* An AVR that follows 93.75 kHz and no more.                               *)
MCSlow == {[modes |-> {"isp"}, option |-> 0, max |-> 8]}
=============================================================================
