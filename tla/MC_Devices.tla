---------------------------- MODULE MC_Devices -----------------------------
(* The values of the suite of the devices for TLC: three serial memories and   *)
(* seven AVRs at the AVRISP-MKII.                                          *)
EXTENDS Devices, MC_AVRISP

(* AVRs without pages, and with two and four times what an extended address  *)
(* byte reaches: an eighth of it.                                           *)
Served(modes, option, max) == [modes |-> modes, option |-> option, max |-> max]
MCKinds == {<<2, 0>>, <<8, 2>>, <<8, 4>>}
MCUBBenches == {Served({"isp"}, 0, 9), Served({"spi", "i2c"}, 0, 9),
                Served({"spi", "i2c"}, 7, 9), Served({"spi", "mw"}, 7, 9), Served({"tpi"}, 0, 9)}

(* Three blocks of two pages, of which one may have a factory marker on its    *)
(* second page, and an image of one block and a half.                       *)
NoMarkers == [b \in NandBlock |-> {}]
MCMarkerSets == {NoMarkers, [NoMarkers EXCEPT ![0] = {1}]}
MCJobs == {[kind |-> "write", skip |-> TRUE], [kind |-> "erase", skip |-> TRUE],
           [kind |-> "write", skip |-> FALSE]}
=============================================================================
