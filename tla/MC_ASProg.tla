------------------------------ MODULE MC_ASProg ------------------------------
(* The instance of ASProg that writes a whole page over I2C.                  *)
EXTENDS ASProg
=============================================================================
