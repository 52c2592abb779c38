------------------------------ MODULE MCSeeprom ------------------------------
(* Seeprom with two words of two bits.                                       *)
EXTENDS Seeprom
=============================================================================
