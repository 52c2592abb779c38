----------------------------- MODULE MCNandFlash -----------------------------
(* NandFlash with two blocks in use and the last page of the chip.           *)
EXTENDS NandFlash
=============================================================================
