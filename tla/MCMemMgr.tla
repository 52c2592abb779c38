------------------------------ MODULE MCMemMgr ------------------------------
(* MemMgr as the runs check it.                                             *)
EXTENDS MemMgr
=============================================================================
