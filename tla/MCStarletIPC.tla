---------------------------- MODULE MCStarletIPC ----------------------------
(* StarletIPC as the runs check it.                                         *)
EXTENDS StarletIPC
=============================================================================
