---------------------------- MODULE MCStarletSdhc ----------------------------
(* StarletSdhc with a command of each kind: idle, read, application prefix.  *)
EXTENDS StarletSdhc
=============================================================================
