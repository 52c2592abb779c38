----------------------------- MODULE MCArmDebug -----------------------------
(***************************************************************************)
(* A program of eight instructions.  The handler at 0 (interrupts, aborts) *)
(* maps or unmaps address 5 and returns, so that an aborted fetch is tried *)
(* again; the handler at 2 is that of SWI; the program proper is 4 .. 7.   *)
(***************************************************************************)
EXTENDS ArmDebug

MCProg == [a \in 0 .. 7 |->
    CASE a = 0 -> "remap"
      [] a \in {1, 3} -> "ret"
      [] a \in {2, 4} -> "op"
      [] a = 5 -> "swi"
      [] a = 6 -> "abortword"
      [] OTHER -> "jump"]
=============================================================================
