-------------------------------- MODULE Heap --------------------------------
(***************************************************************************)
(* What a heap promises to those who allocate from it: a block handed out  *)
(* lies in the heap and overlaps no other, and exactly the blocks that     *)
(* were handed out and not given back can be given back.                   *)
(***************************************************************************)
EXTENDS Naturals

CONSTANTS
  Units,     \* size of the heap, in allocation units
  Sizes      \* sizes asked for, in units

VARIABLE live      \* blocks handed out: [addr, len]

Covers(b) == b.addr .. (b.addr + b.len - 1)
Disjoint(b, c) == Covers(b) \cap Covers(c) = {}

Init == live = {}

Malloc(b) ==
  /\ b.addr + b.len <= Units
  /\ \A c \in live : c.addr # b.addr /\ Disjoint(b, c)
  /\ live' = live \cup {b}

Free(b) == b \in live /\ live' = live \ {b}

Next ==
  \/ \E b \in [addr : 0..(Units - 1), len : Sizes] : Malloc(b)
  \/ \E b \in live : Free(b)

Spec == Init /\ [][Next]_live
=============================================================================
