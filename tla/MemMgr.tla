------------------------------- MODULE MemMgr -------------------------------
(***************************************************************************)
(* class MemMgr of src/ipc/ipc.py: the first-fit allocator of the guest    *)
(* memory that requests and buffers live in.  Addresses and sizes are in   *)
(* units of the block size, counted from the start of the heap; malloc()   *)
(* has already rounded the size up, so a request for no bytes has size 0.  *)
(***************************************************************************)
EXTENDS Naturals, Sequences, FiniteSetsExt

CONSTANTS
  Count,     \* units in the heap
  Sizes,     \* sizes malloc() is called with
  MaxBlocks  \* bound on the list: empty blocks take no room, so it may grow

ASSUME CountAssumption == Count \in Nat \ {0}
ASSUME SizesAssumption == Sizes \subseteq Nat
ASSUME MaxBlocksAssumption == MaxBlocks \in Nat

VARIABLES
  blocks,    \* the list of blocks, in address order: size and used
  owned,     \* blocks the callers hold: address and length (empty ones at one
             \* address count once)
  last       \* the last call and how it ended

vars == <<blocks, owned, last>>

Block(size, used) == [size |-> size, used |-> used]

\* The address of each block, and of the end of the list.
Pos(bs) ==
  LET p[i \in 1..(Len(bs) + 1)] == IF i = 1 THEN 0 ELSE p[i - 1] + bs[i - 1].size
  IN  p

Init ==
  /\ blocks = <<Block(Count, FALSE)>>
  /\ owned = {}
  /\ last = [op |-> "init", arg |-> 0, ok |-> TRUE, addr |-> 0]

Outcome(op, arg, ok, addr) == last' = [op |-> op, arg |-> arg, ok |-> ok, addr |-> addr]

-----------------------------------------------------------------------------
\* Slip: a block of exactly the size is passed over.
Fits_Larger(n) == {i \in DOMAIN blocks : ~blocks[i].used /\ blocks[i].size > n}
Fits(n) == {i \in DOMAIN blocks : ~blocks[i].used /\ blocks[i].size >= n}

\* Slip: what is left of the block keeps the size of the whole.
Split_Unshrunk(i, n) ==
  SubSeq(blocks, 1, i - 1) \o <<Block(n, TRUE), blocks[i]>> \o SubSeq(blocks, i + 1, Len(blocks))

\* The block that is found becomes the allocation and what is left of it.
Split(i, n) ==
  SubSeq(blocks, 1, i - 1)
    \o (IF blocks[i].size = n THEN <<Block(n, TRUE)>>
        ELSE <<Block(n, TRUE), Block(blocks[i].size - n, FALSE)>>)
    \o SubSeq(blocks, i + 1, Len(blocks))

malloc(n) ==
  IF Fits(n) = {}
  THEN /\ Outcome("malloc", n, FALSE, 0)          \* "Out of memory"
       /\ UNCHANGED <<blocks, owned>>
  ELSE LET i == Min(Fits(n))
           a == Pos(blocks)[i]
       IN /\ blocks' = Split(i, n)
          /\ owned' = owned \cup {[addr |-> a, len |-> n]}
          /\ Outcome("malloc", n, TRUE, a)

\* free() looks at the first block that starts at the address.
Found(a) == {i \in DOMAIN blocks : Pos(blocks)[i] = a}

FreeBefore(i) == i > 1 /\ ~blocks[i - 1].used
FreeAfter(i)  == i < Len(blocks) /\ ~blocks[i + 1].used

\* Slip: the block is merged with the one after it and not with the one before.
Merge_AfterOnly(i) ==
  LET hi == IF FreeAfter(i) THEN i + 1 ELSE i
  IN  SubSeq(blocks, 1, i - 1)
        \o <<Block(Pos(blocks)[hi + 1] - Pos(blocks)[i], FALSE)>>
        \o SubSeq(blocks, hi + 1, Len(blocks))

\* The block and its free neighbours become one free block.
Merge(i) ==
  LET lo == IF FreeBefore(i) THEN i - 1 ELSE i
      hi == IF FreeAfter(i) THEN i + 1 ELSE i
  IN  SubSeq(blocks, 1, lo - 1)
        \o <<Block(Pos(blocks)[hi + 1] - Pos(blocks)[lo], FALSE)>>
        \o SubSeq(blocks, hi + 1, Len(blocks))

\* Slip: the last unit counts as outside the heap.
FreeFails_LastUnit(a) == a >= Count - 1 \/ Found(a) = {} \/ ~blocks[Min(Found(a))].used

\* ValueError: after the heap, not the start of a block, or already free.
FreeFails(a) == a >= Count \/ Found(a) = {} \/ ~blocks[Min(Found(a))].used

free(a) ==
  IF FreeFails(a)
  THEN /\ Outcome("free", a, FALSE, a)
       /\ UNCHANGED <<blocks, owned>>
  ELSE LET i == Min(Found(a))
       IN /\ blocks' = Merge(i)
          /\ owned' = {b \in owned : ~(b.addr = a /\ b.len = blocks[i].size)}
          /\ Outcome("free", a, TRUE, a)

Next ==
  \/ \E n \in Sizes : Len(blocks) < MaxBlocks /\ malloc(n)
  \/ \E a \in 0..Count : free(a)

Spec == Init /\ [][Next]_vars

-----------------------------------------------------------------------------
(* Properties.                                                              *)

\* What check() verifies, and what keeps it true: the blocks fill the heap, and
\* no two free blocks are neighbours, so no space is lost to fragmentation that
\* a free() could have merged.
Coalesced ==
  /\ Pos(blocks)[Len(blocks) + 1] = Count
  /\ \A i \in 1..(Len(blocks) - 1) : blocks[i].used \/ blocks[i + 1].used

\* The units no caller holds.
Available == (0..(Count - 1)) \ UNION {b.addr .. (b.addr + b.len - 1) : b \in owned}

\* Where n units fit that nobody holds, and whether no empty block is in the way.
Room(n) == {a \in 0..(Count - 1) : a + n <= Count /\ a..(a + n - 1) \subseteq Available}
NoneEmpty == \A i \in DOMAIN blocks : blocks[i].size > 0

\* malloc() against its reference: the lowest address with room for n units
\* that nobody holds, and a failure only when there is none, although it looks at
\* one block at a time.  An empty block would cut free units in two.
FirstFit ==
  [][NoneEmpty =>
       \A n \in Sizes \ {0} : malloc(n) =>
         IF Room(n) = {} THEN ~last'.ok ELSE last'.ok /\ last'.addr = Min(Room(n))]_vars

\* free() raises "block already free" for a block of at least one unit that
\* somebody holds, but only where malloc(0) was used: an empty block, handed out
\* at the same address and given back, then comes before it in the list.
RefusedOnlyBehindEmpty ==
  \A b \in owned :
    b.len > 0 /\ FreeFails(b.addr) =>
      LET i == Min(Found(b.addr)) IN blocks[i].size = 0 /\ ~blocks[i].used

\* The blocks somebody holds that take room.
Live == {b \in owned : b.len > 0}

H == INSTANCE Heap WITH Units <- Count, live <- Live

\* The list of blocks implements the heap its callers think of: no block of at
\* least one unit overlaps another, and free() takes back the one it is given.
\* Empty blocks, which share their addresses with others, take nothing away.
ImplementsHeap == H!Spec
=============================================================================
