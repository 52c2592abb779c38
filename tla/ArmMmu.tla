------------------------------- MODULE ArmMmu -------------------------------
(***************************************************************************)
(* The memory management unit of the ARM926EJ-S, the processor of the      *)
(* Starlet: the translation tables in memory, the TLB that remembers what  *)
(* the walk of the tables found (mmu/tlb.c), the instruction cache         *)
(* (mmu/cache.c), and the accesses and the coprocessor 15 operations that  *)
(* go through them (mmu/arm926ejs_mmu.c, armvirt.c).                       *)
(*                                                                         *)
(* An address is the number of a line of 32 bytes, and a line holds one    *)
(* word: a descriptor when the walk reads it, an instruction when the      *)
(* fetch does.  armmmu.h defines the data cache and the write buffer away  *)
(* (MMU_DCacheEnabled and MMU_WBEnabled are 0), so they hold nothing and   *)
(* every data access reaches memory; the instruction cache is searched and *)
(* filled whether or not the guest has enabled it.  The fault status and   *)
(* address registers are outputs: Answer is the status an access reports.  *)
(***************************************************************************)
EXTENDS Integers, FiniteSets

CONSTANTS Va,            \* the modified virtual addresses, 0 .. some bound
          Pa,            \* the physical addresses; Va \subseteq Pa
          Size,          \* Size[m]: the lines a mapping m covers (tlb_masks)
          Quarter,       \* Quarter[m]: the lines of one subpage of m
          PidBlock,      \* the addresses below it are moved by the process id
          Words,         \* the words memory can hold
          TlbNum,        \* entries of the TLB (64 in the code)
          IcSets, IcWays,\* geometry of the instruction cache (64 and 4)
          Controls, Ttbs, Pids, Dacrs,  \* values the guest gives the registers
          InitDacr,      \* 0xDEADC0DE in the code
          InitMems,      \* memory when the simulation starts
          Touched,       \* the addresses the guest uses
          StoreWords,    \* the words it, and the devices, store
          DmaAddrs,      \* the addresses devices store to
          MaxStores      \* bound: stores that change memory

Mappings == {"TINYPAGE", "SMALLPAGE", "LARGEPAGE", "SECTION"}
Slots == 0 .. TlbNum - 1

ASSUME MmuAssumption ==
    /\ Va \subseteq Nat /\ Va \subseteq Pa /\ Touched \subseteq Va
    /\ TlbNum \in Nat \ {0} /\ IcSets \in Nat \ {0} /\ IcWays \in Nat \ {0}
    /\ Size \in [Mappings -> Nat \ {0}]

VARIABLES mem,      \* memory
          mmu,      \* coprocessor 15: control bits, table base, pid, domains
          tlb,      \* main_tlb: its entries and the slot to fill next
          ic,       \* i_cache: its lines and, per set, the way to fill next
          dirty,    \* history: addresses whose walk changed since the TLB
                    \*   was last told
          taint,    \* history: an entry was loaded over such an address
          stale,    \* history: addresses whose word changed since the
                    \*   instruction cache was last told
          stores    \* stores made, bounded by MaxStores

vars == <<mem, mmu, tlb, ic, dirty, taint, stale, stores>>

-----------------------------------------------------------------------------
(***************************************************************************)
(* The walk.  A word as a descriptor has a type 0..3, a base address, four *)
(* access permissions, a domain and the C bit.  The result is the TLB      *)
(* entry to load, or a fault.                                              *)
(***************************************************************************)
Aligned(a, mapping) == (a \div Size[mapping]) * Size[mapping]

Entry(va, mapping, desc, domain) ==
    [mapping |-> mapping, virt |-> Aligned(va, mapping),
     phys |-> Aligned(desc.base, mapping), ap |-> desc.ap, c |-> desc.c,
     domain |-> domain]

TranslationFault == [mapping |-> "FAULT"]

CoarseWalk(m, va, l1) ==
    LET l2 == m[l1.base + (va % Size["SECTION"]) \div Size["SMALLPAGE"]]
    IN CASE l2.type \in {0, 3} -> TranslationFault
         [] l2.type = 1 -> Entry(va, "LARGEPAGE", l2, l1.dom)
         [] OTHER -> Entry(va, "SMALLPAGE", l2, l1.dom)

FineWalk(m, va, l1) ==
    LET l2 == m[l1.base + (va % Size["SECTION"]) \div Size["TINYPAGE"]]
    IN CASE l2.type = 0 -> TranslationFault
         [] l2.type = 3 -> Entry(va, "TINYPAGE", l2, l1.dom)
         [] l2.type = 1 -> Entry(va, "LARGEPAGE", l2, l1.dom)
         [] OTHER -> Entry(va, "SMALLPAGE", l2, l1.dom)

Walk(m, ttb, va) ==
    LET l1 == m[ttb + va \div Size["SECTION"]]
    IN CASE l1.type = 0 -> TranslationFault
         [] l1.type = 1 -> CoarseWalk(m, va, l1)
         [] l1.type = 3 -> FineWalk(m, va, l1)
         [] OTHER -> Entry(va, "SECTION", l1, l1.dom)

-----------------------------------------------------------------------------
(***************************************************************************)
(* The TLB: mmu_tlb_search returns the first entry that covers an address, *)
(* and translate loads the result of a walk in the slot of its cycle.      *)
(***************************************************************************)
Invalid == [mapping |-> "INVALID"]

Covers(e, va) ==
    /\ e.mapping \in Mappings
    /\ Aligned(va, e.mapping) = e.virt

Hits(t, va) == {i \in Slots : Covers(t.entrys[i], va)}

First(S) == CHOOSE i \in S : \A j \in S : i <= j

Loaded(t, e) ==
    [entrys |-> [t.entrys EXCEPT ![t.cycle] = e],
     cycle |-> (t.cycle + 1) % TlbNum]

\* The entry an access to va uses, and the TLB it leaves behind.
Translate(t, m, ttb, va) ==
    IF Hits(t, va) # {}
      THEN [entry |-> t.entrys[First(Hits(t, va))], tlb |-> t]
      ELSE LET e == Walk(m, ttb, va)
           IN [entry |-> e,
               tlb |-> IF e.mapping = "FAULT" THEN t ELSE Loaded(t, e)]

EmptyTlb == [entrys |-> [i \in Slots |-> Invalid], cycle |-> 0]

\* Slip for mutation: the entry is compared with the address itself, so that
\* only an invalidation of the first line of a page finds it.
TlbWithout_Exact(t, va) ==
    [t EXCEPT !.entrys = [i \in Slots |->
        IF Covers(@[i], va) /\ @[i].virt = va THEN Invalid ELSE @[i]]]

TlbWithout(t, va) ==
    IF Hits(t, va) = {} THEN t
    ELSE [t EXCEPT !.entrys[First(Hits(t, va))] = Invalid]

VaToPa(e, va) == e.phys + (va % Size[e.mapping])

-----------------------------------------------------------------------------
(***************************************************************************)
(* Permissions: the domain's access, then the access bits of the subpage.  *)
(***************************************************************************)
CheckPerms(ap, isRead, s, r, isUser) ==
    CASE ap = 0 -> isRead /\ ((s /\ ~isUser) \/ r)
      [] ap = 1 -> ~isUser
      [] ap = 2 -> isRead \/ ~isUser
      [] OTHER -> TRUE

Subpage(e, va) ==
    CASE e.mapping = "TINYPAGE" -> 0
      [] e.mapping = "SECTION" -> 3
      [] OTHER -> (va \div Quarter[e.mapping]) % 4

CheckAccess(e, va, isRead, reg, isUser) ==
    CASE reg.dacr[e.domain] \in {0, 2} -> "SECTION_DOMAIN_FAULT"
      [] /\ reg.dacr[e.domain] = 1
         /\ ~CheckPerms(e.ap[Subpage(e, va)], isRead, reg.s, reg.r, isUser) ->
           IF e.mapping = "SECTION" THEN "SECTION_PERMISSION_FAULT"
                                    ELSE "SUBPAGE_PERMISSION_FAULT"
      [] OTHER -> "NO_FAULT"

\* What an access through entry e answers.
Answer(e, va, isRead, reg, isUser) ==
    IF e.mapping = "FAULT" THEN "PAGE_TRANSLATION_FAULT"
    ELSE CheckAccess(e, va, isRead, reg, isUser)

PidVaMap(va) == IF va >= PidBlock THEN va ELSE va + mmu.pid

-----------------------------------------------------------------------------
(***************************************************************************)
(* The instruction cache: IcSets sets of IcWays lines, filled in turn.     *)
(***************************************************************************)
NoLine == [tag |-> -1]

CacheSet(va) == va % IcSets

IcHits(c, va) ==
    {w \in 0 .. IcWays - 1 : c.lines[CacheSet(va)][w].tag = va}

IcFilled(c, va, word) ==
    LET s == CacheSet(va)
    IN [lines |-> [c.lines EXCEPT ![s][c.cycle[s]] =
                      [tag |-> va, word |-> word]],
        cycle |-> [c.cycle EXCEPT ![s] = (@ + 1) % IcWays]]

EmptyLines == [s \in 0 .. IcSets - 1 |-> [w \in 0 .. IcWays - 1 |-> NoLine]]

\* Slip for mutation: the line is written back and its tag is not reset.
IcWithout_Kept(c, va) == c

IcWithout(c, va) ==
    IF IcHits(c, va) = {} THEN c
    ELSE [c EXCEPT !.lines[CacheSet(va)][First(IcHits(c, va))] = NoLine]

-----------------------------------------------------------------------------
(***************************************************************************)
(* History.  Backing is the word an address stands for: in memory behind   *)
(* the walk, or at the address itself while the MMU is off.                *)
(***************************************************************************)
Backing(m, reg, va) ==
    IF ~reg.on THEN {m[va]}
    ELSE LET e == Walk(m, reg.ttb, va)
         IN IF e.mapping = "FAULT" THEN {} ELSE {m[VaToPa(e, va)]}

\* toldTlb and toldIc: the addresses a step invalidates.
\* loads: the entries it loads in the TLB.
History(toldTlb, toldIc, loads) ==
    LET same == UNCHANGED <<mem, mmu>>
        moved == {va \in Va : /\ ~same
                              /\ Walk(mem', mmu'.ttb, va) # Walk(mem, mmu.ttb, va)}
        changed == {va \in Va :
                      /\ ~same
                      /\ Backing(mem', mmu', va) # Backing(mem, mmu, va)}
        early == \E e \in loads, va \in Va :
                    /\ Covers(e, va)
                    /\ va \in dirty \/ Walk(mem, mmu.ttb, va) # e
    IN /\ dirty' = (dirty \cup moved) \ toldTlb
       /\ taint' = ((taint \/ early) /\ tlb' # EmptyTlb)
       /\ stale' = IF taint' THEN Va
                   ELSE (stale \ toldIc) \cup changed \cup dirty'

-----------------------------------------------------------------------------
(***************************************************************************)
(* Accesses, in user mode or in a privileged one.                          *)
(***************************************************************************)
NewLoads(x) == IF x.tlb = tlb THEN {} ELSE {x.entry}

\* arm926ejs_mmu_load_instr: the fetch of an instruction.
LoadInstr(addr, user) ==
    LET va == PidVaMap(addr)
    IN /\ IF mmu.on
          THEN \E x \in {Translate(tlb, mem, mmu.ttb, va)} :
                 /\ tlb' = x.tlb
                 /\ ic' = IF \/ Answer(x.entry, va, TRUE, mmu, user) # "NO_FAULT"
                             \/ IcHits(ic, va) # {}
                             \/ ~x.entry.c
                          THEN ic
                          ELSE IcFilled(ic, va, mem[VaToPa(x.entry, va)])
                 /\ UNCHANGED <<mem, mmu>>
                 /\ History({}, {}, NewLoads(x))
          ELSE /\ ic' = IF IcHits(ic, va) # {} THEN ic
                        ELSE IcFilled(ic, va, mem[va])
               /\ UNCHANGED <<tlb, mem, mmu>>
               /\ History({}, {}, {})
       /\ UNCHANGED stores

\* arm926ejs_mmu_read and arm926ejs_mmu_write: stored[pa] is the memory
\* an access to pa leaves behind.  An alignment fault comes before the translation.
DataAccess(addr, user, misaligned, isRead, stored) ==
    LET va == PidVaMap(addr)
    IN /\ UNCHANGED mmu
       /\ \/ /\ ~mmu.on
             /\ mem' = stored[va]
             /\ UNCHANGED tlb
             /\ History({}, {}, {})
          \/ /\ mmu.on /\ misaligned /\ mmu.align
             /\ UNCHANGED <<mem, tlb>>
             /\ History({}, {}, {})
          \/ /\ mmu.on /\ ~(misaligned /\ mmu.align)
             /\ \E x \in {Translate(tlb, mem, mmu.ttb, va)} :
                  /\ tlb' = x.tlb
                  /\ mem' = IF Answer(x.entry, va, isRead, mmu, user) = "NO_FAULT"
                            THEN stored[VaToPa(x.entry, va)] ELSE mem
                  /\ History({}, {}, NewLoads(x))

Read(addr, user, misaligned) ==
    /\ DataAccess(addr, user, misaligned, TRUE, [pa \in Pa |-> mem])
    /\ UNCHANGED <<ic, stores>>

Write(addr, user, misaligned, word) ==
    /\ stores < MaxStores
    /\ stores' = stores + 1
    /\ DataAccess(addr, user, misaligned, FALSE,
                  [pa \in Pa |-> [mem EXCEPT ![pa] = word]])
    /\ UNCHANGED ic

\* A device (the NAND or SD controller, the drive interface, the AES engine)
\* or the IPC bridge stores to memory behind the processor's back.
DeviceWrite(pa, word) ==
    /\ stores < MaxStores
    /\ stores' = stores + 1
    /\ mem' = [mem EXCEPT ![pa] = word]
    /\ UNCHANGED <<mmu, tlb, ic>>
    /\ History({}, {}, {})

-----------------------------------------------------------------------------
(***************************************************************************)
(* Coprocessor 15 (arm926ejs_mmu_mcr).                                     *)
(***************************************************************************)
McrControl(c) ==
    /\ mmu' = [mmu EXCEPT !.on = c.on, !.align = c.align, !.s = c.s, !.r = c.r]
    /\ UNCHANGED <<mem, tlb, ic, stores>>
    /\ History({}, {}, {})

McrTtb(ttb) ==
    /\ mmu' = [mmu EXCEPT !.ttb = ttb]
    /\ UNCHANGED <<mem, tlb, ic, stores>>
    /\ History({}, {}, {})

McrDacr(dacr) ==
    /\ mmu' = [mmu EXCEPT !.dacr = dacr]
    /\ UNCHANGED <<mem, tlb, ic, stores>>
    /\ History({}, {}, {})

McrPid(pid) ==
    /\ mmu' = [mmu EXCEPT !.pid = pid]
    /\ UNCHANGED <<mem, tlb, ic, stores>>
    /\ History({}, {}, {})

TlbInvalidateAll ==
    /\ tlb' = EmptyTlb
    /\ UNCHANGED <<mem, mmu, ic, stores>>
    /\ History(Va, {}, {})

\* mmu_tlb_invalidate_entry: the guest names an address, and the first entry
\* that covers it goes, with the whole of what that entry mapped.
TlbInvalidateEntry(va) ==
    /\ tlb' = TlbWithout(tlb, va)
    /\ UNCHANGED <<mem, mmu, ic, stores>>
    /\ History({v \in Va : \/ v = va
                           \/ \E i \in Hits(tlb, va) : Covers(tlb.entrys[i], v)},
               {}, {})

CacheInvalidateAll ==
    /\ ic' = [ic EXCEPT !.lines = EmptyLines]
    /\ UNCHANGED <<mem, mmu, tlb, stores>>
    /\ History({}, Va, {})

CacheInvalidate(va) ==
    /\ ic' = IcWithout(ic, va)
    /\ UNCHANGED <<mem, mmu, tlb, stores>>
    /\ History({}, {va}, {})

CacheInvalidateIndex(s, w) ==
    /\ ic' = [ic EXCEPT !.lines[s][w] = NoLine]
    /\ UNCHANGED <<mem, mmu, tlb, stores>>
    /\ History({}, {va \in Va : ic.lines[s][w].tag = va /\ CacheSet(va) = s}, {})

-----------------------------------------------------------------------------
Init ==
    /\ mem \in InitMems
    /\ mmu \in [on : {FALSE}, align : {FALSE}, s : {FALSE}, r : {FALSE},
                ttb : {0}, pid : {0}, dacr : {InitDacr}]
    /\ tlb = EmptyTlb
    /\ ic = [lines |-> EmptyLines, cycle |-> [s \in 0 .. IcSets - 1 |-> 0]]
    /\ dirty = {} /\ taint = FALSE /\ stale = {} /\ stores = 0

Next ==
    \/ \E a \in Touched, user \in BOOLEAN : LoadInstr(a, user)
    \/ \E a \in Touched, user, mis \in BOOLEAN : Read(a, user, mis)
    \/ \E a \in Touched, user, mis \in BOOLEAN, w \in StoreWords :
          Write(a, user, mis, w)
    \/ \E pa \in DmaAddrs, w \in StoreWords : DeviceWrite(pa, w)
    \/ \E c \in Controls : McrControl(c)
    \/ \E t \in Ttbs : McrTtb(t)
    \/ \E d \in Dacrs : McrDacr(d)
    \/ \E p \in Pids : McrPid(p)
    \/ TlbInvalidateAll
    \/ \E a \in Touched : TlbInvalidateEntry(a)
    \/ CacheInvalidateAll
    \/ \E a \in Touched : CacheInvalidate(a)
    \/ \E s \in 0 .. IcSets - 1, w \in 0 .. IcWays - 1 : CacheInvalidateIndex(s, w)

Spec == Init /\ [][Next]_vars

-----------------------------------------------------------------------------
\* Every entry agrees with the tables at the addresses it covers, save those
\* the TLB has yet to be told of.
TlbCoherent ==
    ~taint => \A i \in Slots, va \in Va \ dirty :
                 Covers(tlb.entrys[i], va) => tlb.entrys[i] = Walk(mem, mmu.ttb, va)

\* No address is covered twice, so the first match is the only one.
OneHit ==
    ~taint => \A va \in Va : \A i, j \in Hits(tlb, va) : i = j

\* The TLB cannot be noticed by a guest that plays by the rules.  As long as
\* no entry was loaded over an address whose tables had changed since the TLB
\* was told, every other address translates exactly as a walk of the tables
\* would now, whichever slots the entries of different sizes lie in and
\* whichever of them mmu_tlb_invalidate_entry removed (tlb.c:281).
TlbInvisible ==
    ~taint => \A va \in Va \ dirty :
                 Translate(tlb, mem, mmu.ttb, va).entry = Walk(mem, mmu.ttb, va)

\* A fetch that hits the instruction cache returns the word memory holds,
\* unless the word or its translation changed since the cache was told; an
\* invalidation of the cache that came before that of the TLB does not count
\* (arm926ejs_mmu.c:182).
FetchCurrent ==
    \A va \in Va \ stale : \A w \in IcHits(ic, va) :
        Backing(mem, mmu, va) \subseteq {ic.lines[CacheSet(va)][w].word}
=============================================================================
