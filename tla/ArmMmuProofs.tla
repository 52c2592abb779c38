---------------------------- MODULE ArmMmuProofs ----------------------------
(***************************************************************************)
(* For every size of the TLB, of its pages and of the tables: a guest that *)
(* invalidates what it changed before it uses it cannot notice the TLB.    *)
(***************************************************************************)
EXTENDS ArmMmu, TLAPS

\* The TLB is a record of TlbNum slots, and the next one to fill is in range.
TlbShape ==
    /\ tlb = [entrys |-> tlb.entrys, cycle |-> tlb.cycle]
    /\ tlb.entrys = [i \in Slots |-> tlb.entrys[i]]
    /\ tlb.cycle \in Slots

TlbInv == TlbShape /\ TlbCoherent /\ OneHit

-----------------------------------------------------------------------------
\* What a walk finds for an address covers that address.
LEMMA WalkCovers ==
    ASSUME NEW m, NEW ttb, NEW va
    PROVE  \/ Walk(m, ttb, va).mapping = "FAULT"
           \/ Covers(Walk(m, ttb, va), va)
<1> DEFINE l1 == m[ttb + va \div Size["SECTION"]]
<1>1. ASSUME NEW k \in Mappings, NEW d, NEW dom
      PROVE  Covers(Entry(va, k, d, dom), va)
  BY <1>1 DEF Covers, Entry
<1>2. /\ "LARGEPAGE" \in Mappings /\ "SMALLPAGE" \in Mappings
      /\ "TINYPAGE" \in Mappings /\ "SECTION" \in Mappings
  BY DEF Mappings
<1>3. \/ CoarseWalk(m, va, l1).mapping = "FAULT"
      \/ Covers(CoarseWalk(m, va, l1), va)
  <2> DEFINE l2 == m[l1.base + (va % Size["SECTION"]) \div Size["SMALLPAGE"]]
  <2>1. CASE l2.type \in {0, 3}
    BY <2>1 DEF CoarseWalk, TranslationFault
  <2>2. CASE l2.type \notin {0, 3} /\ l2.type = 1
    BY <2>2, <1>1, <1>2 DEF CoarseWalk
  <2>3. CASE l2.type \notin {0, 1, 3}
    BY <2>3, <1>1, <1>2 DEF CoarseWalk
  <2> QED BY <2>1, <2>2, <2>3
<1>4. \/ FineWalk(m, va, l1).mapping = "FAULT"
      \/ Covers(FineWalk(m, va, l1), va)
  <2> DEFINE l2 == m[l1.base + (va % Size["SECTION"]) \div Size["TINYPAGE"]]
  <2>1. CASE l2.type = 0
    BY <2>1 DEF FineWalk, TranslationFault
  <2>2. CASE l2.type = 1
    BY <2>2, <1>1, <1>2 DEF FineWalk
  <2>3. CASE l2.type = 3
    BY <2>3, <1>1, <1>2 DEF FineWalk
  <2>4. CASE l2.type \notin {0, 1, 3}
    BY <2>4, <1>1, <1>2 DEF FineWalk
  <2> QED BY <2>1, <2>2, <2>3, <2>4
<1>5. CASE l1.type = 0
  BY <1>5 DEF Walk, TranslationFault
<1>6. CASE l1.type = 1
  BY <1>6, <1>3 DEF Walk
<1>7. CASE l1.type = 3
  BY <1>7, <1>4 DEF Walk
<1>8. CASE l1.type \notin {0, 1, 3}
  BY <1>8, <1>1, <1>2 DEF Walk
<1> QED BY <1>5, <1>6, <1>7, <1>8

\* What a step's history says of the addresses it leaves clean.
LEMMA HistoryFacts ==
    ASSUME NEW T, NEW I, NEW L, History(T, I, L)
    PROVE  /\ \A v \in Va \ dirty' :
                 /\ v \in dirty => v \in T
                 /\ v \notin T =>
                      Walk(mem', mmu'.ttb, v) = Walk(mem, mmu.ttb, v)
           /\ ~taint' /\ tlb' # EmptyTlb =>
                 /\ ~taint
                 /\ \A e \in L, v \in Va : Covers(e, v) =>
                       v \notin dirty /\ Walk(mem, mmu.ttb, v) = e
<1> DEFINE same == UNCHANGED <<mem, mmu>>
           moved == {va \in Va : /\ ~same
                                 /\ Walk(mem', mmu'.ttb, va) # Walk(mem, mmu.ttb, va)}
<1>1. dirty' = (dirty \cup moved) \ T
  BY DEF History
<1>2. ASSUME NEW v \in Va, v \notin moved
      PROVE  Walk(mem', mmu'.ttb, v) = Walk(mem, mmu.ttb, v)
  <2>1. CASE same
    BY <2>1
  <2>2. CASE ~same
    BY <2>2, <1>2
  <2> QED BY <2>1, <2>2
<1>3. \A v \in Va \ dirty' : /\ v \in dirty => v \in T
                             /\ v \notin T => v \notin moved
  BY <1>1
<1>4. ~taint' /\ tlb' # EmptyTlb =>
         /\ ~taint
         /\ \A e \in L, v \in Va : Covers(e, v) =>
               v \notin dirty /\ Walk(mem, mmu.ttb, v) = e
  BY DEF History
<1> QED BY <1>2, <1>3, <1>4

-----------------------------------------------------------------------------
\* The empty TLB is coherent whatever the tables hold.
LEMMA EmptyIsCoherent ==
    /\ \A i \in Slots : \A va : ~Covers(EmptyTlb.entrys[i], va)
    /\ \A va : Hits(EmptyTlb, va) = {}
    /\ EmptyTlb = [entrys |-> EmptyTlb.entrys, cycle |-> EmptyTlb.cycle]
    /\ EmptyTlb.entrys = [i \in Slots |-> EmptyTlb.entrys[i]]
    /\ EmptyTlb.cycle \in Slots
<1>1. Invalid.mapping \notin Mappings
  BY DEF Invalid, Mappings
<1>2. \A i \in Slots : EmptyTlb.entrys[i] = Invalid
  BY DEF EmptyTlb
<1>3. \A i \in Slots : \A va : ~Covers(EmptyTlb.entrys[i], va)
  BY <1>1, <1>2 DEF Covers
<1>4. \A va : Hits(EmptyTlb, va) = {}
  BY <1>3 DEF Hits
<1>5. /\ EmptyTlb = [entrys |-> EmptyTlb.entrys, cycle |-> EmptyTlb.cycle]
      /\ EmptyTlb.entrys = [i \in Slots |-> EmptyTlb.entrys[i]]
      /\ EmptyTlb.cycle \in Slots
  BY MmuAssumption DEF EmptyTlb, Slots
<1> QED BY <1>3, <1>4, <1>5

\* A step that leaves the TLB alone keeps the invariant: the history marks
\* what it changes in the tables.
LEMMA KeptTlb ==
    ASSUME TlbInv, NEW I, tlb' = tlb, History({}, I, {})
    PROVE  TlbInv'
<1>1. TlbShape'
  BY DEF TlbInv, TlbShape
<1>2. CASE tlb = EmptyTlb
  BY <1>1, <1>2, EmptyIsCoherent DEF TlbInv, TlbCoherent, OneHit
<1>3. CASE tlb # EmptyTlb
  <2>1. ~taint' => ~taint
    BY <1>3, HistoryFacts
  <2>2. \A v \in Va \ dirty' : /\ v \notin dirty
                               /\ Walk(mem', mmu'.ttb, v) = Walk(mem, mmu.ttb, v)
    BY HistoryFacts
  <2>3. TlbCoherent'
    BY <2>1, <2>2 DEF TlbInv, TlbCoherent
  <2>4. OneHit'
    BY <2>1 DEF TlbInv, OneHit
  <2> QED BY <1>1, <2>3, <2>4 DEF TlbInv
<1> QED BY <1>2, <1>3

\* The whole TLB is invalidated.
LEMMA EmptiedTlb ==
    ASSUME TlbInv, tlb' = EmptyTlb
    PROVE  TlbInv'
BY EmptyIsCoherent DEF TlbInv, TlbShape, TlbCoherent, OneHit

\* One entry is invalidated: no other entry covers what it covered.
LEMMA OneInvalidated ==
    ASSUME TlbInv, NEW va \in Va, tlb' = TlbWithout(tlb, va),
           NEW T, T = {v \in Va : \/ v = va
                                  \/ \E i \in Hits(tlb, va) : Covers(tlb.entrys[i], v)},
           mem' = mem, mmu' = mmu,
           History(T, {}, {})
    PROVE  TlbInv'
<1>1. CASE Hits(tlb, va) = {}
  <2>1. tlb' = tlb
    BY <1>1 DEF TlbWithout
  <2>2. CASE tlb = EmptyTlb
    BY <2>1, <2>2, EmptiedTlb
  <2>3. CASE tlb # EmptyTlb
    <3>1. ~taint' => ~taint
      BY <2>1, <2>3, HistoryFacts
    <3>2. \A v \in Va \ dirty' : v \notin dirty \/ v = va
      BY <1>1, HistoryFacts
    <3>3. \A i \in Slots : ~Covers(tlb.entrys[i], va)
      BY <1>1 DEF Hits
    <3>4. TlbCoherent'
      BY <2>1, <3>1, <3>2, <3>3 DEF TlbInv, TlbCoherent
    <3> QED BY <2>1, <3>1, <3>4 DEF TlbInv, TlbShape, OneHit
  <2> QED BY <2>2, <2>3
<1>2. CASE Hits(tlb, va) # {}
  <2> DEFINE f == First(Hits(tlb, va))
  <2>1. tlb' = [tlb EXCEPT !.entrys[f] = Invalid]
    BY <1>2 DEF TlbWithout
  <2>2. /\ tlb'.entrys = [tlb.entrys EXCEPT ![f] = Invalid]
        /\ tlb'.cycle = tlb.cycle
        /\ tlb' = [entrys |-> tlb'.entrys, cycle |-> tlb'.cycle]
    BY <2>1 DEF TlbInv, TlbShape
  <2>3. TlbShape'
    BY <2>2 DEF TlbInv, TlbShape
  <2>4. CASE tlb' = EmptyTlb
    BY <2>4, EmptiedTlb
  <2>5. CASE tlb' # EmptyTlb /\ ~taint'
    <3>1. ~taint
      BY <2>5, HistoryFacts
    <3>2. PICK i \in Slots : /\ Hits(tlb, va) = {i}
                             /\ Covers(tlb.entrys[i], va)
      BY <1>2, <3>1 DEF TlbInv, OneHit, Hits
    <3>3. f = i
      <4>1. i <= i
        BY MmuAssumption DEF Slots
      <4> QED BY <3>2, <4>1 DEF First
    <3>4. \A k \in Slots : tlb'.entrys[k] = IF k = i THEN Invalid ELSE tlb.entrys[k]
      BY <2>2, <3>3 DEF TlbInv, TlbShape
    <3>5. \A v : ~Covers(Invalid, v)
      BY DEF Covers, Invalid, Mappings
    <3>6. \A v \in Va : Hits(tlb', v) \subseteq Hits(tlb, v)
      BY <3>4, <3>5 DEF Hits
    <3>7. OneHit'
      BY <3>1, <3>6 DEF TlbInv, OneHit
    <3>8. ASSUME NEW k \in Slots, NEW v \in Va \ dirty', Covers(tlb'.entrys[k], v)
          PROVE  tlb'.entrys[k] = Walk(mem', mmu'.ttb, v)
      <4>1. k # i /\ tlb'.entrys[k] = tlb.entrys[k]
        BY <3>4, <3>5, <3>8
      <4>2. k \in Hits(tlb, v)
        BY <3>8, <4>1 DEF Hits
      <4>3. v # va
        BY <3>2, <4>1, <4>2
      <4>4. ~Covers(tlb.entrys[i], v)
        BY <3>1, <4>1, <4>2 DEF TlbInv, OneHit, Hits
      <4>5. v \notin dirty
        BY <3>2, <4>3, <4>4, HistoryFacts
      <4> QED BY <3>1, <3>8, <4>1, <4>5 DEF TlbInv, TlbCoherent
    <3>9. TlbCoherent'
      BY <3>8 DEF TlbCoherent
    <3> QED BY <2>3, <3>7, <3>9 DEF TlbInv
  <2>6. CASE taint'
    BY <2>3, <2>6 DEF TlbInv, TlbCoherent, OneHit
  <2> QED BY <2>4, <2>5, <2>6
<1> QED BY <1>1, <1>2

\* An access translates va: on a miss it loads an entry, over addresses that
\* no other entry covers, since those entries would be the loaded one and
\* would cover va.
LEMMA AccessTlb ==
    ASSUME TlbInv, NEW va, NEW x, x = Translate(tlb, mem, mmu.ttb, va),
           tlb' = x.tlb, History({}, {}, NewLoads(x))
    PROVE  TlbInv'
<1>1. CASE x.tlb = tlb
  BY <1>1, KeptTlb DEF NewLoads
<1>2. CASE x.tlb # tlb
  <2> DEFINE e == Walk(mem, mmu.ttb, va)
             c == tlb.cycle
  <2>1. /\ Hits(tlb, va) = {}
        /\ x.entry = e /\ e.mapping # "FAULT" /\ x.tlb = Loaded(tlb, e)
    BY <1>2 DEF Translate
  <2>2. NewLoads(x) = {e}
    BY <1>2, <2>1 DEF NewLoads
  <2>3. /\ tlb' = [entrys |-> tlb'.entrys, cycle |-> tlb'.cycle]
        /\ tlb'.entrys = [tlb.entrys EXCEPT ![c] = e]
        /\ tlb'.cycle = (c + 1) % TlbNum
    BY <2>1 DEF Loaded
  <2>4. c \in Slots /\ c \in Nat
    BY MmuAssumption DEF TlbInv, TlbShape, Slots
  <2>5. (c + 1) % TlbNum \in Slots
    BY <2>4, MmuAssumption DEF Slots
  <2>6. \A k \in Slots : tlb'.entrys[k] = IF k = c THEN e ELSE tlb.entrys[k]
    BY <2>3 DEF TlbInv, TlbShape
  <2>7. TlbShape'
    BY <2>3, <2>5 DEF TlbInv, TlbShape
  <2>8. CASE taint'
    BY <2>7, <2>8 DEF TlbInv, TlbCoherent, OneHit
  <2>9. CASE tlb' = EmptyTlb
    BY <2>9, EmptiedTlb
  <2>10. CASE ~taint' /\ tlb' # EmptyTlb
    <3>1. ~taint
      BY <2>10, HistoryFacts
    <3>2. \A v \in Va : Covers(e, v) => v \notin dirty /\ Walk(mem, mmu.ttb, v) = e
      BY <2>2, <2>10, HistoryFacts
    <3>3. \A v \in Va \ dirty' : /\ v \notin dirty
                                 /\ Walk(mem', mmu'.ttb, v) = Walk(mem, mmu.ttb, v)
      BY HistoryFacts
    <3>4. TlbCoherent'
      <4>1. ASSUME NEW k \in Slots, NEW v \in Va \ dirty', Covers(tlb'.entrys[k], v)
            PROVE  tlb'.entrys[k] = Walk(mem', mmu'.ttb, v)
        <5>1. CASE k = c
          BY <5>1, <4>1, <2>6, <3>2, <3>3
        <5>2. CASE k # c
          BY <5>2, <4>1, <2>6, <3>1, <3>3 DEF TlbInv, TlbCoherent
        <5> QED BY <5>1, <5>2
      <4> QED BY <4>1 DEF TlbCoherent
    <3>5. Covers(e, va)
      BY <2>1, WalkCovers
    <3>6. ASSUME NEW v \in Va, NEW k \in Slots, k # c,
                 Covers(e, v), Covers(tlb.entrys[k], v)
          PROVE  FALSE
      <4>1. tlb.entrys[k] = e
        BY <3>1, <3>2, <3>6 DEF TlbInv, TlbCoherent
      <4>2. k \in Hits(tlb, va)
        BY <3>5, <4>1 DEF Hits
      <4> QED BY <2>1, <4>2
    <3>7. ASSUME NEW v \in Va, NEW i \in Hits(tlb', v), NEW j \in Hits(tlb', v)
          PROVE  i = j
      <4>1. i \in Slots /\ j \in Slots
        BY <3>7 DEF Hits
      <4>2. Covers(tlb'.entrys[i], v) /\ Covers(tlb'.entrys[j], v)
        BY <3>7 DEF Hits
      <4>3. CASE i # c /\ j # c
        <5>1. i \in Hits(tlb, v) /\ j \in Hits(tlb, v)
          BY <4>1, <4>2, <4>3, <2>6 DEF Hits
        <5> QED BY <5>1, <3>1 DEF TlbInv, OneHit
      <4>4. CASE i = c /\ j # c
        BY <4>1, <4>2, <4>4, <2>6, <3>6
      <4>5. CASE i # c /\ j = c
        BY <4>1, <4>2, <4>5, <2>6, <3>6
      <4> QED BY <4>3, <4>4, <4>5
    <3>8. OneHit'
      BY <3>7 DEF OneHit
    <3> QED BY <2>7, <3>4, <3>8 DEF TlbInv
  <2> QED BY <2>8, <2>9, <2>10
<1> QED BY <1>1, <1>2

-----------------------------------------------------------------------------
\* Every step keeps the invariant.
LEMMA NextKeepsTlb ==
    ASSUME TlbInv, Next
    PROVE  TlbInv'
<1>1. ASSUME NEW a \in Touched, NEW user \in BOOLEAN, LoadInstr(a, user)
      PROVE  TlbInv'
  <2>1. CASE mmu.on
    BY <1>1, <2>1, AccessTlb DEF LoadInstr
  <2>2. CASE ~mmu.on
    BY <1>1, <2>2, KeptTlb DEF LoadInstr
  <2> QED BY <2>1, <2>2
<1>2. ASSUME NEW a, NEW user, NEW mis, NEW rd, NEW st,
             DataAccess(a, user, mis, rd, st)
      PROVE  TlbInv'
  <2>1. CASE ~mmu.on \/ (mis /\ mmu.align)
    BY <1>2, <2>1, KeptTlb DEF DataAccess
  <2>2. CASE mmu.on /\ ~(mis /\ mmu.align)
    BY <1>2, <2>2, AccessTlb DEF DataAccess
  <2> QED BY <2>1, <2>2
<1>3. ASSUME NEW a \in Touched, NEW user \in BOOLEAN, NEW mis \in BOOLEAN,
             Read(a, user, mis)
      PROVE  TlbInv'
  BY <1>2, <1>3 DEF Read
<1>4. ASSUME NEW a \in Touched, NEW user \in BOOLEAN, NEW mis \in BOOLEAN,
             NEW w \in StoreWords, Write(a, user, mis, w)
      PROVE  TlbInv'
  BY <1>2, <1>4 DEF Write
<1>5. ASSUME NEW pa \in DmaAddrs, NEW w \in StoreWords, DeviceWrite(pa, w)
      PROVE  TlbInv'
  BY <1>5, KeptTlb DEF DeviceWrite
<1>6. ASSUME NEW c \in Controls, McrControl(c)
      PROVE  TlbInv'
  BY <1>6, KeptTlb DEF McrControl
<1>7. ASSUME NEW t \in Ttbs, McrTtb(t)
      PROVE  TlbInv'
  BY <1>7, KeptTlb DEF McrTtb
<1>8. ASSUME NEW d \in Dacrs, McrDacr(d)
      PROVE  TlbInv'
  BY <1>8, KeptTlb DEF McrDacr
<1>9. ASSUME NEW p \in Pids, McrPid(p)
      PROVE  TlbInv'
  BY <1>9, KeptTlb DEF McrPid
<1>10. ASSUME TlbInvalidateAll
       PROVE  TlbInv'
  BY <1>10, EmptiedTlb DEF TlbInvalidateAll
<1>11. ASSUME NEW a \in Touched, TlbInvalidateEntry(a)
       PROVE  TlbInv'
  BY <1>11, OneInvalidated, MmuAssumption DEF TlbInvalidateEntry
<1>12. ASSUME CacheInvalidateAll
       PROVE  TlbInv'
  BY <1>12, KeptTlb DEF CacheInvalidateAll
<1>13. ASSUME NEW a \in Touched, CacheInvalidate(a)
       PROVE  TlbInv'
  BY <1>13, KeptTlb DEF CacheInvalidate
<1>14. ASSUME NEW s \in 0 .. IcSets - 1, NEW w \in 0 .. IcWays - 1,
              CacheInvalidateIndex(s, w)
       PROVE  TlbInv'
  BY <1>14, KeptTlb DEF CacheInvalidateIndex
<1> QED BY <1>1, <1>3, <1>4, <1>5, <1>6, <1>7, <1>8, <1>9, <1>10, <1>11,
           <1>12, <1>13, <1>14 DEF Next

\* The invariant holds of every behaviour.
THEOREM TlbInvariant == Spec => []TlbInv
<1>1. Init => TlbInv
  BY EmptyIsCoherent DEF Init, TlbInv, TlbShape, TlbCoherent, OneHit
<1>2. TlbInv /\ [Next]_vars => TlbInv'
  <2>1. ASSUME TlbInv, UNCHANGED vars
        PROVE  TlbInv'
    BY <2>1 DEF vars, TlbInv, TlbShape, TlbCoherent, OneHit
  <2> QED BY <2>1, NextKeepsTlb
<1> QED BY <1>1, <1>2, PTL DEF Spec

\* The only entry that covers an address is the first.
LEMMA OnlyHit ==
    ASSUME TlbInv, ~taint, NEW va \in Va, Hits(tlb, va) # {}
    PROVE  /\ First(Hits(tlb, va)) \in Slots
           /\ Covers(tlb.entrys[First(Hits(tlb, va))], va)
<1>1. PICK i \in Slots : Hits(tlb, va) = {i} /\ Covers(tlb.entrys[i], va)
  BY DEF TlbInv, OneHit, Hits
<1>2. i <= i
  BY MmuAssumption DEF Slots
<1>3. First({i}) = i
  BY <1>2 DEF First
<1> QED BY <1>1, <1>3

\* A translation is the walk's, where the TLB has been told of every change.
LEMMA TranslateIsWalk ==
    ASSUME TlbInv, ~taint, NEW va \in Va \ dirty
    PROVE  Translate(tlb, mem, mmu.ttb, va).entry = Walk(mem, mmu.ttb, va)
<1>1. CASE Hits(tlb, va) = {}
  BY <1>1 DEF Translate
<1>2. CASE Hits(tlb, va) # {}
  BY <1>2, OnlyHit DEF Translate, TlbInv, TlbCoherent
<1> QED BY <1>1, <1>2

\* A guest that invalidates what it changes before it uses it cannot notice
\* the TLB of arm926ejs_mmu.c, for any number of entries and any page sizes.
THEOREM TlbIsInvisible == Spec => []TlbInvisible
<1>1. TlbInv => TlbInvisible
  BY TranslateIsWalk DEF TlbInvisible
<1> QED BY <1>1, TlbInvariant, PTL

-----------------------------------------------------------------------------
(***************************************************************************)
(* The instruction cache.                                                  *)
(***************************************************************************)
Sets == 0 .. IcSets - 1
Ways == 0 .. IcWays - 1

IcShape ==
    /\ ic = [lines |-> ic.lines, cycle |-> ic.cycle]
    /\ ic.lines = [s \in Sets |-> ic.lines[s]]
    /\ \A s \in Sets : ic.lines[s] = [w \in Ways |-> ic.lines[s][w]]

\* No address is cached twice, so an invalidation leaves no copy behind.
OneLine == \A v \in Va : \A w1, w2 \in IcHits(ic, v) : w1 = w2

\* What the TLB has not been told of counts as changed for the cache too.
StaleCovers == IF taint THEN stale = Va ELSE dirty \subseteq stale

IcInv == IcShape /\ OneLine /\ StaleCovers /\ FetchCurrent

\* What a step's history says of the addresses the cache may answer for.
LEMMA StaleFacts ==
    ASSUME NEW T, NEW I, NEW L, History(T, I, L)
    PROVE  /\ StaleCovers'
           /\ \A v \in Va \ stale' :
                 /\ ~taint' /\ v \notin dirty'
                 /\ v \in stale => v \in I
                 /\ Backing(mem', mmu', v) = Backing(mem, mmu, v)
<1> DEFINE same == UNCHANGED <<mem, mmu>>
           changed == {va \in Va : /\ ~same
                                   /\ Backing(mem', mmu', va) # Backing(mem, mmu, va)}
<1>1. stale' = IF taint' THEN Va ELSE (stale \ I) \cup changed \cup dirty'
  BY DEF History
<1>2. ASSUME NEW v \in Va, v \notin changed
      PROVE  Backing(mem', mmu', v) = Backing(mem, mmu, v)
  <2>1. CASE same
    BY <2>1
  <2>2. CASE ~same
    BY <2>2, <1>2
  <2> QED BY <2>1, <2>2
<1>3. StaleCovers'
  BY <1>1 DEF StaleCovers
<1>4. \A v \in Va \ stale' :
         ~taint' /\ v \notin dirty' /\ (v \in stale => v \in I) /\ v \notin changed
  BY <1>1
<1> QED BY <1>2, <1>3, <1>4

\* A step that leaves the cache alone.
LEMMA KeptCache ==
    ASSUME IcInv, NEW T, NEW L, ic' = ic, History(T, {}, L)
    PROVE  IcInv'
<1>1. \A v \in Va \ stale' : /\ v \notin stale
                             /\ Backing(mem', mmu', v) = Backing(mem, mmu, v)
  BY StaleFacts
<1>2. FetchCurrent'
  BY <1>1 DEF IcInv, FetchCurrent
<1> QED BY <1>2, StaleFacts DEF IcInv, IcShape, OneLine

\* The sets of the addresses exist.
LEMMA SetInRange ==
    ASSUME NEW v \in Va
    PROVE  CacheSet(v) \in Sets
BY MmuAssumption DEF CacheSet, Sets

\* A line is filled for an address that has none, with the word behind it.
LEMMA FilledCache ==
    ASSUME IcInv, NEW va, NEW word, NEW T, NEW L, IcHits(ic, va) = {},
           ic' = IcFilled(ic, va, word), History(T, {}, L),
           va \in Va \ stale' => Backing(mem', mmu', va) \subseteq {word}
    PROVE  IcInv'
<1> DEFINE s == CacheSet(va)
           c == ic.cycle[s]
           line == [tag |-> va, word |-> word]
<1>1. /\ ic' = [lines |-> ic'.lines, cycle |-> ic'.cycle]
      /\ ic'.lines = [ic.lines EXCEPT ![s][c] = line]
  BY DEF IcFilled
<1>2. ASSUME NEW t \in Sets, NEW w \in Ways
      PROVE  ic'.lines[t][w] = IF t = s /\ w = c THEN line ELSE ic.lines[t][w]
  <2>1. ic'.lines[t] = IF t = s THEN [ic.lines[t] EXCEPT ![c] = line]
                                ELSE ic.lines[t]
    BY <1>1 DEF IcInv, IcShape
  <2>2. ic.lines[t] = [u \in Ways |-> ic.lines[t][u]]
    BY DEF IcInv, IcShape
  <2> HIDE DEF line, c, s
  <2> QED BY <2>1, <2>2
<1>3. IcShape'
  <2>1. ic'.lines = [t \in Sets |-> ic'.lines[t]]
    BY <1>1 DEF IcInv, IcShape
  <2>2. ASSUME NEW t \in Sets
        PROVE  ic'.lines[t] = [w \in Ways |-> ic'.lines[t][w]]
    BY <1>1, <2>2 DEF IcInv, IcShape
  <2> QED BY <1>1, <2>1, <2>2 DEF IcShape
<1>4. ASSUME NEW v \in Va, NEW w \in IcHits(ic', v)
      PROVE  /\ w \in Ways
             /\ \/ /\ w \in IcHits(ic, v)
                   /\ ic'.lines[CacheSet(v)][w] = ic.lines[CacheSet(v)][w]
                \/ v = va /\ w = c /\ ic'.lines[CacheSet(v)][w] = line
  <2>1. CacheSet(v) \in Sets /\ w \in Ways /\ ic'.lines[CacheSet(v)][w].tag = v
    BY <1>4, SetInRange DEF IcHits, Ways
  <2>2. CASE CacheSet(v) = s /\ w = c
    BY <2>1, <2>2, <1>2
  <2>3. CASE ~(CacheSet(v) = s /\ w = c)
    BY <2>1, <2>3, <1>2 DEF IcHits, Ways
  <2> QED BY <2>1, <2>2, <2>3
<1>5. OneLine'
  BY <1>4 DEF IcInv, OneLine
<1>6. ASSUME NEW v \in Va \ stale', NEW w \in IcHits(ic', v)
      PROVE  Backing(mem', mmu', v) \subseteq {ic'.lines[CacheSet(v)][w].word}
  <2>1. v \notin stale /\ Backing(mem', mmu', v) = Backing(mem, mmu, v)
    BY StaleFacts
  <2>2. CASE w \in IcHits(ic, v) /\ ic'.lines[CacheSet(v)][w] = ic.lines[CacheSet(v)][w]
    BY <2>1, <2>2 DEF IcInv, FetchCurrent
  <2>3. CASE v = va /\ ic'.lines[CacheSet(v)][w] = line
    BY <2>3
  <2> QED BY <1>4, <2>2, <2>3
<1>7. FetchCurrent'
  BY <1>6 DEF FetchCurrent
<1> QED BY <1>3, <1>5, <1>7, StaleFacts DEF IcInv

\* Lines go, and the cache answers for the addresses they had as well.
LEMMA InvalidatedCache ==
    ASSUME IcInv, NEW I, History({}, I, {}), IcShape',
           \A v \in Va : \A w \in IcHits(ic', v) :
              /\ v \notin I /\ w \in IcHits(ic, v)
              /\ ic'.lines[CacheSet(v)][w] = ic.lines[CacheSet(v)][w]
    PROVE  IcInv'
<1>1. OneLine'
  BY DEF IcInv, OneLine
<1>2. ASSUME NEW v \in Va \ stale', NEW w \in IcHits(ic', v)
      PROVE  Backing(mem', mmu', v) \subseteq {ic'.lines[CacheSet(v)][w].word}
  <2>1. v \notin stale /\ Backing(mem', mmu', v) = Backing(mem, mmu, v)
    BY StaleFacts
  <2> QED BY <2>1 DEF IcInv, FetchCurrent
<1>3. FetchCurrent'
  BY <1>2 DEF FetchCurrent
<1> QED BY <1>1, <1>3, StaleFacts DEF IcInv

\* Clearing one line of the cache.
LEMMA ClearedLine ==
    ASSUME IcShape, NEW t \in Sets, NEW u \in Ways,
           ic' = [ic EXCEPT !.lines[t][u] = NoLine]
    PROVE  /\ IcShape'
           /\ \A v \in Va : \A w \in IcHits(ic', v) :
                 /\ w \in IcHits(ic, v)
                 /\ ic'.lines[CacheSet(v)][w] = ic.lines[CacheSet(v)][w]
                 /\ ~(CacheSet(v) = t /\ w = u)
<1>1. /\ ic' = [lines |-> ic'.lines, cycle |-> ic'.cycle]
      /\ ic'.lines = [ic.lines EXCEPT ![t][u] = NoLine]
  BY DEF IcShape
<1>2. ASSUME NEW r \in Sets, NEW w \in Ways
      PROVE  ic'.lines[r][w] = IF r = t /\ w = u THEN NoLine ELSE ic.lines[r][w]
  BY <1>1, <1>2 DEF IcShape
<1>3. IcShape'
  <2>1. ic'.lines = [r \in Sets |-> ic'.lines[r]]
    BY <1>1 DEF IcShape
  <2>2. ASSUME NEW r \in Sets
        PROVE  ic'.lines[r] = [w \in Ways |-> ic'.lines[r][w]]
    BY <1>1, <2>2 DEF IcShape
  <2> QED BY <1>1, <2>1, <2>2 DEF IcShape
<1>4. ASSUME NEW v \in Va, NEW w \in IcHits(ic', v)
      PROVE  /\ w \in IcHits(ic, v)
             /\ ic'.lines[CacheSet(v)][w] = ic.lines[CacheSet(v)][w]
             /\ ~(CacheSet(v) = t /\ w = u)
  <2>1. CacheSet(v) \in Sets /\ w \in Ways /\ ic'.lines[CacheSet(v)][w].tag = v
    BY <1>4, SetInRange DEF IcHits, Ways
  <2>2. NoLine.tag # v
    BY MmuAssumption DEF NoLine
  <2>3. ~(CacheSet(v) = t /\ w = u)
    BY <2>1, <2>2, <1>2
  <2> QED BY <2>1, <2>3, <1>2 DEF IcHits, Ways
<1> QED BY <1>3, <1>4

-----------------------------------------------------------------------------
\* The fetch: the word it caches is the one the walk leads to, unless the TLB
\* it went through was out of date, and then the address stays stale.
LEMMA FetchKeepsCache ==
    ASSUME TlbInv, TlbInv', IcInv, NEW a, NEW user, LoadInstr(a, user)
    PROVE  IcInv'
<1> DEFINE va == PidVaMap(a)
<1>1. CASE mmu.on
  <2>1. PICK x : /\ x = Translate(tlb, mem, mmu.ttb, va)
                 /\ tlb' = x.tlb
                 /\ ic' = IF \/ Answer(x.entry, va, TRUE, mmu, user) # "NO_FAULT"
                             \/ IcHits(ic, va) # {}
                             \/ ~x.entry.c
                          THEN ic
                          ELSE IcFilled(ic, va, mem[VaToPa(x.entry, va)])
                 /\ mem' = mem /\ mmu' = mmu
                 /\ History({}, {}, NewLoads(x))
    BY <1>1 DEF LoadInstr
  <2>2. CASE ic' = ic
    BY <2>1, <2>2, KeptCache
  <2>3. CASE ic' # ic
    <3>1. /\ Answer(x.entry, va, TRUE, mmu, user) = "NO_FAULT"
          /\ IcHits(ic, va) = {}
          /\ ic' = IcFilled(ic, va, mem[VaToPa(x.entry, va)])
      BY <2>1, <2>3
    <3>2. x.entry.mapping # "FAULT"
      BY <3>1 DEF Answer
    <3>3. ASSUME va \in Va \ stale'
          PROVE  Backing(mem', mmu', va) \subseteq {mem[VaToPa(x.entry, va)]}
      <4>1. ~taint' /\ va \in Va \ dirty'
        BY <2>1, <3>3, StaleFacts
      <4>2. x.entry = Walk(mem, mmu.ttb, va)
        <5>1. CASE Hits(tlb, va) = {}
          BY <5>1, <2>1 DEF Translate
        <5>2. CASE Hits(tlb, va) # {}
          <6>1. tlb' = tlb /\ x.entry = tlb.entrys[First(Hits(tlb, va))]
            BY <5>2, <2>1 DEF Translate
          <6>2. PICK i \in Slots : Hits(tlb, va) = {i} /\ Covers(tlb.entrys[i], va)
            BY <5>2, <6>1, <4>1 DEF TlbInv, OneHit, Hits
          <6>3. First({i}) = i
            <7>1. i <= i
              BY MmuAssumption DEF Slots
            <7> QED BY <7>1 DEF First
          <6> QED BY <6>1, <6>2, <6>3, <4>1, <2>1 DEF TlbInv, TlbCoherent
        <5> QED BY <5>1, <5>2
      <4> QED BY <4>2, <3>2, <1>1, <2>1 DEF Backing
    <3> QED BY <2>1, <3>1, <3>3, FilledCache
  <2> QED BY <2>2, <2>3
<1>2. CASE ~mmu.on
  <2>1. /\ ic' = IF IcHits(ic, va) # {} THEN ic ELSE IcFilled(ic, va, mem[va])
        /\ mem' = mem /\ mmu' = mmu
        /\ History({}, {}, {})
    BY <1>2 DEF LoadInstr
  <2>2. Backing(mem', mmu', va) \subseteq {mem[va]}
    BY <1>2, <2>1 DEF Backing
  <2>3. CASE IcHits(ic, va) # {}
    BY <2>1, <2>3, KeptCache
  <2>4. CASE IcHits(ic, va) = {}
    BY <2>1, <2>2, <2>4, FilledCache
  <2> QED BY <2>3, <2>4
<1> QED BY <1>1, <1>2

\* Every step keeps the invariant of the cache.
LEMMA NextKeepsCache ==
    ASSUME TlbInv, TlbInv', IcInv, Next
    PROVE  IcInv'
<1>1. ASSUME NEW a \in Touched, NEW user \in BOOLEAN, LoadInstr(a, user)
      PROVE  IcInv'
  BY <1>1, FetchKeepsCache
<1>2. ASSUME NEW a, NEW user, NEW mis, NEW rd, NEW st, ic' = ic,
             DataAccess(a, user, mis, rd, st)
      PROVE  IcInv'
  BY <1>2, KeptCache DEF DataAccess
<1>3. ASSUME NEW a \in Touched, NEW user \in BOOLEAN, NEW mis \in BOOLEAN,
             Read(a, user, mis)
      PROVE  IcInv'
  BY <1>2, <1>3 DEF Read
<1>4. ASSUME NEW a \in Touched, NEW user \in BOOLEAN, NEW mis \in BOOLEAN,
             NEW w \in StoreWords, Write(a, user, mis, w)
      PROVE  IcInv'
  BY <1>2, <1>4 DEF Write
<1>5. ASSUME NEW pa \in DmaAddrs, NEW w \in StoreWords, DeviceWrite(pa, w)
      PROVE  IcInv'
  BY <1>5, KeptCache DEF DeviceWrite
<1>6. ASSUME NEW c \in Controls, McrControl(c)
      PROVE  IcInv'
  BY <1>6, KeptCache DEF McrControl
<1>7. ASSUME NEW t \in Ttbs, McrTtb(t)
      PROVE  IcInv'
  BY <1>7, KeptCache DEF McrTtb
<1>8. ASSUME NEW d \in Dacrs, McrDacr(d)
      PROVE  IcInv'
  BY <1>8, KeptCache DEF McrDacr
<1>9. ASSUME NEW p \in Pids, McrPid(p)
      PROVE  IcInv'
  BY <1>9, KeptCache DEF McrPid
<1>10. ASSUME TlbInvalidateAll
       PROVE  IcInv'
  BY <1>10, KeptCache DEF TlbInvalidateAll
<1>11. ASSUME NEW a \in Touched, TlbInvalidateEntry(a)
       PROVE  IcInv'
  BY <1>11, KeptCache DEF TlbInvalidateEntry
<1>12. ASSUME CacheInvalidateAll
       PROVE  IcInv'
  <2>1. /\ ic' = [lines |-> EmptyLines, cycle |-> ic.cycle]
        /\ History({}, Va, {})
    BY <1>12 DEF CacheInvalidateAll, IcInv, IcShape
  <2>2. \A s \in Sets, w \in Ways : ic'.lines[s][w] = NoLine
    BY <2>1 DEF EmptyLines, Sets, Ways
  <2>3. IcShape'
    BY <2>1 DEF IcShape, EmptyLines, Sets, Ways
  <2>4. \A v \in Va : IcHits(ic', v) = {}
    <3>1. ASSUME NEW v \in Va, NEW w \in IcHits(ic', v)
          PROVE  FALSE
      <4>1. CacheSet(v) \in Sets /\ w \in Ways /\ ic'.lines[CacheSet(v)][w].tag = v
        BY <3>1, SetInRange DEF IcHits, Ways
      <4> QED BY <4>1, <2>2, MmuAssumption DEF NoLine
    <3> QED BY <3>1
  <2> QED BY <2>1, <2>3, <2>4, InvalidatedCache
<1>13. ASSUME NEW a \in Touched, CacheInvalidate(a)
       PROVE  IcInv'
  <2>1. ic' = IcWithout(ic, a) /\ History({}, {a}, {}) /\ a \in Va
    BY <1>13, MmuAssumption DEF CacheInvalidate
  <2>2. CASE IcHits(ic, a) = {}
    <3>1. ic' = ic /\ IcShape'
      BY <2>1, <2>2 DEF IcWithout, IcInv, IcShape
    <3> QED BY <2>1, <2>2, <3>1, InvalidatedCache
  <2>3. CASE IcHits(ic, a) # {}
    <3>1. PICK u \in Ways : IcHits(ic, a) = {u}
      BY <2>1, <2>3 DEF IcInv, OneLine, IcHits, Ways
    <3>2. First({u}) = u
      <4>1. u <= u
        BY MmuAssumption DEF Ways
      <4> QED BY <4>1 DEF First
    <3>3. ic' = [ic EXCEPT !.lines[CacheSet(a)][u] = NoLine]
      BY <2>1, <2>3, <3>1, <3>2 DEF IcWithout
    <3>4. CacheSet(a) \in Sets
      BY <2>1, SetInRange
    <3>5. /\ IcShape'
          /\ \A v \in Va : \A w \in IcHits(ic', v) :
                /\ w \in IcHits(ic, v)
                /\ ic'.lines[CacheSet(v)][w] = ic.lines[CacheSet(v)][w]
                /\ ~(CacheSet(v) = CacheSet(a) /\ w = u)
      BY <3>3, <3>4, ClearedLine DEF IcInv
    <3>6. \A v \in Va : \A w \in IcHits(ic', v) : v # a
      BY <3>1, <3>5
    <3> QED BY <2>1, <3>5, <3>6, InvalidatedCache
  <2> QED BY <2>2, <2>3
<1>14. ASSUME NEW s \in 0 .. IcSets - 1, NEW w \in 0 .. IcWays - 1,
              CacheInvalidateIndex(s, w)
       PROVE  IcInv'
  <2> DEFINE I == {va \in Va : ic.lines[s][w].tag = va /\ CacheSet(va) = s}
  <2>1. /\ ic' = [ic EXCEPT !.lines[s][w] = NoLine]
        /\ History({}, I, {})
    BY <1>14 DEF CacheInvalidateIndex
  <2>2. /\ IcShape'
        /\ \A v \in Va : \A u \in IcHits(ic', v) :
              /\ u \in IcHits(ic, v)
              /\ ic'.lines[CacheSet(v)][u] = ic.lines[CacheSet(v)][u]
              /\ ~(CacheSet(v) = s /\ u = w)
    BY <2>1, ClearedLine DEF IcInv, Sets, Ways
  <2>3. ASSUME NEW v \in Va, NEW u \in IcHits(ic', v)
        PROVE  v \notin I
    <3>1. ASSUME v \in I
          PROVE  FALSE
      <4>1. w \in IcHits(ic, v) /\ CacheSet(v) = s
        BY <3>1 DEF IcHits
      <4>2. u = w
        BY <4>1, <2>2, <2>3 DEF IcInv, OneLine
      <4> QED BY <4>1, <4>2, <2>2, <2>3
    <3> QED BY <3>1
  <2> QED BY <2>1, <2>2, <2>3, InvalidatedCache
<1> QED BY <1>1, <1>3, <1>4, <1>5, <1>6, <1>7, <1>8, <1>9, <1>10, <1>11,
           <1>12, <1>13, <1>14 DEF Next

\* A fetch that hits the instruction cache returns the word memory holds, for
\* any geometry of the cache, unless that word or its translation changed
\* since the cache was told, or the cache was told before the TLB was.
THEOREM FetchIsCurrent == Spec => []FetchCurrent
<1>1. Init => IcInv
  <2>1. ASSUME Init
        PROVE  /\ IcShape /\ StaleCovers
               /\ \A s \in Sets, w \in Ways : ic.lines[s][w] = NoLine
    BY <2>1 DEF Init, IcShape, StaleCovers, EmptyLines, Sets, Ways
  <2>2. ASSUME Init, NEW v \in Va, NEW w \in IcHits(ic, v)
        PROVE  FALSE
    <3>1. CacheSet(v) \in Sets /\ w \in Ways /\ ic.lines[CacheSet(v)][w].tag = v
      BY <2>2, SetInRange DEF IcHits, Ways
    <3> QED BY <3>1, <2>1, <2>2, MmuAssumption DEF NoLine
  <2> QED BY <2>1, <2>2 DEF IcInv, OneLine, FetchCurrent
<1>2. TlbInv /\ TlbInv' /\ IcInv /\ [Next]_vars => IcInv'
  <2>1. ASSUME IcInv, UNCHANGED vars
        PROVE  IcInv'
    BY <2>1 DEF vars, IcInv, IcShape, OneLine, StaleCovers, FetchCurrent
  <2> QED BY <2>1, NextKeepsCache
<1>3. IcInv => FetchCurrent
  BY DEF IcInv
<1> QED BY <1>1, <1>2, <1>3, TlbInvariant, PTL DEF Spec
=============================================================================
