---------------------------- MODULE MemMgrProofs ----------------------------
(***************************************************************************)
(* For a heap of any size and any sequence of calls: the list of blocks    *)
(* that MemMgr keeps is the heap that its callers think of.                *)
(***************************************************************************)
EXTENDS MemMgr, WellFoundedInduction, TLAPS

-----------------------------------------------------------------------------
(* The addresses of the blocks.                                             *)

Entry == [size : Nat, used : BOOLEAN]

\* What Pos computes, without the recursion.
IsPos(bs, p) == p[1] = 0 /\ \A i \in 1..Len(bs) : p[i + 1] = p[i] + bs[i].size

\* A set of numbers has a least one.
LEMMA Least ==
  ASSUME NEW T, T \subseteq Nat, T # {}
  PROVE  \E x \in T : \A y \in T : x <= y
<1> DEFINE R == OpToRel(<, Nat)
<1>1. IsWellFoundedOn(R, Nat)
  BY NatLessThanWellFounded
<1>2. \E x \in T : \A y \in T : ~(<<y, x>> \in R)
  <2> HIDE DEF R
  <2> QED
    BY <1>1, WFMin
<1>3. \A x, y \in Nat : <<y, x>> \in R <=> y < x
  BY DEF OpToRel
<1> HIDE DEF R
<1>4. PICK x \in T : \A y \in T : ~(<<y, x>> \in R)
  BY <1>2
<1>5. ASSUME NEW y \in T PROVE x <= y
  <2>1. ~(y < x)
    BY <1>3, <1>4
  <2> QED
    BY <2>1
<1> QED
  BY <1>5

LEMMA MinIs ==
  ASSUME NEW T, T \subseteq Nat, T # {}
  PROVE  Min(T) \in T /\ \A y \in T : Min(T) <= y
BY Least DEF Min

\* The function that Pos chooses exists: a shortest list without one could be
\* given one from the list that is one block shorter.
LEMMA PosExists ==
  ASSUME NEW bs \in Seq(Entry)
  PROVE  \E p : p = [i \in 1..(Len(bs) + 1) |-> IF i = 1 THEN 0 ELSE p[i - 1] + bs[i - 1].size]
<1> DEFINE Good(n, p) == p = [i \in 1..(n + 1) |-> IF i = 1 THEN 0 ELSE p[i - 1] + bs[i - 1].size]
           T == {n \in 0..Len(bs) : ~\E p : Good(n, p)}
<1> SUFFICES ASSUME T # {} PROVE FALSE
  <2>1. Len(bs) \in 0..Len(bs)
    OBVIOUS
  <2>2. Len(bs) \notin T => \E p : Good(Len(bs), p)
    BY <2>1
  <2> QED
    BY <2>2
<1>1. PICK n \in T : \A y \in T : n <= y
  <2>1. T \subseteq Nat
    OBVIOUS
  <2> HIDE DEF T
  <2> QED
    BY <2>1, Least
<1>2. n \in 0..Len(bs) /\ n \in Nat /\ ~\E p : Good(n, p)
  OBVIOUS
<1>3. CASE n = 0
  <2> DEFINE f == [i \in 1..1 |-> 0]
  <2>1. Good(0, f)
    OBVIOUS
  <2> HIDE DEF Good
  <2> QED
    BY <1>2, <1>3, <2>1
<1>4. CASE n # 0
  <2>1. n - 1 \in 0..Len(bs) /\ n - 1 \notin T
    <3>1. n - 1 \in 0..Len(bs) /\ ~(n <= n - 1)
      BY <1>2, <1>4
    <3> HIDE DEF T
    <3> QED
      BY <1>1, <3>1
  <2>2. \E p : Good(n - 1, p)
    <3> HIDE DEF Good
    <3> QED
      BY <2>1
  <2> PICK p : Good(n - 1, p)
    BY <2>2
  <2>3. p = [i \in 1..n |-> IF i = 1 THEN 0 ELSE p[i - 1] + bs[i - 1].size]
    BY <1>2
  <2> DEFINE g == [i \in 1..(n + 1) |-> IF i <= n THEN p[i] ELSE p[n] + bs[n].size]
  <2>4. ASSUME NEW i \in 1..(n + 1)
        PROVE  g[i] = IF i = 1 THEN 0 ELSE g[i - 1] + bs[i - 1].size
    BY <1>2, <1>4, <2>3
  <2>5. g = [i \in 1..(n + 1) |-> IF i = 1 THEN 0 ELSE g[i - 1] + bs[i - 1].size]
    <3>1. g = [i \in 1..(n + 1) |-> g[i]]
      OBVIOUS
    <3> HIDE DEF g
    <3> QED
      BY <2>4, <3>1
  <2>6. Good(n, g)
    BY <2>5
  <2> HIDE DEF Good
  <2> QED
    BY <1>2, <2>6
<1> QED
  BY <1>3, <1>4

LEMMA PosIs ==
  ASSUME NEW bs \in Seq(Entry)
  PROVE  Pos(bs) \in [1..(Len(bs) + 1) -> Nat] /\ IsPos(bs, Pos(bs))
<1> DEFINE P == Pos(bs)
<1>1. P = CHOOSE p : p = [i \in 1..(Len(bs) + 1) |-> IF i = 1 THEN 0 ELSE p[i - 1] + bs[i - 1].size]
  BY DEF Pos
<1>2. P = [i \in 1..(Len(bs) + 1) |-> IF i = 1 THEN 0 ELSE P[i - 1] + bs[i - 1].size]
  BY <1>1, PosExists
<1> HIDE DEF P
<1>3. P[1] = 0 /\ \A i \in 1..Len(bs) : P[i + 1] = P[i] + bs[i].size
  BY <1>2
<1>4. \A i \in 1..Len(bs) : bs[i].size \in Nat
  <2>1. \A i \in 1..Len(bs) : bs[i] \in Entry
    OBVIOUS
  <2> QED
    BY <2>1 DEF Entry
<1>5. \A i \in 1..(Len(bs) + 1) : P[i] \in Nat
  <2> DEFINE T == {i \in 1..(Len(bs) + 1) : P[i] \notin Nat}
  <2> SUFFICES ASSUME T # {} PROVE FALSE
    OBVIOUS
  <2>1. PICK n \in T : \A y \in T : n <= y
    <3>1. T \subseteq Nat
      OBVIOUS
    <3> HIDE DEF T
    <3> QED
      BY <3>1, Least
  <2>2. n # 1
    BY <1>3
  <2>3. n - 1 \in 1..Len(bs) /\ n - 1 \notin T
    BY <2>1, <2>2
  <2>4. P[n - 1] \in Nat /\ P[n] = P[n - 1] + bs[n - 1].size /\ bs[n - 1].size \in Nat
    BY <1>3, <1>4, <2>3
  <2> QED
    BY <2>4
<1> QED
  BY <1>2, <1>3, <1>5 DEF P, IsPos

LEMMA Facts ==
  ASSUME NEW bs \in Seq(Entry), NEW P, P = Pos(bs)
  PROVE  /\ Len(bs) \in Nat /\ P[1] = 0
         /\ \A i \in 1..(Len(bs) + 1) : P[i] \in Nat
         /\ \A i \in 1..Len(bs) : /\ bs[i] \in Entry /\ bs[i].size \in Nat /\ bs[i].used \in BOOLEAN
                                  /\ P[i + 1] = P[i] + bs[i].size
<1>1. \A i \in 1..Len(bs) : bs[i] \in Entry
  OBVIOUS
<1>2. \A i \in 1..Len(bs) : bs[i].size \in Nat /\ bs[i].used \in BOOLEAN
  BY <1>1 DEF Entry
<1> QED
  BY <1>1, <1>2, PosIs DEF IsPos

\* Whatever satisfies the recursion is Pos.
LEMMA PosUnique ==
  ASSUME NEW bs \in Seq(Entry), NEW p, IsPos(bs, p)
  PROVE  \A i \in 1..(Len(bs) + 1) : p[i] = Pos(bs)[i]
<1> DEFINE P == Pos(bs)
           n == Len(bs)
           T == {i \in 1..(n + 1) : p[i] # P[i]}
<1>1. n \in Nat /\ P[1] = 0 /\ \A i \in 1..n : P[i + 1] = P[i] + bs[i].size
  BY Facts
<1>2. p[1] = 0 /\ \A i \in 1..n : p[i + 1] = p[i] + bs[i].size
  BY DEF IsPos
<1> HIDE DEF P, n
<1> SUFFICES ASSUME T # {} PROVE FALSE
  BY DEF P, n
<1>3. PICK i \in T : \A y \in T : i <= y
  <2>1. T \subseteq Nat
    BY <1>1
  <2> HIDE DEF T
  <2> QED
    BY <2>1, Least
<1>4. i \in 1..(n + 1) /\ p[i] # P[i] /\ i # 1
  BY <1>1, <1>2
<1>5. i - 1 \in 1..n /\ (i - 1) + 1 = i /\ ~(i <= i - 1)
  BY <1>1, <1>4
<1>6. p[i - 1] = P[i - 1]
  BY <1>1, <1>3, <1>5
<1> QED
  BY <1>1, <1>2, <1>4, <1>5, <1>6

\* A block ends where the next one starts, or before any later one.
LEMMA Increasing ==
  ASSUME NEW bs \in Seq(Entry), NEW P, P = Pos(bs),
         NEW i \in 1..Len(bs), NEW j \in 1..(Len(bs) + 1), i < j
  PROVE  P[i] + bs[i].size <= P[j]
<1> DEFINE n == Len(bs)
           T == {k \in 1..(n + 1) : i < k /\ ~(P[i] + bs[i].size <= P[k])}
<1>1. /\ n \in Nat /\ \A k \in 1..(n + 1) : P[k] \in Nat
      /\ \A k \in 1..n : bs[k].size \in Nat /\ P[k + 1] = P[k] + bs[k].size
  BY Facts
<1> HIDE DEF n
<1> SUFFICES ASSUME T # {} PROVE FALSE
  BY DEF n
<1>2. PICK k \in T : \A y \in T : k <= y
  <2>1. T \subseteq Nat
    BY <1>1
  <2> HIDE DEF T
  <2> QED
    BY <2>1, Least
<1>3. k \in 1..(n + 1) /\ i < k /\ ~(P[i] + bs[i].size <= P[k]) /\ i \in 1..n
  BY DEF n
<1>4. k # i + 1
  <2>1. P[i + 1] = P[i] + bs[i].size /\ P[i] \in Nat /\ bs[i].size \in Nat
    BY <1>1, <1>3
  <2> QED
    BY <1>3, <2>1
<1>5. k - 1 \in 1..n /\ i < k - 1 /\ (k - 1) + 1 = k /\ ~(k <= k - 1) /\ k - 1 \in 1..(n + 1)
  BY <1>1, <1>3, <1>4
<1>6. k - 1 \notin T
  <2> HIDE DEF T
  <2> QED
    BY <1>2, <1>5
<1>7. P[i] + bs[i].size <= P[k - 1]
  BY <1>5, <1>6
<1>8. P[k] = P[k - 1] + bs[k - 1].size
  <2>1. P[(k - 1) + 1] = P[k - 1] + bs[k - 1].size
    BY <1>1, <1>5
  <2> QED
    BY <1>5, <2>1
<1>9. P[i] \in Nat /\ P[k - 1] \in Nat /\ bs[k - 1].size \in Nat /\ bs[i].size \in Nat
  BY <1>1, <1>3, <1>5
<1>10. \A a, b, c, d \in Nat : a + b <= c => a + b <= c + d
  OBVIOUS
<1> HIDE DEF T
<1>11. P[i] + bs[i].size <= P[k - 1] + bs[k - 1].size
  BY <1>7, <1>9, <1>10
<1> QED
  BY <1>3, <1>8, <1>11

\* Every unit of the heap lies in a block.
LEMMA Somewhere ==
  ASSUME NEW bs \in Seq(Entry), NEW P, P = Pos(bs), NEW x \in Nat, x < P[Len(bs) + 1]
  PROVE  \E i \in 1..Len(bs) : P[i] <= x /\ x < P[i + 1]
<1> DEFINE n == Len(bs)
           T == {k \in 1..(n + 1) : x < P[k]}
<1>1. n \in Nat /\ P[1] = 0 /\ \A k \in 1..(n + 1) : P[k] \in Nat
  BY Facts
<1>2. T # {}
  BY <1>1
<1> HIDE DEF n
<1>3. PICK k \in T : \A y \in T : k <= y
  <2>1. T \subseteq Nat
    BY <1>1
  <2> HIDE DEF T
  <2> QED
    BY <1>2, <2>1, Least
<1>4. k \in 1..(n + 1) /\ x < P[k] /\ k # 1
  BY <1>1
<1>5. k - 1 \in 1..n /\ (k - 1) + 1 = k /\ ~(k <= k - 1) /\ k - 1 \in 1..(n + 1)
  BY <1>1, <1>4
<1>6. k - 1 \notin T
  <2> HIDE DEF T
  <2> QED
    BY <1>3, <1>5
<1>7. P[k - 1] <= x /\ x < P[(k - 1) + 1]
  BY <1>1, <1>4, <1>5, <1>6
<1> QED
  BY <1>5, <1>7 DEF n

-----------------------------------------------------------------------------
(* Rewriting the list.                                                      *)

\* The blocks lo to hi are replaced by others.
Splice(bs, lo, hi, mid) == SubSeq(bs, 1, lo - 1) \o mid \o SubSeq(bs, hi + 1, Len(bs))

LEMMA Join ==
  ASSUME NEW S, NEW a \in Seq(S), NEW b \in Seq(S), NEW c, c = a \o b
  PROVE  /\ c \in Seq(S) /\ Len(c) = Len(a) + Len(b) /\ Len(a) \in Nat /\ Len(b) \in Nat
         /\ \A i \in 1..Len(a) : c[i] = a[i]
         /\ \A i \in 1..Len(b) : c[Len(a) + i] = b[i]
OBVIOUS

\* What the list of length n is then, with d blocks for the old ones.
Spliced(bs, n, lo, hi, mid, d, c) ==
  /\ c \in Seq(Entry) /\ Len(c) = (lo - 1) + d + (n - hi)
  /\ \A j \in 1..(lo - 1) : c[j] = bs[j]
  /\ \A j \in 1..d : c[(lo - 1) + j] = mid[j]
  /\ \A j \in 1..(n - hi) : c[(lo - 1) + d + j] = bs[hi + j]

LEMMA SpliceIs ==
  ASSUME NEW bs \in Seq(Entry), NEW n \in Nat, n = Len(bs), NEW lo \in 1..n, NEW hi \in lo..n,
         NEW mid \in Seq(Entry), NEW d \in Nat, d = Len(mid), NEW c, c = Splice(bs, lo, hi, mid)
  PROVE  Spliced(bs, n, lo, hi, mid, d, c)
<1> DEFINE a == SubSeq(bs, 1, lo - 1)
           b == SubSeq(bs, hi + 1, Len(bs))
           e == a \o mid
<1>1. a \in Seq(Entry) /\ Len(a) = lo - 1 /\ \A j \in 1..(lo - 1) : a[j] = bs[j]
  OBVIOUS
<1>2. b \in Seq(Entry) /\ Len(b) = n - hi /\ \A j \in 1..(n - hi) : b[j] = bs[hi + j]
  OBVIOUS
<1>3. c = e \o b
  BY DEF Splice
<1> HIDE DEF a, b
<1>3a. e = a \o mid /\ a \in Seq(Entry)
  BY <1>1
<1> HIDE DEF e
<1>4. /\ e \in Seq(Entry) /\ Len(e) = (lo - 1) + d
      /\ \A j \in 1..(lo - 1) : e[j] = a[j]
      /\ \A j \in 1..d : e[(lo - 1) + j] = mid[j]
  <2>1. /\ e \in Seq(Entry) /\ Len(e) = Len(a) + Len(mid)
        /\ \A j \in 1..Len(a) : e[j] = a[j]
        /\ \A j \in 1..Len(mid) : e[Len(a) + j] = mid[j]
    BY <1>3a, Join
  <2> QED
    BY <1>1, <2>1
<1>5. /\ c \in Seq(Entry) /\ Len(c) = (lo - 1) + d + (n - hi)
      /\ \A j \in 1..((lo - 1) + d) : c[j] = e[j]
      /\ \A j \in 1..(n - hi) : c[(lo - 1) + d + j] = b[j]
  <2>1. /\ c \in Seq(Entry) /\ Len(c) = Len(e) + Len(b)
        /\ \A j \in 1..Len(e) : c[j] = e[j]
        /\ \A j \in 1..Len(b) : c[Len(e) + j] = b[j]
    <3>1. e \in Seq(Entry) /\ b \in Seq(Entry)
      BY <1>2, <1>4
    <3> QED
      BY <1>3, <3>1, Join
  <2> QED
    BY <1>2, <1>4, <2>1
<1>6. \A j \in 1..(lo - 1) : c[j] = bs[j]
  <2> SUFFICES ASSUME NEW j \in 1..(lo - 1) PROVE c[j] = bs[j]
    OBVIOUS
  <2>1. j \in 1..((lo - 1) + d)
    OBVIOUS
  <2> QED
    BY <1>1, <1>4, <1>5, <2>1
<1>7. \A j \in 1..d : c[(lo - 1) + j] = mid[j]
  <2> SUFFICES ASSUME NEW j \in 1..d PROVE c[(lo - 1) + j] = mid[j]
    OBVIOUS
  <2>1. (lo - 1) + j \in 1..((lo - 1) + d)
    OBVIOUS
  <2> QED
    BY <1>4, <1>5, <2>1
<1>8. \A j \in 1..(n - hi) : c[(lo - 1) + d + j] = bs[hi + j]
  BY <1>2, <1>5
<1> QED
  BY <1>5, <1>6, <1>7, <1>8 DEF Spliced

\* The new blocks take the place of the old ones: those around them stay where
\* they are.
Placed(P, n, lo, hi, M, d, Q) ==
  /\ \A j \in 1..lo : Q[j] = P[j]
  /\ \A j \in 1..(d + 1) : Q[(lo - 1) + j] = P[lo] + M[j]
  /\ \A j \in 1..(n - hi + 1) : Q[(lo - 1) + d + j] = P[hi + j]

LEMMA SplicePos ==
  ASSUME NEW bs \in Seq(Entry), NEW n \in Nat, n = Len(bs), NEW lo \in 1..n, NEW hi \in lo..n,
         NEW mid \in Seq(Entry), NEW d \in Nat, d = Len(mid), NEW c, c = Splice(bs, lo, hi, mid),
         NEW P, P = Pos(bs), NEW M, M = Pos(mid), P[lo] + M[d + 1] = P[hi + 1]
  PROVE  Placed(P, n, lo, hi, M, d, Pos(c))
<1>1. /\ P[1] = 0 /\ \A i \in 1..(n + 1) : P[i] \in Nat
      /\ \A i \in 1..n : bs[i].size \in Nat /\ P[i + 1] = P[i] + bs[i].size
  BY Facts
<1>2. /\ M[1] = 0 /\ \A i \in 1..(d + 1) : M[i] \in Nat
      /\ \A i \in 1..d : mid[i].size \in Nat /\ M[i + 1] = M[i] + mid[i].size
  BY Facts
<1> DEFINE m == (lo - 1) + d + (n - hi)
<1>3. /\ c \in Seq(Entry) /\ Len(c) = m
      /\ \A j \in 1..(lo - 1) : c[j] = bs[j]
      /\ \A j \in 1..d : c[(lo - 1) + j] = mid[j]
      /\ \A j \in 1..(n - hi) : c[(lo - 1) + d + j] = bs[hi + j]
  <2>1. Spliced(bs, n, lo, hi, mid, d, c)
    BY SpliceIs
  <2> QED
    BY <2>1 DEF Spliced
<1> DEFINE f == [j \in 1..(m + 1) |-> IF j <= lo THEN P[j]
                                      ELSE IF j <= lo + d THEN P[lo] + M[j - (lo - 1)]
                                      ELSE P[hi + (j - (lo - 1) - d)]]
<1>4. \A j \in 1..lo : f[j] = P[j]
  OBVIOUS
<1>5. \A j \in 1..(d + 1) : f[(lo - 1) + j] = P[lo] + M[j]
  <2> SUFFICES ASSUME NEW j \in 1..(d + 1) PROVE f[(lo - 1) + j] = P[lo] + M[j]
    OBVIOUS
  <2>1. (lo - 1) + j \in 1..(m + 1) /\ (lo - 1) + j <= lo + d /\ ((lo - 1) + j) - (lo - 1) = j
    OBVIOUS
  <2>2. CASE j = 1
    <3>1. (lo - 1) + j = lo /\ lo \in 1..lo /\ lo \in 1..(n + 1)
      BY <2>2
    <3>2. f[lo] = P[lo] /\ P[lo] \in Nat
      BY <1>1, <1>4, <3>1
    <3> HIDE DEF f
    <3> QED
      BY <1>2, <2>2, <3>1, <3>2
  <2>3. CASE j # 1
    <3>1. ~((lo - 1) + j <= lo)
      BY <2>3
    <3> QED
      BY <2>1, <3>1
  <2> QED
    BY <2>2, <2>3
<1>6. \A j \in 1..(n - hi + 1) : f[(lo - 1) + d + j] = P[hi + j]
  <2> SUFFICES ASSUME NEW j \in 1..(n - hi + 1) PROVE f[(lo - 1) + d + j] = P[hi + j]
    OBVIOUS
  <2>1. (lo - 1) + d + j \in 1..(m + 1) /\ ((lo - 1) + d + j) - (lo - 1) - d = j
    OBVIOUS
  <2>2. CASE j = 1
    <3>1. d + 1 \in 1..(d + 1) /\ (lo - 1) + (d + 1) = (lo - 1) + d + j /\ hi + 1 = hi + j
      BY <2>2
    <3>2. f[(lo - 1) + (d + 1)] = P[lo] + M[d + 1]
      BY <1>5, <3>1
    <3> HIDE DEF f
    <3> QED
      BY <3>1, <3>2
  <2>3. CASE j # 1
    <3>1. ~((lo - 1) + d + j <= lo) /\ ~((lo - 1) + d + j <= lo + d)
      BY <2>3
    <3> QED
      BY <2>1, <3>1
  <2> QED
    BY <2>2, <2>3
<1> HIDE DEF f
<1>7. \A j \in 1..m : f[j + 1] = f[j] + c[j].size
  <2> SUFFICES ASSUME NEW j \in 1..m PROVE f[j + 1] = f[j] + c[j].size
    OBVIOUS
  <2>1. CASE j < lo
    <3>1. j \in 1..lo /\ j + 1 \in 1..lo /\ j \in 1..(lo - 1) /\ j \in 1..n
      BY <2>1
    <3> QED
      BY <1>1, <1>3, <1>4, <3>1
  <2>2. CASE lo <= j /\ j < lo + d
    <3> DEFINE x == j - (lo - 1)
    <3>1. /\ x \in 1..d /\ x \in 1..(d + 1) /\ x + 1 \in 1..(d + 1) /\ j = (lo - 1) + x
          /\ j + 1 = (lo - 1) + (x + 1)
      BY <2>2
    <3> HIDE DEF x
    <3>2. f[j] = P[lo] + M[x] /\ f[j + 1] = P[lo] + M[x + 1] /\ c[j] = mid[x]
      BY <1>3, <1>5, <3>1
    <3>3. M[x] \in Nat /\ mid[x].size \in Nat /\ M[x + 1] = M[x] + mid[x].size
      BY <1>2, <3>1
    <3>4. P[lo] \in Nat
      <4>1. lo \in 1..(n + 1)
        OBVIOUS
      <4> QED
        BY <1>1, <4>1
    <3>5. \A p, q, r \in Nat : p + (q + r) = (p + q) + r
      OBVIOUS
    <3> QED
      BY <3>2, <3>3, <3>4, <3>5
  <2>3. CASE lo + d <= j
    <3> DEFINE x == j - (lo - 1) - d
    <3>1. /\ x \in 1..(n - hi) /\ x \in 1..(n - hi + 1) /\ x + 1 \in 1..(n - hi + 1)
          /\ j = (lo - 1) + d + x /\ j + 1 = (lo - 1) + d + (x + 1) /\ hi + x \in 1..n /\ hi + (x + 1) = (hi + x) + 1
      BY <2>3
    <3> HIDE DEF x
    <3>2. f[j] = P[hi + x] /\ f[j + 1] = P[hi + (x + 1)] /\ c[j] = bs[hi + x]
      BY <1>3, <1>6, <3>1
    <3>3. P[(hi + x) + 1] = P[hi + x] + bs[hi + x].size
      BY <1>1, <3>1
    <3> QED
      BY <3>1, <3>2, <3>3
  <2> QED
    BY <2>1, <2>2, <2>3
<1>8. f[1] = 0
  BY <1>1, <1>4
<1>9. IsPos(c, f)
  BY <1>3, <1>7, <1>8 DEF IsPos
<1>10. \A j \in 1..(m + 1) : f[j] = Pos(c)[j]
  BY <1>3, <1>9, PosUnique
<1>11. /\ \A j \in 1..lo : j \in 1..(m + 1)
       /\ \A j \in 1..(d + 1) : (lo - 1) + j \in 1..(m + 1)
       /\ \A j \in 1..(n - hi + 1) : (lo - 1) + d + j \in 1..(m + 1)
  OBVIOUS
<1> HIDE DEF m
<1> QED
  BY <1>4, <1>5, <1>6, <1>10, <1>11 DEF Placed

\* A block as its holder knows it, and all blocks that are held.
Handle(bs, i) == [addr |-> Pos(bs)[i], len |-> bs[i].size]
Held(bs) == {Handle(bs, i) : i \in {j \in 1..Len(bs) : bs[j].used}}

\* The blocks that are held after a splice: those outside it, and those of the
\* new blocks that are used.
HeldIs(bs, n, lo, hi, P, mid, d, M, x) ==
  \/ \E i \in 1..n : (i < lo \/ hi < i) /\ bs[i].used /\ x = Handle(bs, i)
  \/ \E j \in 1..d : mid[j].used /\ x = [addr |-> P[lo] + M[j], len |-> mid[j].size]

LEMMA SpliceHeld ==
  ASSUME NEW bs \in Seq(Entry), NEW n \in Nat, n = Len(bs), NEW lo \in 1..n, NEW hi \in lo..n,
         NEW mid \in Seq(Entry), NEW d \in Nat, d = Len(mid), NEW c, c = Splice(bs, lo, hi, mid),
         NEW P, P = Pos(bs), NEW M, M = Pos(mid), P[lo] + M[d + 1] = P[hi + 1], NEW x
  PROVE  x \in Held(c) <=> HeldIs(bs, n, lo, hi, P, mid, d, M, x)
<1> DEFINE Q == Pos(c)
           m == (lo - 1) + d + (n - hi)
           New(j) == [addr |-> P[lo] + M[j], len |-> mid[j].size]
<1>1. Spliced(bs, n, lo, hi, mid, d, c) /\ Placed(P, n, lo, hi, M, d, Q)
  BY SpliceIs, SplicePos
<1>2. Len(c) = m
  BY <1>1 DEF Spliced
<1> HIDE DEF Q
<1>3. ASSUME NEW i \in 1..n, i < lo
      PROVE  i \in 1..m /\ c[i] = bs[i] /\ Handle(c, i) = Handle(bs, i)
  <2>1. i \in 1..(lo - 1) /\ i \in 1..lo /\ i \in 1..m
    BY <1>3
  <2>2. c[i] = bs[i] /\ Q[i] = P[i]
    BY <1>1, <2>1 DEF Spliced, Placed
  <2> QED
    BY <2>1, <2>2 DEF Handle, Q
<1>4. ASSUME NEW i \in 1..(n - hi)
      PROVE  /\ (lo - 1) + d + i \in 1..m /\ c[(lo - 1) + d + i] = bs[hi + i]
             /\ Handle(c, (lo - 1) + d + i) = Handle(bs, hi + i)
  <2> DEFINE k == (lo - 1) + d + i
             l == hi + i
  <2>1. i \in 1..(n - hi + 1) /\ k \in 1..m
    OBVIOUS
  <2>2. c[k] = bs[l] /\ Q[k] = P[l]
    BY <1>1, <2>1 DEF Spliced, Placed
  <2>3. Handle(c, k) = Handle(bs, l)
    <3> HIDE DEF k, l
    <3> QED
      BY <2>2 DEF Handle, Q
  <2> QED
    BY <2>1, <2>2, <2>3
<1>5. ASSUME NEW j \in 1..d
      PROVE  /\ (lo - 1) + j \in 1..m /\ c[(lo - 1) + j] = mid[j]
             /\ Handle(c, (lo - 1) + j) = New(j)
  <2> DEFINE k == (lo - 1) + j
  <2>1. j \in 1..(d + 1) /\ k \in 1..m
    OBVIOUS
  <2>2. c[k] = mid[j] /\ Q[k] = P[lo] + M[j]
    BY <1>1, <2>1 DEF Spliced, Placed
  <2>3. Handle(c, k) = New(j)
    <3> HIDE DEF k
    <3> QED
      BY <2>2 DEF Handle, Q
  <2> QED
    BY <2>1, <2>2, <2>3
<1> HIDE DEF New
<1>6. ASSUME x \in Held(c)
      PROVE  \/ \E i \in 1..n : (i < lo \/ hi < i) /\ bs[i].used /\ x = Handle(bs, i)
             \/ \E j \in 1..d : mid[j].used /\ x = New(j)
  <2>1. PICK k \in 1..m : c[k].used /\ x = Handle(c, k)
    BY <1>2, <1>6 DEF Held
  <2>2. CASE k < lo
    <3>1. k \in 1..n
      BY <2>2
    <3> QED
      BY <1>3, <2>1, <2>2, <3>1
  <2>3. CASE lo <= k /\ k < lo + d
    <3> DEFINE j == k - (lo - 1)
    <3>1. j \in 1..d /\ k = (lo - 1) + j
      BY <2>3
    <3> HIDE DEF j
    <3>2. c[k] = mid[j] /\ Handle(c, k) = New(j)
      BY <1>5, <3>1
    <3> QED
      BY <2>1, <3>1, <3>2
  <2>4. CASE lo + d <= k
    <3> DEFINE i == k - (lo - 1) - d
               l == hi + i
    <3>1. i \in 1..(n - hi) /\ k = (lo - 1) + d + i /\ l \in 1..n /\ hi < l
      BY <2>4
    <3>2. c[k] = bs[l] /\ Handle(c, k) = Handle(bs, l)
      <4> HIDE DEF i
      <4> QED
        BY <1>4, <3>1
    <3> HIDE DEF i, l
    <3> QED
      BY <2>1, <3>1, <3>2
  <2> QED
    BY <2>2, <2>3, <2>4
<1>7. ASSUME NEW k \in 1..m, c[k].used, x = Handle(c, k) PROVE x \in Held(c)
  BY <1>2, <1>7 DEF Held
<1>8. ASSUME NEW i \in 1..n, i < lo \/ hi < i, bs[i].used, x = Handle(bs, i) PROVE x \in Held(c)
  <2>1. CASE i < lo
    BY <1>3, <1>7, <1>8, <2>1
  <2>2. CASE hi < i
    <3> DEFINE l == i - hi
               k == (lo - 1) + d + l
    <3>1. l \in 1..(n - hi) /\ i = hi + l
      BY <2>2
    <3>2. k \in 1..m /\ c[k] = bs[i] /\ Handle(c, k) = Handle(bs, i)
      <4> HIDE DEF l
      <4> QED
        BY <1>4, <3>1
    <3> HIDE DEF k
    <3> QED
      BY <1>7, <1>8, <3>2
  <2> QED
    BY <1>8, <2>1, <2>2
<1>9. ASSUME NEW j \in 1..d, mid[j].used, x = New(j) PROVE x \in Held(c)
  <2> DEFINE k == (lo - 1) + j
  <2>1. k \in 1..m /\ c[k] = mid[j] /\ Handle(c, k) = New(j)
    BY <1>5
  <2> HIDE DEF k
  <2> QED
    BY <1>7, <1>9, <2>1
<1> QED
  BY <1>6, <1>8, <1>9 DEF New, HeldIs

\* No two free blocks are neighbours; the address of the end.
Tidy(bs) == \A i \in 1..(Len(bs) - 1) : bs[i].used \/ bs[i + 1].used
End(bs) == Pos(bs)[Len(bs) + 1]

LEMMA SpliceKeeps ==
  ASSUME NEW bs \in Seq(Entry), NEW n \in Nat, n = Len(bs), NEW lo \in 1..n, NEW hi \in lo..n,
         NEW mid \in Seq(Entry), NEW d \in Nat, d = Len(mid), NEW c, c = Splice(bs, lo, hi, mid),
         Pos(bs)[lo] + Pos(mid)[d + 1] = Pos(bs)[hi + 1], d > 0
  PROVE  /\ c \in Seq(Entry) /\ Len(c) > 0 /\ End(c) = End(bs)
         /\ (/\ Tidy(bs) /\ Tidy(mid)
             /\ lo = 1 \/ bs[lo - 1].used \/ mid[1].used
             /\ hi = n \/ bs[hi + 1].used \/ mid[d].used) => Tidy(c)
<1> DEFINE m == (lo - 1) + d + (n - hi)
<1>1. Spliced(bs, n, lo, hi, mid, d, c) /\ Placed(Pos(bs), n, lo, hi, Pos(mid), d, Pos(c))
  BY SpliceIs, SplicePos
<1>2. c \in Seq(Entry) /\ Len(c) = m /\ m > 0 /\ m \in Nat
  BY <1>1 DEF Spliced
<1>3. End(c) = End(bs)
  <2> DEFINE j == n - hi + 1
  <2>1. j \in 1..(n - hi + 1) /\ (lo - 1) + d + j = m + 1 /\ hi + j = n + 1
    OBVIOUS
  <2>2. Pos(c)[(lo - 1) + d + j] = Pos(bs)[hi + j]
    BY <1>1, <2>1 DEF Placed
  <2> HIDE DEF j, m
  <2> QED
    BY <1>2, <2>1, <2>2 DEF End
<1>6. ASSUME Tidy(bs), Tidy(mid), lo = 1 \/ bs[lo - 1].used \/ mid[1].used,
             hi = n \/ bs[hi + 1].used \/ mid[d].used
      PROVE  Tidy(c)
  <2> SUFFICES ASSUME NEW j \in 1..(m - 1) PROVE c[j].used \/ c[j + 1].used
    BY <1>2 DEF Tidy
  <2>1. CASE j < lo - 1
    <3>1. j \in 1..(lo - 1) /\ j + 1 \in 1..(lo - 1) /\ j \in 1..(n - 1)
      BY <2>1
    <3>2. c[j] = bs[j] /\ c[j + 1] = bs[j + 1]
      BY <1>1, <3>1 DEF Spliced
    <3> QED
      BY <1>6, <3>1, <3>2 DEF Tidy
  <2>2. CASE j = lo - 1
    <3>1. lo # 1 /\ j \in 1..(lo - 1) /\ 1 \in 1..d /\ j + 1 = (lo - 1) + 1
      BY <2>2
    <3>2. c[j] = bs[lo - 1] /\ c[j + 1] = mid[1]
      BY <1>1, <2>2, <3>1 DEF Spliced
    <3> QED
      BY <1>6, <3>1, <3>2
  <2>3. CASE lo <= j /\ j < lo + d - 1
    <3> DEFINE k == j - (lo - 1)
    <3>1. k \in 1..(d - 1) /\ k \in 1..d /\ k + 1 \in 1..d /\ j = (lo - 1) + k /\ j + 1 = (lo - 1) + (k + 1)
      BY <2>3
    <3> HIDE DEF k
    <3>2. c[j] = mid[k] /\ c[j + 1] = mid[k + 1]
      BY <1>1, <3>1 DEF Spliced
    <3> QED
      BY <1>6, <3>1, <3>2 DEF Tidy
  <2>4. CASE j = lo + d - 1
    <3>1. hi # n /\ d \in 1..d /\ 1 \in 1..(n - hi) /\ j = (lo - 1) + d /\ j + 1 = (lo - 1) + d + 1
      BY <2>4
    <3>2. c[j] = mid[d] /\ c[j + 1] = bs[hi + 1]
      BY <1>1, <3>1 DEF Spliced
    <3> QED
      BY <1>6, <3>1, <3>2
  <2>5. CASE lo + d <= j
    <3> DEFINE k == j - (lo - 1) - d
    <3>1. /\ k \in 1..(n - hi) /\ k + 1 \in 1..(n - hi) /\ j = (lo - 1) + d + k
          /\ j + 1 = (lo - 1) + d + (k + 1) /\ hi + k \in 1..(n - 1) /\ hi + (k + 1) = (hi + k) + 1
      BY <2>5
    <3> HIDE DEF k
    <3>2. c[j] = bs[hi + k] /\ c[j + 1] = bs[hi + (k + 1)]
      BY <1>1, <3>1 DEF Spliced
    <3>3. bs[hi + k].used \/ bs[(hi + k) + 1].used
      BY <1>6, <3>1 DEF Tidy
    <3> QED
      BY <3>1, <3>2, <3>3
  <2> QED
    BY <2>1, <2>2, <2>3, <2>4, <2>5
<1> QED
  BY <1>2, <1>3, <1>6

-----------------------------------------------------------------------------
(* What malloc() and free() do to the list.                                  *)

\* Lists of one and of two blocks.
LEMMA OneBlock ==
  ASSUME NEW b \in Entry, NEW s, s = <<b>>
  PROVE  /\ s \in Seq(Entry) /\ Len(s) = 1 /\ s[1] = b /\ Pos(s)[2] = b.size /\ Pos(s)[1] = 0
         /\ Tidy(s)
<1>1. s \in Seq(Entry) /\ Len(s) = 1 /\ s[1] = b
  OBVIOUS
<1>2. Pos(s)[1] = 0 /\ Pos(s)[1 + 1] = Pos(s)[1] + b.size /\ b.size \in Nat
  <2>1. Pos(s)[1] = 0 /\ \A i \in 1..Len(s) : s[i].size \in Nat /\ Pos(s)[i + 1] = Pos(s)[i] + s[i].size
    BY <1>1, Facts
  <2>2. 1 \in 1..Len(s)
    BY <1>1
  <2> QED
    BY <1>1, <2>1, <2>2
<1>3. Pos(s)[2] = b.size
  BY <1>2
<1>4. Tidy(s)
  BY <1>1 DEF Tidy
<1> QED
  BY <1>1, <1>2, <1>3, <1>4

Pair(a, b, s) ==
  /\ s \in Seq(Entry) /\ Len(s) = 2 /\ s[1] = a /\ s[2] = b /\ Pos(s)[3] = a.size + b.size
  /\ Pos(s)[1] = 0 /\ Pos(s)[2] = a.size
  /\ (a.used = TRUE => Tidy(s))

LEMMA TwoBlocks ==
  ASSUME NEW a \in Entry, NEW b \in Entry, NEW s, s = <<a, b>>
  PROVE  Pair(a, b, s)
<1>1. s \in Seq(Entry) /\ Len(s) = 2 /\ s[1] = a /\ s[2] = b
  OBVIOUS
<1>2. /\ Pos(s)[1] = 0 /\ Pos(s)[1 + 1] = Pos(s)[1] + a.size /\ a.size \in Nat
      /\ Pos(s)[2 + 1] = Pos(s)[2] + b.size /\ b.size \in Nat
  <2>1. Pos(s)[1] = 0 /\ \A i \in 1..Len(s) : s[i].size \in Nat /\ Pos(s)[i + 1] = Pos(s)[i] + s[i].size
    BY <1>1, Facts
  <2>2. 1 \in 1..Len(s) /\ 2 \in 1..Len(s)
    BY <1>1
  <2> QED
    BY <1>1, <2>1, <2>2
<1>3. Pos(s)[2] = a.size /\ Pos(s)[3] = a.size + b.size
  BY <1>2
<1>4. a.used = TRUE => Tidy(s)
  <2>1. \A i \in 1..(Len(s) - 1) : i = 1
    BY <1>1
  <2> QED
    BY <1>1, <2>1 DEF Tidy
<1> QED
  BY <1>1, <1>2, <1>3, <1>4 DEF Pair

LEMMA BlockIs ==
  ASSUME NEW n \in Nat, NEW u \in BOOLEAN
  PROVE  Block(n, u) \in Entry /\ Block(n, u).size = n /\ Block(n, u).used = u
BY DEF Block, Entry

ListInv == blocks \in Seq(Entry) /\ Len(blocks) > 0 /\ Coalesced

LEMMA ListIs ==
  ASSUME blocks \in Seq(Entry)
  PROVE  Coalesced <=> End(blocks) = Count /\ Tidy(blocks)
BY DEF Coalesced, End, Tidy

\* What malloc() puts where the block was: the allocation, and what is left.
Pieces(b, s, mid) ==
  /\ mid \in Seq(Entry) /\ Len(mid) \in {1, 2} /\ Pos(mid)[Len(mid) + 1] = b.size /\ Pos(mid)[1] = 0
  /\ mid[1].used = TRUE /\ mid[1].size = s /\ (Len(mid) = 2 => mid[2].used = FALSE)
  /\ Tidy(mid)

LEMMA SplitPieces ==
  ASSUME NEW b \in Entry, NEW s \in Nat, b.size >= s,
         NEW mid, mid = IF b.size = s THEN <<Block(s, TRUE)>>
                        ELSE <<Block(s, TRUE), Block(b.size - s, FALSE)>>
  PROVE  Pieces(b, s, mid)
<1>1. b.size \in Nat
  BY DEF Entry
<1> DEFINE a == Block(s, TRUE)
           r == Block(b.size - s, FALSE)
<1>2. a \in Entry /\ a.size = s /\ a.used = TRUE
  BY BlockIs
<1>3. mid = IF b.size = s THEN <<a>> ELSE <<a, r>>
  OBVIOUS
<1>4. b.size # s => r \in Entry /\ r.size = b.size - s /\ r.used = FALSE /\ r.size > 0
  <2> SUFFICES ASSUME b.size # s PROVE r \in Entry /\ r.size = b.size - s /\ r.used = FALSE /\ r.size > 0
    OBVIOUS
  <2>1. b.size - s \in Nat /\ b.size - s > 0
    BY <1>1
  <2> QED
    BY <2>1, BlockIs
<1> HIDE DEF a, r
<1>5. CASE b.size = s
  <2>1. mid = <<a>>
    BY <1>3, <1>5
  <2>2. /\ mid \in Seq(Entry) /\ Len(mid) = 1 /\ mid[1] = a /\ Pos(mid)[2] = a.size /\ Pos(mid)[1] = 0
        /\ Tidy(mid)
    BY <1>2, <2>1, OneBlock
  <2>3. Len(mid) + 1 = 2 /\ Len(mid) # 2 /\ Len(mid) \in {1, 2}
    BY <2>2
  <2> QED
    BY <1>2, <1>5, <2>2, <2>3 DEF Pieces
<1>6. CASE b.size # s
  <2>1. mid = <<a, r>> /\ r \in Entry /\ r.size = b.size - s /\ r.used = FALSE /\ r.size > 0
    BY <1>3, <1>4, <1>6
  <2>2. /\ mid \in Seq(Entry) /\ Len(mid) = 2 /\ mid[1] = a /\ mid[2] = r /\ Pos(mid)[3] = a.size + r.size
        /\ Pos(mid)[1] = 0 /\ (a.used = TRUE => Tidy(mid))
    <3>1. mid = <<a, r>> /\ a \in Entry /\ r \in Entry
      BY <1>2, <2>1
    <3>2. Pair(a, r, mid)
      BY <3>1, TwoBlocks
    <3> QED
      BY <3>2 DEF Pair
  <2>3. Len(mid) + 1 = 3 /\ Len(mid) \in {1, 2} /\ a.size + r.size = b.size
    BY <1>1, <1>2, <2>1, <2>2
  <2>4. Tidy(mid)
    BY <1>2, <2>2, Zenon
  <2>5. r.used = FALSE
    BY <2>1
  <2> QED
    BY <1>2, <2>2, <2>3, <2>4, <2>5 DEF Pieces
<1> QED
  BY <1>5, <1>6

LEMMA SplitIs ==
  ASSUME ListInv, NEW s \in Nat, NEW i \in Fits(s), NEW c, c = Split(i, s)
  PROVE  /\ c \in Seq(Entry) /\ Len(c) > 0 /\ End(c) = Count /\ Tidy(c)
         /\ Held(c) = Held(blocks) \cup {[addr |-> Pos(blocks)[i], len |-> s]}
<1> DEFINE bs == blocks
           n == Len(bs)
           P == Pos(bs)
           mid == IF bs[i].size = s THEN <<Block(s, TRUE)>>
                  ELSE <<Block(s, TRUE), Block(bs[i].size - s, FALSE)>>
           d == Len(mid)
           M == Pos(mid)
<1>1. bs \in Seq(Entry) /\ n \in Nat /\ i \in 1..n /\ ~bs[i].used /\ bs[i].size >= s
  BY DEF ListInv, Fits
<1>2. End(bs) = Count /\ Tidy(bs)
  BY <1>1, ListIs DEF ListInv
<1>3. /\ P[i] \in Nat /\ P[i + 1] = P[i] + bs[i].size /\ bs[i] \in Entry
  BY <1>1, Facts
<1>4. Pieces(bs[i], s, mid)
  BY <1>1, <1>3, SplitPieces
<1>5. c = Splice(bs, i, i, mid)
  BY DEF Split, Splice
<1> HIDE DEF mid, n, P, d, M, bs
<1>5a. /\ mid \in Seq(Entry) /\ d \in {1, 2} /\ M[d + 1] = bs[i].size /\ M[1] = 0
       /\ mid[1].used = TRUE /\ mid[1].size = s /\ (d = 2 => mid[2].used = FALSE)
       /\ Tidy(mid)
  BY <1>4 DEF Pieces, d, M
<1>6. P[i] + M[d + 1] = P[i + 1] /\ i \in i..n /\ d \in Nat /\ d > 0 /\ d = Len(mid) /\ n = Len(bs)
  BY <1>1, <1>3, <1>5a DEF d, n
<1>7. i = n \/ bs[i + 1].used
  <2>1. i # n => i \in 1..(n - 1)
    BY <1>1
  <2> QED
    BY <1>1, <1>2, <2>1 DEF Tidy, n
<1>8. /\ c \in Seq(Entry) /\ Len(c) > 0 /\ End(c) = End(bs)
      /\ Tidy(c)
  <2>1. mid[1].used
    BY <1>5a, Zenon
  <2>2. Pos(bs)[i] + Pos(mid)[d + 1] = Pos(bs)[i + 1] /\ mid \in Seq(Entry) /\ Tidy(mid)
    BY <1>5a, <1>6 DEF P, M
  <2>3. /\ c \in Seq(Entry) /\ Len(c) > 0 /\ End(c) = End(bs)
        /\ (/\ Tidy(bs) /\ Tidy(mid)
            /\ i = 1 \/ bs[i - 1].used \/ mid[1].used
            /\ i = n \/ bs[i + 1].used \/ mid[d].used) => Tidy(c)
    BY <1>1, <1>5, <1>6, <2>2, SpliceKeeps
  <2> QED
    BY <1>2, <1>7, <2>1, <2>2, <2>3
<1> DEFINE new == [addr |-> P[i], len |-> s]
<1>9. ASSUME NEW x PROVE x \in Held(c) <=> x \in Held(bs) \/ x = new
  <2>1. x \in Held(c) <=> HeldIs(bs, n, i, i, P, mid, d, M, x)
    BY <1>1, <1>5a, <1>5, <1>6, SpliceHeld DEF P, M
  <2>2. x \in Held(bs) <=> \E k \in 1..n : bs[k].used /\ x = Handle(bs, k)
    BY DEF Held, n
  <2>3. \A k \in 1..n : bs[k].used => k < i \/ i < k
    BY <1>1
  <2>4. [addr |-> P[i] + M[1], len |-> mid[1].size] = new /\ 1 \in 1..d /\ \A j \in 1..d : mid[j].used => j = 1
    BY <1>3, <1>5a
  <2> HIDE DEF new
  <2> QED
    BY <1>5a, <2>1, <2>2, <2>3, <2>4 DEF HeldIs
<1>10. Held(c) = Held(bs) \cup {new}
  BY <1>9
<1> QED
  BY <1>2, <1>5a, <1>8, <1>10 DEF bs, P

\* Blocks that are not empty have addresses of their own.
LEMMA Apart ==
  ASSUME NEW bs \in Seq(Entry), NEW i \in 1..Len(bs), NEW j \in 1..Len(bs), i # j,
         bs[i].size > 0, bs[j].size > 0
  PROVE  Pos(bs)[i] # Pos(bs)[j]
<1>1. i \in Nat /\ j \in Nat /\ bs[i].size \in Nat /\ bs[j].size \in Nat
      /\ Pos(bs)[i] \in Nat /\ Pos(bs)[j] \in Nat /\ i \in 1..(Len(bs) + 1) /\ j \in 1..(Len(bs) + 1)
  BY Facts
<1>2. CASE i < j
  BY <1>1, <1>2, Increasing
<1>3. CASE j < i
  BY <1>1, <1>3, Increasing
<1> QED
  BY <1>1, <1>2, <1>3

LEMMA MergeIs ==
  ASSUME ListInv, NEW i \in 1..Len(blocks), blocks[i].used, NEW c, c = Merge(i)
  PROVE  /\ c \in Seq(Entry) /\ Len(c) > 0 /\ End(c) = Count /\ Tidy(c)
         /\ Held(blocks) \ {Handle(blocks, i)} \subseteq Held(c)
         /\ \A x \in Held(c) : x \in Held(blocks) /\ (x.len > 0 => x # Handle(blocks, i))
<1> DEFINE bs == blocks
           n == Len(bs)
           P == Pos(bs)
           lo == IF FreeBefore(i) THEN i - 1 ELSE i
           hi == IF FreeAfter(i) THEN i + 1 ELSE i
           b == Block(P[hi + 1] - P[lo], FALSE)
           mid == <<b>>
           M == Pos(mid)
<1>1. bs \in Seq(Entry) /\ n \in Nat /\ i \in 1..n
  BY DEF ListInv
<1>2. End(bs) = Count /\ Tidy(bs)
  BY <1>1, ListIs DEF ListInv
<1>3. /\ lo \in 1..n /\ hi \in lo..n /\ lo <= i /\ i <= hi
      /\ \A k \in 1..n : ~(k < lo \/ hi < k) /\ bs[k].used => k = i
  BY <1>1 DEF FreeBefore, FreeAfter
<1>4. lo = 1 \/ bs[lo - 1].used
  <2>1. CASE FreeBefore(i)
    <3>1. lo = i - 1 /\ ~bs[lo].used
      BY <2>1 DEF FreeBefore
    <3>2. lo # 1 => lo - 1 \in 1..(n - 1) /\ (lo - 1) + 1 = lo
      BY <1>1, <1>3, <3>1
    <3> HIDE DEF lo
    <3> QED
      BY <1>2, <3>1, <3>2 DEF Tidy
  <2>2. CASE ~FreeBefore(i)
    BY <1>1, <2>2 DEF FreeBefore
  <2> QED
    BY <2>1, <2>2
<1>5. hi = n \/ bs[hi + 1].used
  <2>1. CASE FreeAfter(i)
    <3>1. hi = i + 1 /\ ~bs[hi].used
      BY <2>1 DEF FreeAfter
    <3>2. hi # n => hi \in 1..(n - 1)
      BY <1>1, <1>3, <3>1
    <3> HIDE DEF hi
    <3> QED
      BY <1>2, <3>1, <3>2 DEF Tidy
  <2>2. CASE ~FreeAfter(i)
    BY <1>1, <2>2 DEF FreeAfter
  <2> QED
    BY <2>1, <2>2
<1>6. c = Splice(bs, lo, hi, mid)
  BY DEF Merge, Splice
<1> HIDE DEF lo, hi, P
<1>7. hi + 1 \in 1..(n + 1) /\ lo < hi + 1
  BY <1>1, <1>3
<1>8. P[lo] \in Nat /\ P[hi + 1] \in Nat /\ bs[lo].size \in Nat /\ P[lo] + bs[lo].size <= P[hi + 1]
  <2>1. lo \in 1..(n + 1)
    BY <1>1, <1>3
  <2>2. P[lo] \in Nat /\ P[hi + 1] \in Nat /\ bs[lo].size \in Nat
    BY <1>1, <1>3, <1>7, <2>1, Facts DEF P
  <2>3. P[lo] + bs[lo].size <= P[hi + 1]
    BY <1>1, <1>3, <1>7, Increasing DEF P
  <2> QED
    BY <2>2, <2>3
<1>9. b \in Entry /\ b.size = P[hi + 1] - P[lo] /\ b.used = FALSE /\ (bs[lo].size > 0 => b.size > 0)
  <2>1. P[hi + 1] - P[lo] \in Nat /\ (bs[lo].size > 0 => P[hi + 1] - P[lo] > 0)
    BY <1>8
  <2> QED
    BY <2>1, BlockIs
<1> HIDE DEF b
<1>10. /\ mid \in Seq(Entry) /\ Len(mid) = 1 /\ mid[1] = b /\ M[1 + 1] = b.size /\ M[1] = 0
       /\ Tidy(mid)
  BY <1>9, OneBlock
<1> HIDE DEF mid, M
<1>11. P[lo] + M[1 + 1] = P[hi + 1]
  BY <1>8, <1>9, <1>10
<1> DEFINE d == 1
<1>11a. d \in Nat /\ d > 0 /\ d = Len(mid) /\ P[lo] + M[d + 1] = P[hi + 1]
  BY <1>10, <1>11
<1> HIDE DEF d, n, bs
<1>12. /\ c \in Seq(Entry) /\ Len(c) > 0 /\ End(c) = End(bs) /\ Tidy(c)
  <2>1. Pos(bs)[lo] + Pos(mid)[d + 1] = Pos(bs)[hi + 1] /\ mid \in Seq(Entry) /\ Tidy(mid) /\ n = Len(bs)
    BY <1>10, <1>11a DEF P, M, n
  <2> QED
    BY <1>1, <1>2, <1>3, <1>4, <1>5, <1>6, <1>11a, <2>1, SpliceKeeps
<1>12a. ASSUME NEW x PROVE x \in Held(c) <=> HeldIs(bs, n, lo, hi, P, mid, d, M, x)
  <2>1. n = Len(bs) /\ P = Pos(bs) /\ M = Pos(mid) /\ mid \in Seq(Entry)
    BY <1>10 DEF n, P, M
  <2> QED
    BY <1>1, <1>3, <1>6, <1>11a, <2>1, SpliceHeld
<1>12b. Held(bs) \ {Handle(bs, i)} \subseteq Held(c)
  <2> SUFFICES ASSUME NEW x \in Held(bs), x # Handle(bs, i) PROVE x \in Held(c)
    OBVIOUS
  <2>1. PICK k \in 1..n : bs[k].used /\ x = Handle(bs, k)
    BY DEF Held, n
  <2>2. k < lo \/ hi < k
    BY <1>3, <2>1
  <2> QED
    BY <1>12a, <2>1, <2>2 DEF HeldIs
<1>13. ASSUME NEW x \in Held(c) PROVE x \in Held(bs) /\ (x.len > 0 => x # Handle(bs, i))
  <2>1. ~\E j \in 1..d : mid[j].used /\ x = [addr |-> P[lo] + M[j], len |-> mid[j].size]
    <3>1. \A j \in 1..d : j = 1
      BY DEF d
    <3> QED
      BY <1>9, <1>10, <3>1, Zenon
  <2>2. PICK k \in 1..n : (k < lo \/ hi < k) /\ bs[k].used /\ x = Handle(bs, k)
    BY <1>12a, <2>1 DEF HeldIs
  <2>3. x \in Held(bs) /\ k # i /\ n = Len(bs)
    BY <1>3, <2>2 DEF Held, n
  <2>4. \A j \in 1..n : Handle(bs, j).addr = Pos(bs)[j] /\ Handle(bs, j).len = bs[j].size
    BY DEF Handle
  <2>5. ASSUME x.len > 0, x = Handle(bs, i) PROVE FALSE
    <3>1. bs[k].size > 0 /\ bs[i].size > 0 /\ Pos(bs)[k] = Pos(bs)[i]
      BY <1>1, <2>2, <2>4, <2>5
    <3> QED
      BY <1>1, <2>3, <3>1, Apart
  <2> QED
    BY <2>3, <2>5
<1> QED
  BY <1>2, <1>12, <1>12b, <1>13 DEF bs

-----------------------------------------------------------------------------
(* The invariants.                                                          *)

\* What the callers hold is what the list says is used; only of empty blocks the
\* list may have more, since those at one address are held as one.
HeapInv ==
  /\ owned \subseteq Held(blocks)
  /\ \A x \in Held(blocks) : x.len > 0 => x \in owned

LEMMA MallocIs ==
  ASSUME ListInv, NEW s \in Nat, malloc(s)
  PROVE  \/ /\ Fits(s) = {} /\ last'.ok = FALSE /\ UNCHANGED <<blocks, owned>>
         \/ \E i \in Fits(s) :
              /\ \A j \in Fits(s) : i <= j
              /\ blocks' = Split(i, s) /\ owned' = owned \cup {[addr |-> Pos(blocks)[i], len |-> s]}
              /\ last'.ok = TRUE /\ last'.addr = Pos(blocks)[i]
<1>1. CASE Fits(s) = {}
  BY <1>1 DEF malloc, Outcome
<1>2. CASE Fits(s) # {}
  <2> DEFINE i == Min(Fits(s))
  <2>1. Fits(s) \subseteq Nat
    BY DEF Fits, ListInv
  <2>2. i \in Fits(s) /\ \A j \in Fits(s) : i <= j
    BY <1>2, <2>1, MinIs
  <2>3. /\ blocks' = Split(i, s) /\ owned' = owned \cup {[addr |-> Pos(blocks)[i], len |-> s]}
        /\ last' = [op |-> "malloc", arg |-> s, ok |-> TRUE, addr |-> Pos(blocks)[i]]
    BY <1>2 DEF malloc, Outcome
  <2> HIDE DEF i
  <2>4. last'.ok = TRUE /\ last'.addr = Pos(blocks)[i]
    BY <2>3
  <2> QED
    BY <2>2, <2>3, <2>4
<1> QED
  BY <1>1, <1>2

LEMMA FreeIs ==
  ASSUME ListInv, NEW a, free(a)
  PROVE  \/ UNCHANGED <<blocks, owned>>
         \/ \E i \in 1..Len(blocks) :
              /\ Pos(blocks)[i] = a /\ blocks[i].used /\ blocks' = Merge(i)
              /\ owned' = {b \in owned : ~(b.addr = a /\ b.len = blocks[i].size)}
<1>1. CASE FreeFails(a)
  BY <1>1 DEF free
<1>2. CASE ~FreeFails(a)
  <2> DEFINE i == Min(Found(a))
  <2>1. Found(a) \subseteq Nat /\ Found(a) # {} /\ blocks[i].used
    BY <1>2 DEF Found, FreeFails, ListInv
  <2>2. i \in Found(a)
    BY <2>1, MinIs
  <2>3. i \in 1..Len(blocks) /\ Pos(blocks)[i] = a
    BY <2>2 DEF Found, ListInv
  <2>4. blocks' = Merge(i) /\ owned' = {b \in owned : ~(b.addr = a /\ b.len = blocks[i].size)}
    BY <1>2 DEF free
  <2> HIDE DEF i
  <2> QED
    BY <2>1, <2>3, <2>4
<1> QED
  BY <1>1, <1>2

LEMMA InitialHeap ==
  ASSUME Init
  PROVE  ListInv /\ HeapInv
<1> DEFINE b == Block(Count, FALSE)
<1>0. Count \in Nat /\ Count > 0
  BY CountAssumption
<1>1. b \in Entry /\ b.size = Count /\ b.used = FALSE /\ Count > 0 /\ Count \in Nat
  BY <1>0, BlockIs, Zenon
<1>2. blocks = <<b>> /\ owned = {}
  BY DEF Init
<1> HIDE DEF b
<1>3. /\ blocks \in Seq(Entry) /\ Len(blocks) = 1 /\ blocks[1] = b /\ Pos(blocks)[2] = b.size
      /\ Tidy(blocks)
  BY <1>1, <1>2, OneBlock
<1>4. Len(blocks) + 1 = 2 /\ Len(blocks) > 0
  BY <1>3
<1>5. End(blocks) = Count
  BY <1>1, <1>3, <1>4 DEF End
<1>6. ListInv
  BY <1>3, <1>4, <1>5, ListIs DEF ListInv
<1>7. \A i \in 1..Len(blocks) : blocks[i].used = FALSE
  BY <1>1, <1>3
<1>8. Held(blocks) = {}
  BY <1>7, Zenon DEF Held
<1> QED
  BY <1>2, <1>6, <1>8 DEF HeapInv

LEMMA NextList ==
  ASSUME ListInv, [Next]_vars
  PROVE  ListInv' /\ (HeapInv => HeapInv')
<1>1. ASSUME UNCHANGED <<blocks, owned>> PROVE ListInv' /\ (HeapInv => HeapInv')
  BY <1>1 DEF ListInv, HeapInv, Coalesced, Held, Handle
<1>2. ASSUME blocks' \in Seq(Entry), Len(blocks') > 0, End(blocks') = Count, Tidy(blocks') PROVE ListInv'
  BY <1>2 DEF ListInv, Coalesced, End, Tidy
<1>h. HeapInv' <=> owned' \subseteq Held(blocks') /\ \A x \in Held(blocks') : x.len > 0 => x \in owned'
  BY DEF HeapInv, Held, Handle
<1>3. ASSUME NEW s \in Sizes, malloc(s)
      PROVE  ListInv' /\ (HeapInv => HeapInv')
  <2>1. s \in Nat
    BY SizesAssumption
  <2>2. ASSUME NEW i \in Fits(s), blocks' = Split(i, s),
               owned' = owned \cup {[addr |-> Pos(blocks)[i], len |-> s]}
        PROVE  ListInv' /\ (HeapInv => HeapInv')
    <3>1. /\ blocks' \in Seq(Entry) /\ Len(blocks') > 0 /\ End(blocks') = Count /\ Tidy(blocks')
          /\ Held(blocks') = Held(blocks) \cup {[addr |-> Pos(blocks)[i], len |-> s]}
      BY <2>1, <2>2, SplitIs
    <3>2. ListInv'
      BY <1>2, <3>1
    <3>3. HeapInv => HeapInv'
      BY <1>h, <2>2, <3>1 DEF HeapInv
    <3> QED
      BY <3>2, <3>3
  <2> QED
    BY <1>1, <1>3, <2>1, <2>2, MallocIs
<1>4. ASSUME NEW a \in 0..Count, free(a)
      PROVE  ListInv' /\ (HeapInv => HeapInv')
  <2>1. ASSUME NEW i \in 1..Len(blocks), Pos(blocks)[i] = a, blocks[i].used, blocks' = Merge(i),
               owned' = {b \in owned : ~(b.addr = a /\ b.len = blocks[i].size)}
        PROVE  ListInv' /\ (HeapInv => HeapInv')
    <3>1. /\ blocks' \in Seq(Entry) /\ Len(blocks') > 0 /\ End(blocks') = Count /\ Tidy(blocks')
          /\ Held(blocks) \ {Handle(blocks, i)} \subseteq Held(blocks')
          /\ \A x \in Held(blocks') : x \in Held(blocks) /\ (x.len > 0 => x # Handle(blocks, i))
      BY <2>1, MergeIs
    <3>2. ListInv'
      BY <1>2, <3>1
    <3>3. ASSUME HeapInv PROVE HeapInv'
      <4>1. \A b \in Held(blocks) : (b.addr = a /\ b.len = blocks[i].size) <=> b = Handle(blocks, i)
        BY <2>1 DEF Held, Handle
      <4>2. owned' = owned \ {Handle(blocks, i)}
        BY <2>1, <3>3, <4>1 DEF HeapInv
      <4>3. owned' \subseteq Held(blocks')
        BY <3>1, <3>3, <4>2 DEF HeapInv
      <4>4. ASSUME NEW x \in Held(blocks'), x.len > 0 PROVE x \in owned'
        BY <3>1, <3>3, <4>2, <4>4 DEF HeapInv
      <4> QED
        BY <1>h, <4>3, <4>4
    <3> QED
      BY <3>2, <3>3
  <2> QED
    BY <1>1, <1>4, <2>1, FreeIs
<1> QED
  BY <1>1, <1>3, <1>4 DEF Next, vars

-----------------------------------------------------------------------------
(* The units nobody holds are the units of the free blocks.                 *)

\* Unit x lies in block i.
Lies(x, i) == Pos(blocks)[i] <= x /\ x < Pos(blocks)[i + 1]

LEMMA LiesInOne ==
  ASSUME ListInv, NEW x \in Nat, NEW i \in 1..Len(blocks), NEW j \in 1..Len(blocks), Lies(x, i), Lies(x, j)
  PROVE  i = j
<1>1. /\ blocks \in Seq(Entry) /\ i \in 1..(Len(blocks) + 1) /\ j \in 1..(Len(blocks) + 1)
      /\ Len(blocks) \in Nat
  BY DEF ListInv
<1>2. /\ Pos(blocks)[i] \in Nat /\ Pos(blocks)[i + 1] = Pos(blocks)[i] + blocks[i].size /\ blocks[i].size \in Nat
      /\ Pos(blocks)[j] \in Nat /\ Pos(blocks)[j + 1] = Pos(blocks)[j] + blocks[j].size /\ blocks[j].size \in Nat
  BY <1>1, Facts
<1>3. ASSUME i < j PROVE FALSE
  <2>1. Pos(blocks)[i] + blocks[i].size <= Pos(blocks)[j]
    BY <1>1, <1>3, Increasing
  <2> QED
    BY <2>1, <1>2 DEF Lies
<1>4. ASSUME j < i PROVE FALSE
  <2>1. Pos(blocks)[j] + blocks[j].size <= Pos(blocks)[i]
    BY <1>1, <1>4, Increasing
  <2> QED
    BY <2>1, <1>2 DEF Lies
<1> QED
  BY <1>3, <1>4

LEMMA AvailableIs ==
  ASSUME ListInv, HeapInv, NEW x \in Nat
  PROVE  x \in Available <=> \E i \in 1..Len(blocks) : blocks[i].used = FALSE /\ Lies(x, i)
<1> DEFINE P == Pos(blocks)
<1>1. /\ blocks \in Seq(Entry) /\ Len(blocks) \in Nat /\ P[Len(blocks) + 1] = Count /\ Count \in Nat
  BY CountAssumption DEF ListInv, Coalesced
<1>2. \A i \in 1..Len(blocks) : /\ blocks[i].size \in Nat /\ blocks[i].used \in BOOLEAN
                                /\ P[i] \in Nat /\ P[i + 1] = P[i] + blocks[i].size
  BY <1>1, Facts
<1>3. \A i \in 1..Len(blocks) : P[i] + blocks[i].size <= Count
  <2> TAKE i \in 1..Len(blocks)
  <2>1. Len(blocks) + 1 \in 1..(Len(blocks) + 1) /\ i < Len(blocks) + 1
    BY <1>1
  <2>2. P[i] + blocks[i].size <= P[Len(blocks) + 1]
    BY <2>1, <1>1, Increasing
  <2> QED
    BY <2>2, <1>1
<1>4. ASSUME NEW i \in 1..Len(blocks)
      PROVE  x \in P[i] .. (P[i] + blocks[i].size - 1) <=> Lies(x, i)
  <2> HIDE DEF P
  <2>1. P[i] \in Nat /\ blocks[i].size \in Nat /\ P[i + 1] = P[i] + blocks[i].size
    BY <1>2
  <2>2. Lies(x, i) <=> P[i] <= x /\ x < P[i + 1]
    BY DEF Lies, P
  <2> QED
    BY <2>1, <2>2
<1>5. (\E b \in owned : x \in b.addr .. (b.addr + b.len - 1))
        <=> \E i \in 1..Len(blocks) : blocks[i].used /\ Lies(x, i)
  <2>1. \A i \in 1..Len(blocks) : Handle(blocks, i).addr = P[i] /\ Handle(blocks, i).len = blocks[i].size
    BY DEF Handle
  <2>2. /\ \A b \in owned : \E i \in 1..Len(blocks) : blocks[i].used /\ b = Handle(blocks, i)
        /\ \A i \in 1..Len(blocks) : blocks[i].used /\ Handle(blocks, i).len > 0 => Handle(blocks, i) \in owned
    BY DEF HeapInv, Held
  <2> HIDE DEF P
  <2>3. ASSUME NEW b \in owned, x \in b.addr .. (b.addr + b.len - 1)
        PROVE  \E i \in 1..Len(blocks) : blocks[i].used /\ Lies(x, i)
    <3>1. PICK i \in 1..Len(blocks) : blocks[i].used /\ b = Handle(blocks, i)
      BY <2>2
    <3>2. x \in P[i] .. (P[i] + blocks[i].size - 1)
      BY <3>1, <2>1, <2>3
    <3> QED
      BY <3>1, <3>2, <1>4
  <2>4. ASSUME NEW i \in 1..Len(blocks), blocks[i].used, Lies(x, i)
        PROVE  \E b \in owned : x \in b.addr .. (b.addr + b.len - 1)
    <3>0. Handle(blocks, i).len > 0
      BY <1>2, <1>4, <2>1, <2>4
    <3>1. Handle(blocks, i) \in owned
      BY <2>2, <2>4, <3>0
    <3>2. x \in Handle(blocks, i).addr .. (Handle(blocks, i).addr + Handle(blocks, i).len - 1)
      BY <2>1, <2>4, <1>4
    <3> QED
      BY <3>1, <3>2
  <2> QED
    BY <2>3, <2>4
<1>6. x \in Available <=> x < Count /\ ~\E b \in owned : x \in b.addr .. (b.addr + b.len - 1)
  <2>1. x \in 0..(Count - 1) <=> x < Count
    BY <1>1
  <2>2. x \in UNION {b.addr .. (b.addr + b.len - 1) : b \in owned}
          <=> \E b \in owned : x \in b.addr .. (b.addr + b.len - 1)
    OBVIOUS
  <2> QED
    BY <2>1, <2>2 DEF Available
<1>7. ASSUME x \in Available PROVE \E i \in 1..Len(blocks) : blocks[i].used = FALSE /\ Lies(x, i)
  <2>1. x < P[Len(blocks) + 1]
    BY <1>6, <1>7, <1>1
  <2>2. PICK i \in 1..Len(blocks) : P[i] <= x /\ x < P[i + 1]
    BY <2>1, <1>1, Somewhere
  <2>3. Lies(x, i)
    BY <2>2 DEF Lies
  <2>4. ~blocks[i].used
    BY <2>3, <1>5, <1>6, <1>7
  <2> QED
    BY <2>3, <2>4, <1>2
<1>8. ASSUME NEW i \in 1..Len(blocks), blocks[i].used = FALSE, Lies(x, i) PROVE x \in Available
  <2>1. x < Count
    <3> HIDE DEF P
    <3>1. x < P[i + 1]
      BY <1>8 DEF Lies, P
    <3> QED
      BY <3>1, <1>1, <1>2, <1>3
  <2>2. ASSUME NEW j \in 1..Len(blocks), blocks[j].used, Lies(x, j) PROVE FALSE
    <3>1. i = j
      BY <2>2, <1>8, LiesInOne
    <3> QED
      BY <3>1, <2>2, <1>8
  <2> QED
    BY <2>1, <2>2, <1>5, <1>6
<1> QED
  BY <1>7, <1>8

LEMMA PosInHeap ==
  ASSUME ListInv, NEW i \in 1..Len(blocks)
  PROVE  /\ Pos(blocks)[i] \in Nat /\ blocks[i].size \in Nat /\ blocks[i].used \in BOOLEAN
         /\ Pos(blocks)[i + 1] = Pos(blocks)[i] + blocks[i].size
         /\ Pos(blocks)[i + 1] <= Count /\ Count \in Nat /\ Pos(blocks)[Len(blocks) + 1] = Count
<1>1. blocks \in Seq(Entry) /\ Len(blocks) \in Nat /\ Pos(blocks)[Len(blocks) + 1] = Count /\ Count \in Nat
  BY CountAssumption DEF ListInv, Coalesced
<1>2. Len(blocks) + 1 \in 1..(Len(blocks) + 1) /\ i < Len(blocks) + 1
  BY <1>1
<1>3. Pos(blocks)[i] + blocks[i].size <= Pos(blocks)[Len(blocks) + 1]
  BY <1>1, <1>2, Increasing
<1>4. /\ Pos(blocks)[i] \in Nat /\ blocks[i].size \in Nat /\ blocks[i].used \in BOOLEAN
      /\ Pos(blocks)[i + 1] = Pos(blocks)[i] + blocks[i].size
  BY <1>1, <1>2, Facts
<1> QED
  BY <1>1, <1>3, <1>4

\* A block malloc() could take starts room for the allocation.
LEMMA FitIsRoom ==
  ASSUME ListInv, HeapInv, NEW s \in Nat, s > 0, NEW i \in Fits(s)
  PROVE  Pos(blocks)[i] \in Room(s)
<1>1. i \in 1..Len(blocks) /\ ~blocks[i].used /\ blocks[i].size >= s
  BY DEF Fits, ListInv
<1> DEFINE p == Pos(blocks)[i]
<1>2. /\ p \in Nat /\ blocks[i].size \in Nat /\ blocks[i].used = FALSE
      /\ Pos(blocks)[i + 1] = p + blocks[i].size /\ Pos(blocks)[i + 1] <= Count /\ Count \in Nat
  BY <1>1, PosInHeap
<1>3. \A x \in Nat : Lies(x, i) <=> p <= x /\ x < Pos(blocks)[i + 1]
  BY DEF Lies
<1> HIDE DEF p
<1>4. p \in 0..(Count - 1) /\ p + s <= Count
  BY <1>1, <1>2
<1>5. ASSUME NEW x \in p..(p + s - 1) PROVE x \in Available
  <2>1. x \in Nat /\ p <= x /\ x < p + blocks[i].size
    BY <1>1, <1>2
  <2>2. Lies(x, i)
    BY <2>1, <1>2, <1>3
  <2> QED
    BY <2>1, <2>2, <1>1, <1>2, AvailableIs
<1>6. p \in Room(s)
  BY <1>4, <1>5 DEF Room
<1> QED
  BY <1>6 DEF p

\* Room lies in one free block, because free blocks have no free neighbours.
LEMMA RoomIsFit ==
  ASSUME ListInv, HeapInv, NoneEmpty, NEW s \in Nat, s > 0, NEW a \in Room(s)
  PROVE  \E i \in Fits(s) : Pos(blocks)[i] <= a
<1>1. a \in Nat /\ a + s <= Count /\ a..(a + s - 1) \subseteq Available
  BY CountAssumption DEF Room
<1>2. a \in Available
  BY <1>1
<1>3. PICK i \in 1..Len(blocks) : blocks[i].used = FALSE /\ Lies(a, i)
  BY <1>1, <1>2, AvailableIs
<1> DEFINE q == Pos(blocks)[i + 1]
<1>4. /\ Pos(blocks)[i] \in Nat /\ blocks[i].size \in Nat /\ Count \in Nat
      /\ q = Pos(blocks)[i] + blocks[i].size /\ q <= Count /\ Pos(blocks)[Len(blocks) + 1] = Count
  BY PosInHeap
<1>5. Pos(blocks)[i] <= a /\ a < q
  BY <1>3 DEF Lies
<1>6. CASE a + s <= q
  <2> HIDE DEF q
  <2>1. blocks[i].size >= s
    BY <1>1, <1>4, <1>5, <1>6
  <2>2. i \in Fits(s)
    BY <2>1, <1>3 DEF Fits, ListInv
  <2> QED
    BY <2>2, <1>5
<1>7. CASE q < a + s
  <2>1. i # Len(blocks)
    BY <1>1, <1>4, <1>7
  <2>2. i + 1 \in 1..Len(blocks) /\ i \in 1..(Len(blocks) - 1)
    BY <2>1 DEF ListInv
  <2>3. q \in a..(a + s - 1) /\ q \in Nat
    <3> HIDE DEF q
    <3> QED
      BY <1>1, <1>4, <1>5, <1>7
  <2>4. q \in Available
    BY <2>3, <1>1
  <2>5. PICK j \in 1..Len(blocks) : blocks[j].used = FALSE /\ Lies(q, j)
    BY <2>3, <2>4, AvailableIs
  <2>6. blocks[i + 1].size > 0
    BY <2>2 DEF NoneEmpty, ListInv
  <2>7. /\ blocks[i + 1].size \in Nat
        /\ Pos(blocks)[(i + 1) + 1] = q + blocks[i + 1].size
    BY <2>2, PosInHeap
  <2>8. Lies(q, i + 1)
    <3>1. q <= q /\ q < Pos(blocks)[(i + 1) + 1]
      <4> HIDE DEF q
      <4> QED
        BY <2>3, <2>6, <2>7
    <3> QED
      BY <3>1 DEF Lies
  <2>9. j = i + 1
    BY <2>2, <2>3, <2>5, <2>8, LiesInOne
  <2>10. blocks[i].used \/ blocks[i + 1].used
    BY <2>2 DEF ListInv, Coalesced
  <2> QED
    BY <2>5, <2>9, <2>10, <1>3
<1> QED
  <2> HIDE DEF q
  <2> QED
    BY <1>1, <1>4, <1>6, <1>7

-----------------------------------------------------------------------------
(* The theorems.                                                            *)

\* The blocks always fill the heap and a free one never follows a free one: what
\* check() of class MemMgr verifies holds whatever the sequence of malloc() and
\* free(), the calls that fail and allocations of size 0 included.
THEOREM HeapIsCoalesced == Spec => []Coalesced
<1>1. Init => ListInv
  BY InitialHeap
<1>2. ListInv /\ [Next]_vars => ListInv'
  BY NextList
<1>3. ListInv => Coalesced
  BY DEF ListInv
<1> QED
  BY <1>1, <1>2, <1>3, PTL DEF Spec

\* The blocks of at least one unit that the callers of malloc() hold are exactly
\* those the list of class MemMgr has as used, and an empty one that somebody holds
\* is in the list too.
THEOREM HeapInvariant == Spec => [](ListInv /\ HeapInv)
<1>1. Init => ListInv /\ HeapInv
  BY InitialHeap
<1>2. ListInv /\ HeapInv /\ [Next]_vars => (ListInv /\ HeapInv)'
  BY NextList
<1> QED
  BY <1>1, <1>2, PTL DEF Spec

LEMMA RefusedBehind ==
  ASSUME ListInv, HeapInv
  PROVE  RefusedOnlyBehindEmpty
<1> SUFFICES ASSUME NEW b \in owned, b.len > 0, FreeFails(b.addr)
             PROVE  LET i == Min(Found(b.addr)) IN blocks[i].size = 0 /\ ~blocks[i].used
  BY DEF RefusedOnlyBehindEmpty
<1>1. PICK k \in 1..Len(blocks) : blocks[k].used /\ b = Handle(blocks, k)
  BY DEF HeapInv, Held
<1>2. b.addr = Pos(blocks)[k] /\ blocks[k].size > 0
  BY <1>1 DEF Handle
<1>3. /\ Pos(blocks)[k] \in Nat /\ blocks[k].size \in Nat /\ Count \in Nat
      /\ Pos(blocks)[k] + blocks[k].size <= Count
  BY PosInHeap
<1>4. ~(b.addr >= Count)
  BY <1>2, <1>3
<1>5. k \in Found(b.addr) /\ Found(b.addr) \subseteq 1..Len(blocks) /\ Found(b.addr) \subseteq Nat
  BY <1>2 DEF Found, ListInv
<1> DEFINE i == Min(Found(b.addr))
<1>6. i \in Found(b.addr) /\ i <= k
  BY <1>5, MinIs
<1>7. ~blocks[i].used
  BY <1>4, <1>5 DEF FreeFails
<1> HIDE DEF i
<1>8. i \in 1..Len(blocks) /\ Pos(blocks)[i] = Pos(blocks)[k]
  BY <1>2, <1>5, <1>6 DEF Found
<1>9. i < k
  BY <1>1, <1>6, <1>7, <1>8
<1>10. k \in 1..(Len(blocks) + 1) /\ blocks \in Seq(Entry) /\ blocks[i].size \in Nat
  BY <1>8, PosInHeap DEF ListInv
<1>11. Pos(blocks)[i] + blocks[i].size <= Pos(blocks)[k]
  BY <1>8, <1>9, <1>10, Increasing
<1>12. blocks[i].size = 0
  BY <1>3, <1>8, <1>10, <1>11
<1> QED
  BY <1>7, <1>12 DEF i

\* free() of class MemMgr takes back every block of at least one unit that
\* malloc() handed out, but for the one circumstance in which it cannot: an
\* allocation of 0 bytes at the same address has been given back before it, and
\* its empty free block comes first.  This is for any requests, empty or not.
THEOREM RefusalIsBehindEmpty == Spec => []RefusedOnlyBehindEmpty
<1>1. ListInv /\ HeapInv => RefusedOnlyBehindEmpty
  BY RefusedBehind
<1> QED
  BY <1>1, HeapInvariant, PTL

LEMMA MallocIsFirst ==
  ASSUME ListInv, HeapInv, NoneEmpty, NEW s \in Nat, s > 0, malloc(s)
  PROVE  IF Room(s) = {} THEN ~last'.ok ELSE last'.ok /\ last'.addr = Min(Room(s))
<1>1. Room(s) \subseteq Nat
  BY CountAssumption DEF Room
<1>2. CASE Fits(s) = {} /\ last'.ok = FALSE
  BY <1>2, RoomIsFit
<1>3. ASSUME NEW i \in Fits(s), \A j \in Fits(s) : i <= j,
             last'.ok = TRUE, last'.addr = Pos(blocks)[i]
      PROVE  Room(s) # {} /\ last'.ok /\ last'.addr = Min(Room(s))
  <2>1. Pos(blocks)[i] \in Room(s)
    BY FitIsRoom
  <2> DEFINE m == Min(Room(s))
  <2>2. m \in Room(s) /\ m <= Pos(blocks)[i]
    BY <1>1, <2>1, MinIs
  <2> HIDE DEF m
  <2>3. PICK k \in Fits(s) : Pos(blocks)[k] <= m
    BY <2>2, RoomIsFit
  <2>4. i \in 1..Len(blocks) /\ k \in 1..Len(blocks) /\ blocks \in Seq(Entry) /\ Len(blocks) \in Nat
    BY DEF Fits, ListInv
  <2>5. Pos(blocks)[i] \in Nat /\ Pos(blocks)[k] \in Nat /\ blocks[i].size \in Nat
    BY <2>4, PosInHeap
  <2>6. Pos(blocks)[i] <= Pos(blocks)[k]
    <3>1. CASE i = k
      BY <3>1, <2>5
    <3>2. CASE i < k
      <4>1. k \in 1..(Len(blocks) + 1)
        BY <2>4
      <4>2. Pos(blocks)[i] + blocks[i].size <= Pos(blocks)[k]
        BY <3>2, <4>1, <2>4, Increasing
      <4> QED
        BY <4>2, <2>5
    <3> QED
      BY <1>3, <2>4, <3>1, <3>2
  <2>7. m \in Nat
    BY <2>2, <1>1
  <2>8. m = Pos(blocks)[i]
    BY <2>2, <2>3, <2>5, <2>6, <2>7
  <2> QED
    BY <1>3, <2>1, <2>8 DEF m
<1>4. \/ Fits(s) = {} /\ last'.ok = FALSE
      \/ \E i \in Fits(s) : (\A j \in Fits(s) : i <= j) /\ last'.ok = TRUE /\ last'.addr = Pos(blocks)[i]
  BY MallocIs
<1> QED
  BY <1>2, <1>3, <1>4

\* malloc() of class MemMgr hands out the lowest address with enough units that
\* nobody holds and raises "Out of memory" only when there is none, although it
\* looks at one block at a time: the free blocks are kept merged.  This is while
\* no empty block is in the list, whatever was allocated and freed before.
THEOREM MallocIsFirstFit == Spec => FirstFit
<1> DEFINE A == NoneEmpty => \A n \in Sizes \ {0} : malloc(n) =>
                  IF Room(n) = {} THEN ~last'.ok ELSE last'.ok /\ last'.addr = Min(Room(n))
<1>1. ListInv /\ HeapInv => A
  <2>1. \A n \in Sizes \ {0} : n \in Nat /\ n > 0
    BY SizesAssumption
  <2> QED
    BY <2>1, MallocIsFirst
<1>2. ListInv /\ HeapInv /\ [Next]_vars => [A]_vars
  BY <1>1
<1>3. Spec => [](ListInv /\ HeapInv)
  BY HeapInvariant
<1> QED
  BY <1>2, <1>3, PTL DEF Spec, FirstFit

LEMMA MallocMaps ==
  ASSUME ListInv, HeapInv, NEW s \in Sizes, malloc(s)
  PROVE  H!Next \/ UNCHANGED Live
<1>1. s \in Nat
  BY SizesAssumption
<1>2. ASSUME NEW i \in Fits(s), owned' = owned \cup {[addr |-> Pos(blocks)[i], len |-> s]}
      PROVE  H!Next \/ UNCHANGED Live
  <2> DEFINE p == Pos(blocks)[i]
             new == [addr |-> p, len |-> s]
  <2>1. i \in 1..Len(blocks) /\ ~blocks[i].used /\ blocks[i].size >= s
    BY DEF Fits, ListInv
  <2>2. /\ p \in Nat /\ blocks[i].size \in Nat /\ Count \in Nat
        /\ p + blocks[i].size <= Count /\ Pos(blocks)[i + 1] = p + blocks[i].size
    BY <2>1, PosInHeap
  <2>e. CASE s = 0
    BY <1>2, <2>e DEF Live
  <2>s. CASE s > 0
    <3>3. p \in 0..(Count - 1) /\ p + s <= Count /\ blocks[i].size > 0
      <4> HIDE DEF p
      <4> QED
        BY <1>1, <2>s, <2>1, <2>2
    <3>4. new \in [addr : 0..(Count - 1), len : Sizes] /\ new.addr = p /\ new.len = s
      BY <3>3
    <3>5. ASSUME NEW c \in Live PROVE c.addr # new.addr /\ H!Disjoint(new, c)
      <4>1. PICK j \in 1..Len(blocks) : blocks[j].used /\ c = Handle(blocks, j)
        BY DEF HeapInv, Held, Live
      <4>2. i # j
        BY <2>1, <4>1
      <4>3. c.addr = Pos(blocks)[j] /\ c.len = blocks[j].size /\ blocks[j].size > 0
        BY <4>1 DEF Handle, Live
      <4>4. Pos(blocks)[j] # p
        BY <2>1, <3>3, <4>2, <4>3, Apart DEF ListInv
      <4>5. /\ Pos(blocks)[j] \in Nat /\ blocks[j].size \in Nat
            /\ Pos(blocks)[j + 1] = Pos(blocks)[j] + blocks[j].size
        BY PosInHeap
      <4>6. ASSUME NEW x \in p..(p + s - 1), x \in Pos(blocks)[j] .. (Pos(blocks)[j] + blocks[j].size - 1)
            PROVE  FALSE
        <5>1. p <= x /\ x < p + blocks[i].size /\ x \in Nat
          <6> HIDE DEF p
          <6> QED
            BY <1>1, <2>1, <2>2
        <5>2. Pos(blocks)[j] <= x /\ x < Pos(blocks)[j + 1]
          BY <4>5, <4>6, <5>1
        <5>3. Lies(x, i) /\ Lies(x, j)
          BY <5>1, <5>2, <2>2 DEF Lies
        <5> QED
          BY <5>1, <5>3, <2>1, <4>2, LiesInOne
      <4>7. H!Disjoint(new, c) <=> (p..(p + s - 1)) \cap (Pos(blocks)[j] .. (Pos(blocks)[j] + blocks[j].size - 1)) = {}
        BY <3>4, <4>3 DEF H!Disjoint, H!Covers
      <4> QED
        BY <3>4, <4>3, <4>4, <4>6, <4>7
    <3>6. Live' = Live \cup {new}
      BY <1>2, <2>s DEF Live
    <3> HIDE DEF new
    <3>7. H!Malloc(new)
      BY <3>3, <3>4, <3>5, <3>6 DEF H!Malloc
    <3> QED
      BY <3>4, <3>7 DEF H!Next
  <2> QED
    BY <1>1, <2>e, <2>s
<1>3. UNCHANGED owned => UNCHANGED Live
  BY DEF Live
<1> QED
  BY <1>1, <1>2, <1>3, MallocIs

LEMMA FreeMaps ==
  ASSUME ListInv, HeapInv, NEW a \in 0..Count, free(a)
  PROVE  H!Next \/ UNCHANGED Live
<1>1. ASSUME NEW i \in 1..Len(blocks), Pos(blocks)[i] = a, blocks[i].used,
             owned' = {b \in owned : ~(b.addr = a /\ b.len = blocks[i].size)}
      PROVE  H!Next \/ UNCHANGED Live
  <2> DEFINE h == Handle(blocks, i)
  <2>1. h \in Held(blocks) /\ h.addr = a /\ h.len = blocks[i].size
    BY <1>1 DEF Held, Handle
  <2>2. \A b \in owned : (b.addr = a /\ b.len = blocks[i].size) <=> b = h
    BY <1>1 DEF HeapInv, Held, Handle
  <2> HIDE DEF h
  <2>3. owned' = owned \ {h}
    BY <1>1, <2>2
  <2>4. Live' = Live \ {h}
    BY <2>3 DEF Live
  <2>5. CASE h.len > 0
    <3>1. h \in Live
      BY <2>1, <2>5 DEF HeapInv, Live
    <3> QED
      BY <2>4, <3>1 DEF H!Next, H!Free
  <2>6. CASE ~(h.len > 0)
    BY <2>4, <2>6 DEF Live
  <2> QED
    BY <2>5, <2>6
<1>2. UNCHANGED owned => UNCHANGED Live
  BY DEF Live
<1> QED
  BY <1>1, <1>2, FreeIs

\* The block list of class MemMgr implements the heap of module Heap, whatever
\* sizes are asked for: malloc() hands out blocks that lie in the heap and overlap
\* none that is held, and free() takes back one held block and no other.
THEOREM ListImplementsHeap == Spec => ImplementsHeap
<1>1. Init => H!Init
  BY DEF Init, H!Init, Live
<1>2. ListInv /\ HeapInv /\ [Next]_vars => [H!Next]_Live
  <2> SUFFICES ASSUME ListInv, HeapInv, [Next]_vars PROVE [H!Next]_Live
    OBVIOUS
  <2>1. CASE UNCHANGED vars
    BY <2>1 DEF vars, Live
  <2>2. ASSUME NEW s \in Sizes, malloc(s) PROVE [H!Next]_Live
    BY <2>2, MallocMaps
  <2>3. ASSUME NEW a \in 0..Count, free(a) PROVE [H!Next]_Live
    BY <2>3, FreeMaps
  <2> QED
    BY <2>1, <2>2, <2>3 DEF Next
<1> QED
  BY <1>1, <1>2, HeapInvariant, PTL DEF Spec, ImplementsHeap, H!Spec
=============================================================================
