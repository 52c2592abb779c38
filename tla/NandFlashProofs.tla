--------------------------- MODULE NandFlashProofs ---------------------------
(***************************************************************************)
(* For a chip of any geometry and any order of commands: the chip holds    *)
(* what was asked of it and reads go on where they were told to start.     *)
(***************************************************************************)
EXTENDS NandFlash, WellFoundedInduction, TLAPS

-----------------------------------------------------------------------------
(* Numbers.                                                                 *)

\* A set of numbers has a least one.
LEMMA Least ==
  ASSUME NEW T, T \subseteq Nat, T # {}
  PROVE  \E x \in T : \A y \in T : x <= y
<1> DEFINE R == OpToRel(<, Nat)
<1>1. IsWellFoundedOn(R, Nat)
  BY NatLessThanWellFounded
<1>2. \E x \in T : \A y \in T : ~(<<y, x>> \in R)
  <2> HIDE DEF R
  <2> QED
    BY <1>1, WFMin
<1>3. \A x, y \in Nat : <<y, x>> \in R <=> y < x
  BY DEF OpToRel
<1> HIDE DEF R
<1>4. PICK x \in T : \A y \in T : ~(<<y, x>> \in R)
  BY <1>2
<1>5. ASSUME NEW y \in T PROVE x <= y
  <2>1. ~(y < x)
    BY <1>3, <1>4
  <2> QED
    BY <2>1
<1> QED
  BY <1>5

LEMMA Digits ==
  ASSUME NEW x \in Nat, NEW r \in Nat \ {0}
  PROVE  /\ x % r \in Nat /\ x \div r \in Nat
         /\ x = (x % r) + r * (x \div r)
OBVIOUS

LEMMA Scale ==
  ASSUME NEW a \in Nat, NEW b \in Nat, NEW r \in Nat
  PROVE  /\ r * a \in Nat
         /\ a <= b => r * a <= r * b
         /\ r * (a + b) = r * a + r * b
OBVIOUS

LEMMA Associates ==
  ASSUME NEW a \in Nat, NEW b \in Nat, NEW c \in Nat
  PROVE  a * (b * c) = a * b * c
OBVIOUS

LEMMA Constants ==
  /\ Radix \in Nat \ {0} /\ PageBytes \in Nat \ {0} /\ PageCount \in Nat \ {0} /\ PagesPerBlock \in Nat \ {0}
  /\ Pages \subseteq AllPages
BY NandAssumption

\* The bytes of an address and what the chip makes of the first of them.
LEMMA OffsetBytes ==
  ASSUME NEW x \in Nat
  PROVE  /\ x % Radix \in Nat /\ x \div Radix \in Nat /\ x % Radix <= x
         /\ (x % Radix) + Radix * (x \div Radix) = x
<1>1. x % Radix \in Nat /\ x \div Radix \in Nat /\ x = (x % Radix) + Radix * (x \div Radix)
  BY Constants, Digits
<1>2. Radix * (x \div Radix) \in Nat
  BY <1>1, Constants, Scale
<1> QED
  BY <1>1, <1>2

LEMMA PageNumberBytes ==
  ASSUME NEW x \in Nat,
         NEW a, a = x % Radix, NEW b, b = (x \div Radix) % Radix, NEW c, c = (x \div Radix) \div Radix
  PROVE  /\ a \in Nat /\ b \in Nat /\ c \in Nat /\ a <= x /\ a + Radix * b <= x
         /\ a + Radix * b \in Nat /\ (a + Radix * b) + Radix * Radix * c = x
<1> DEFINE q == x \div Radix
<1>1. a \in Nat /\ q \in Nat /\ a <= x /\ a + Radix * q = x
  BY OffsetBytes
<1>2. b \in Nat /\ c \in Nat /\ b <= q /\ b + Radix * c = q
  BY <1>1, OffsetBytes
<1> HIDE DEF q
<1>3. Radix \in Nat /\ Radix * c \in Nat /\ Radix * b \in Nat /\ Radix * q \in Nat /\ Radix * b <= Radix * q
  BY <1>1, <1>2, Constants, Scale
<1>4. Radix * q = Radix * b + Radix * (Radix * c)
  BY <1>2, <1>3, Scale
<1>5. Radix * (Radix * c) = Radix * Radix * c /\ Radix * (Radix * c) \in Nat
  <2>1. Radix * (Radix * c) = Radix * Radix * c
    BY <1>2, <1>3, Associates
  <2>2. \A d \in Nat : Radix * d \in Nat
    BY <1>3, Scale
  <2> QED
    BY <1>3, <2>1, <2>2
<1>6. a + Radix * b \in Nat /\ a + Radix * b <= x /\ (a + Radix * b) + Radix * (Radix * c) = x
  BY <1>1, <1>2, <1>3, <1>4, <1>5
<1> QED
  BY <1>1, <1>2, <1>5, <1>6

-----------------------------------------------------------------------------
(* The loops over the bytes of a command.  The functions they are defined   *)
(* by exist: the shortest loop without one could be given one from the loop *)
(* that is one byte shorter.                                                *)

Addresses(f, m, addr) == f = [i \in 0..Len(addr) |-> IF i = 0 THEN m ELSE DoAddr(f[i - 1], addr[i])]

LEMMA AddressingExists ==
  ASSUME NEW m, NEW addr \in Seq(Nat)
  PROVE  \E f : Addresses(f, m, addr)
<1> DEFINE Good(n, f) == f = [i \in 0..n |-> IF i = 0 THEN m ELSE DoAddr(f[i - 1], addr[i])]
           T == {n \in 0..Len(addr) : ~\E f : Good(n, f)}
<1> SUFFICES ASSUME T # {} PROVE FALSE
  <2>1. Len(addr) \in 0..Len(addr)
    OBVIOUS
  <2>2. Len(addr) \notin T => \E f : Good(Len(addr), f)
    BY <2>1
  <2> QED
    BY <2>2 DEF Addresses
<1>1. PICK n \in T : \A y \in T : n <= y
  <2>1. T \subseteq Nat
    OBVIOUS
  <2> HIDE DEF T
  <2> QED
    BY <2>1, Least
<1>2. n \in 0..Len(addr) /\ n \in Nat /\ ~\E f : Good(n, f)
  OBVIOUS
<1>3. CASE n = 0
  <2> DEFINE f == [i \in 0..0 |-> m]
  <2>1. Good(0, f)
    OBVIOUS
  <2> HIDE DEF Good
  <2> QED
    BY <1>2, <1>3, <2>1
<1>4. CASE n # 0
  <2>1. n - 1 \in 0..Len(addr) /\ n - 1 \notin T
    <3>1. n - 1 \in 0..Len(addr) /\ ~(n <= n - 1)
      BY <1>2, <1>4
    <3> HIDE DEF T
    <3> QED
      BY <1>1, <3>1
  <2>2. \E f : Good(n - 1, f)
    <3> HIDE DEF Good
    <3> QED
      BY <2>1
  <2> PICK f : Good(n - 1, f)
    BY <2>2
  <2>3. f = [i \in 0..(n - 1) |-> IF i = 0 THEN m ELSE DoAddr(f[i - 1], addr[i])]
    BY <1>2
  <2> DEFINE g == [i \in 0..n |-> IF i < n THEN f[i] ELSE DoAddr(f[n - 1], addr[n])]
  <2>4. ASSUME NEW i \in 0..n
        PROVE  g[i] = IF i = 0 THEN m ELSE DoAddr(g[i - 1], addr[i])
    BY <1>2, <1>4, <2>3
  <2>5. g = [i \in 0..n |-> IF i = 0 THEN m ELSE DoAddr(g[i - 1], addr[i])]
    <3>1. g = [i \in 0..n |-> g[i]]
      OBVIOUS
    <3> HIDE DEF g
    <3> QED
      BY <2>4, <3>1
  <2>6. Good(n, g)
    BY <2>5
  <2> HIDE DEF Good
  <2> QED
    BY <1>2, <2>6
<1> QED
  BY <1>3, <1>4

Addressed(f, m, addr) == f[0] = m /\ \A i \in 1..Len(addr) : f[i] = DoAddr(f[i - 1], addr[i])

LEMMA AddressingIs ==
  ASSUME NEW m, NEW addr \in Seq(Nat)
  PROVE  Addressed(Addressing(m, addr), m, addr)
<1> DEFINE f == Addressing(m, addr)
<1>1. f = CHOOSE h : Addresses(h, m, addr)
  BY DEF Addressing, Addresses
<1> HIDE DEF f
<1>2. Addresses(f, m, addr)
  BY <1>1, AddressingExists
<1> QED
  BY <1>2 DEF f, Addressed, Addresses

Loads(f, m, data) == f = [i \in 0..Len(data) |-> IF i = 0 THEN m ELSE DoDataWrite(f[i - 1], data[i])]

LEMMA LoadingExists ==
  ASSUME NEW m, NEW data \in Seq(Byte)
  PROVE  \E f : Loads(f, m, data)
<1> DEFINE Good(n, f) == f = [i \in 0..n |-> IF i = 0 THEN m ELSE DoDataWrite(f[i - 1], data[i])]
           T == {n \in 0..Len(data) : ~\E f : Good(n, f)}
<1> SUFFICES ASSUME T # {} PROVE FALSE
  <2>1. Len(data) \in 0..Len(data)
    OBVIOUS
  <2>2. Len(data) \notin T => \E f : Good(Len(data), f)
    BY <2>1
  <2> QED
    BY <2>2 DEF Loads
<1>1. PICK n \in T : \A y \in T : n <= y
  <2>1. T \subseteq Nat
    OBVIOUS
  <2> HIDE DEF T
  <2> QED
    BY <2>1, Least
<1>2. n \in 0..Len(data) /\ n \in Nat /\ ~\E f : Good(n, f)
  OBVIOUS
<1>3. CASE n = 0
  <2> DEFINE f == [i \in 0..0 |-> m]
  <2>1. Good(0, f)
    OBVIOUS
  <2> HIDE DEF Good
  <2> QED
    BY <1>2, <1>3, <2>1
<1>4. CASE n # 0
  <2>1. n - 1 \in 0..Len(data) /\ n - 1 \notin T
    <3>1. n - 1 \in 0..Len(data) /\ ~(n <= n - 1)
      BY <1>2, <1>4
    <3> HIDE DEF T
    <3> QED
      BY <1>1, <3>1
  <2>2. \E f : Good(n - 1, f)
    <3> HIDE DEF Good
    <3> QED
      BY <2>1
  <2> PICK f : Good(n - 1, f)
    BY <2>2
  <2>3. f = [i \in 0..(n - 1) |-> IF i = 0 THEN m ELSE DoDataWrite(f[i - 1], data[i])]
    BY <1>2
  <2> DEFINE g == [i \in 0..n |-> IF i < n THEN f[i] ELSE DoDataWrite(f[n - 1], data[n])]
  <2>4. ASSUME NEW i \in 0..n
        PROVE  g[i] = IF i = 0 THEN m ELSE DoDataWrite(g[i - 1], data[i])
    BY <1>2, <1>4, <2>3
  <2>5. g = [i \in 0..n |-> IF i = 0 THEN m ELSE DoDataWrite(g[i - 1], data[i])]
    <3>1. g = [i \in 0..n |-> g[i]]
      OBVIOUS
    <3> HIDE DEF g
    <3> QED
      BY <2>4, <3>1
  <2>6. Good(n, g)
    BY <2>5
  <2> HIDE DEF Good
  <2> QED
    BY <1>2, <2>6
<1> QED
  BY <1>3, <1>4

LoadedUp(f, m, data) == f[0] = m /\ \A i \in 1..Len(data) : f[i] = DoDataWrite(f[i - 1], data[i])

LEMMA LoadingIs ==
  ASSUME NEW m, NEW data \in Seq(Byte)
  PROVE  LoadedUp(Loading(m, data), m, data)
<1> DEFINE f == Loading(m, data)
<1>1. f = CHOOSE h : Loads(h, m, data)
  BY DEF Loading, Loads
<1> HIDE DEF f
<1>2. Loads(f, m, data)
  BY <1>1, LoadingExists
<1> QED
  BY <1>2 DEF f, LoadedUp, Loads

Reads(f, m, count) == f = [i \in 0..count |-> IF i = 0 THEN m ELSE DoRead(f[i - 1])]

LEMMA ReadingExists ==
  ASSUME NEW m, NEW count \in Nat
  PROVE  \E f : Reads(f, m, count)
<1> DEFINE Good(n, f) == f = [i \in 0..n |-> IF i = 0 THEN m ELSE DoRead(f[i - 1])]
           T == {n \in 0..count : ~\E f : Good(n, f)}
<1> SUFFICES ASSUME T # {} PROVE FALSE
  <2>1. count \in 0..count
    OBVIOUS
  <2>2. count \notin T => \E f : Good(count, f)
    BY <2>1
  <2> QED
    BY <2>2 DEF Reads
<1>1. PICK n \in T : \A y \in T : n <= y
  <2>1. T \subseteq Nat
    OBVIOUS
  <2> HIDE DEF T
  <2> QED
    BY <2>1, Least
<1>2. n \in 0..count /\ n \in Nat /\ ~\E f : Good(n, f)
  OBVIOUS
<1>3. CASE n = 0
  <2> DEFINE f == [i \in 0..0 |-> m]
  <2>1. Good(0, f)
    OBVIOUS
  <2> HIDE DEF Good
  <2> QED
    BY <1>2, <1>3, <2>1
<1>4. CASE n # 0
  <2>1. n - 1 \in 0..count /\ n - 1 \notin T
    <3>1. n - 1 \in 0..count /\ ~(n <= n - 1)
      BY <1>2, <1>4
    <3> HIDE DEF T
    <3> QED
      BY <1>1, <3>1
  <2>2. \E f : Good(n - 1, f)
    <3> HIDE DEF Good
    <3> QED
      BY <2>1
  <2> PICK f : Good(n - 1, f)
    BY <2>2
  <2>3. f = [i \in 0..(n - 1) |-> IF i = 0 THEN m ELSE DoRead(f[i - 1])]
    BY <1>2
  <2> DEFINE g == [i \in 0..n |-> IF i < n THEN f[i] ELSE DoRead(f[n - 1])]
  <2>4. ASSUME NEW i \in 0..n
        PROVE  g[i] = IF i = 0 THEN m ELSE DoRead(g[i - 1])
    BY <1>2, <1>4, <2>3
  <2>5. g = [i \in 0..n |-> IF i = 0 THEN m ELSE DoRead(g[i - 1])]
    <3>1. g = [i \in 0..n |-> g[i]]
      OBVIOUS
    <3> HIDE DEF g
    <3> QED
      BY <2>4, <3>1
  <2>6. Good(n, g)
    BY <2>5
  <2> HIDE DEF Good
  <2> QED
    BY <1>2, <2>6
<1> QED
  BY <1>3, <1>4

ReadOn(f, m, count) == f[0] = m /\ \A i \in 1..count : f[i] = DoRead(f[i - 1])

LEMMA ReadingIs ==
  ASSUME NEW m, NEW count \in Nat
  PROVE  ReadOn(Reading(m, count), m, count)
<1> DEFINE f == Reading(m, count)
<1>1. f = CHOOSE h : Reads(h, m, count)
  BY DEF Reading, Reads
<1> HIDE DEF f
<1>2. Reads(f, m, count)
  BY <1>1, ReadingExists
<1>3. \A i \in 0..count : f[i] = IF i = 0 THEN m ELSE DoRead(f[i - 1])
  BY <1>2, Zenon DEF Reads
<1> QED
  BY <1>3 DEF f, ReadOn

-----------------------------------------------------------------------------
(* What each operation makes of the chip's registers.                       *)

Cmds == {"READ0", "SEQIN", "RANDIN", "PAGEPROG", "ERASE1", "STATUS", "READID", "none"}
NfType ==
  [cmd : Cmds, cmdstatus : Cycles, iostatus : Modes, pagenum : Nat, pageoffset : Nat,
   writebuffer : [Offsets -> Byte]]
Chip(cmd, cycle, mode, page, offset, buf) ==
  [cmd |-> cmd, cmdstatus |-> cycle, iostatus |-> mode, pagenum |-> page, pageoffset |-> offset,
   writebuffer |-> buf]

LEMMA ChipIs ==
  ASSUME NEW n \in NfType
  PROVE  n = Chip(n.cmd, n.cmdstatus, n.iostatus, n.pagenum, n.pageoffset, n.writebuffer)
BY DEF NfType, Chip

LEMMA Reads0 ==
  ASSUME NEW n \in NfType
  PROVE  /\ DoCmd(n, "READ0") = Chip("READ0", "1st", "ADDR", 0, 0, n.writebuffer)
         /\ DoCmd(n, "READ0b") = Chip(n.cmd, n.cmdstatus, "DATAREAD", n.pagenum, n.pageoffset, n.writebuffer)
BY DEF DoCmd, Start, NfType, Chip

LEMMA Others ==
  ASSUME NEW n \in NfType
  PROVE  /\ DoCmd(n, "RESET") = Chip("READ0", "none", "NONE", n.pagenum, 0, Blank)
         /\ DoCmd(n, "STATUS") = Chip("STATUS", "status", "STATUSREAD", n.pagenum, n.pageoffset, n.writebuffer)
         /\ DoCmd(n, "READID") = Chip("READID", "5th", "ADDR", 0, 0, n.writebuffer)
BY DEF DoCmd, Restart, Status, Start, NfType, Chip

LEMMA Loaders ==
  ASSUME NEW n \in NfType
  PROVE  /\ DoCmd(n, "SEQIN") = Chip("SEQIN", "1st", "ADDR", 0, 0, Blank)
         /\ DoCmd(n, "RANDIN") = Chip("RANDIN", "1st", "ADDR", n.pagenum, n.pageoffset, n.writebuffer)
         /\ DoCmd(n, "ERASE1") = Chip("ERASE1", "3rd", "ADDR", 0, 0, n.writebuffer)
BY DEF DoCmd, SeqIn, RandIn, Start, NfType, Chip

LEMMA Confirmations ==
  ASSUME NEW n \in NfType
  PROVE  /\ DoCmd(n, "ERASE2") = Chip("none", n.cmdstatus, "CMD", n.pagenum, n.pageoffset, n.writebuffer)
         /\ Programs(n) => DoCmd(n, "PAGEPROG") =
                             Chip("PAGEPROG", n.cmdstatus, "CMD", n.pagenum, n.pageoffset, n.writebuffer)
         /\ ~Programs(n) => DoCmd(n, "PAGEPROG") =
                             Chip(n.cmd, n.cmdstatus, "CMD", n.pagenum, n.pageoffset, n.writebuffer)
BY DEF DoCmd, Programs, NfType, Chip

LEMMA Columns ==
  ASSUME NEW cmd, NEW mode, NEW page, NEW offset, NEW buf, NEW b
  PROVE  /\ DoAddr(Chip(cmd, "1st", mode, page, offset, buf), b) = Chip(cmd, "2nd", "ADDR", page, b, buf)
         /\ cmd = "RANDIN" => DoAddr(Chip(cmd, "2nd", mode, page, offset, buf), b) =
                                Chip(cmd, "finish", "DATAWRITE", page, offset + Radix * b, buf)
         /\ cmd # "RANDIN" => DoAddr(Chip(cmd, "2nd", mode, page, offset, buf), b) =
                                Chip(cmd, "3rd", "ADDR", page, offset + Radix * b, buf)
BY DEF DoAddr, Chip

LEMMA Rows ==
  ASSUME NEW cmd, NEW mode, NEW page, NEW offset, NEW buf, NEW b
  PROVE  /\ DoAddr(Chip(cmd, "3rd", mode, page, offset, buf), b) = Chip(cmd, "4th", "ADDR", b, offset, buf)
         /\ DoAddr(Chip(cmd, "4th", mode, page, offset, buf), b) =
              Chip(cmd, "5th", "ADDR", page + Radix * b, offset, buf)
BY DEF DoAddr, Chip

LEMMA LastRow ==
  ASSUME NEW mode, NEW page, NEW offset, NEW buf, NEW b
  PROVE  /\ DoAddr(Chip("SEQIN", "5th", mode, page, offset, buf), b) =
              Chip("SEQIN", "finish", "DATAWRITE", page + Radix * Radix * b, offset, buf)
         /\ DoAddr(Chip("READID", "5th", mode, page, offset, buf), b) =
              Chip("READID", "id1", "IDREAD", page + Radix * Radix * b, offset, buf)
         /\ DoAddr(Chip("ERASE1", "5th", mode, page, offset, buf), b) =
              Chip("ERASE1", "finish", "CMD", page + Radix * Radix * b, offset, buf)
         /\ DoAddr(Chip("READ0", "5th", mode, page, offset, buf), b) =
              Chip("READ0", "5th", "ADDR", page + Radix * Radix * b, offset, buf)
BY DEF DoAddr, Chip

LEMMA WritesByte ==
  ASSUME NEW cmd, NEW cycle, NEW page, NEW offset, NEW buf, NEW b
  PROVE  DoDataWrite(Chip(cmd, cycle, "DATAWRITE", page, offset, buf), b) =
           Chip(cmd, cycle, "DATAWRITE", page, offset + 1, [buf EXCEPT ![offset] = b])
BY DEF DoDataWrite, Chip

\* The place in the chip.
At(page, offset) == page * PageBytes + offset

ToOffset(n, o) == [n EXCEPT !.pageoffset = o]
ToPage(n, p) == [n EXCEPT !.pagenum = p]

LEMMA Moves ==
  ASSUME NEW cmd, NEW cycle, NEW mode, NEW page, NEW offset, NEW buf, NEW p, NEW o
  PROVE  /\ ToOffset(Chip(cmd, cycle, mode, page, offset, buf), o) = Chip(cmd, cycle, mode, page, o, buf)
         /\ ToPage(Chip(cmd, cycle, mode, page, offset, buf), p) = Chip(cmd, cycle, mode, p, offset, buf)
<1>1. ToOffset(Chip(cmd, cycle, mode, page, offset, buf), o) = Chip(cmd, cycle, mode, page, o, buf)
  BY DEF Chip, ToOffset
<1>2. ToPage(Chip(cmd, cycle, mode, page, offset, buf), p) = Chip(cmd, cycle, mode, p, offset, buf)
  BY DEF Chip, ToPage
<1> QED
  BY <1>1, <1>2

LEMMA ReadsByte ==
  ASSUME NEW cmd, NEW cycle, NEW page \in Nat, NEW offset \in Nat, NEW buf, At(page, offset) < ChipBytes
  PROVE  DoRead(Chip(cmd, cycle, "DATAREAD", page, offset, buf)) =
           IF offset + 1 = PageBytes
           THEN Chip(cmd, cycle, "DATAREAD", page + 1, 0, buf)
           ELSE Chip(cmd, cycle, "DATAREAD", page, offset + 1, buf)
<1> DEFINE n == Chip(cmd, cycle, "DATAREAD", page, offset, buf)
<1>1. n.iostatus = "DATAREAD" /\ n.pagenum = page /\ n.pageoffset = offset
  BY DEF Chip
<1>2. n.pagenum * PageBytes + n.pageoffset < ChipBytes
  BY <1>1 DEF At
<1>3. ToOffset(ToPage(n, page + 1), 0) = Chip(cmd, cycle, "DATAREAD", page + 1, 0, buf)
  BY Moves
<1>4. ToOffset(n, offset + 1) = Chip(cmd, cycle, "DATAREAD", page, offset + 1, buf)
  BY Moves
<1> HIDE DEF n
<1>5. CASE offset + 1 = PageBytes
  <2>1. DoRead(n) = ToOffset(ToPage(n, page + 1), 0)
    BY <1>1, <1>2, <1>5 DEF DoRead, ToOffset, ToPage
  <2> QED
    BY <1>3, <1>5, <2>1 DEF n
<1>6. CASE offset + 1 # PageBytes
  <2>1. DoRead(n) = ToOffset(n, offset + 1)
    BY <1>1, <1>2, <1>6 DEF DoRead, ToOffset
  <2> QED
    BY <1>4, <1>6, <2>1 DEF n
<1> QED
  BY <1>5, <1>6

\* Reading an identification, a status or nothing.
LEMMA ReadsOther ==
  ASSUME NEW n \in NfType, n.iostatus # "DATAREAD", NEW d, d = DoRead(n)
  PROVE  /\ d \in NfType /\ d.iostatus # "DATAREAD"
         /\ d.cmd = n.cmd /\ d.pagenum = n.pagenum /\ d.pageoffset = n.pageoffset /\ d.writebuffer = n.writebuffer
<1>1. CASE n.iostatus = "IDREAD" /\ n.cmdstatus = "id1"
  BY <1>1 DEF DoRead, NfType, Cycles, Modes
<1>2. CASE n.iostatus = "IDREAD" /\ n.cmdstatus = "id2"
  BY <1>2 DEF DoRead, NfType, Cycles, Modes
<1>3. CASE n.iostatus = "IDREAD" /\ n.cmdstatus = "id3"
  BY <1>3 DEF DoRead, NfType, Cycles, Modes
<1>4. CASE n.iostatus = "IDREAD" /\ n.cmdstatus = "id4"
  BY <1>4 DEF DoRead, NfType, Cycles, Modes
<1>5. CASE n.iostatus # "IDREAD" \/ n.cmdstatus \notin {"id1", "id2", "id3", "id4"}
  BY <1>5 DEF DoRead
<1> QED
  BY <1>1, <1>2, <1>3, <1>4, <1>5

-----------------------------------------------------------------------------
(* What a command with its address, its data and its reads makes of them.   *)

IsPart(t, s, k, n) == t \in Seq(Nat) /\ Len(t) = n /\ \A i \in 1..n : t[i] = s[k + i]

LEMMA Part ==
  ASSUME NEW s \in Seq(Nat), NEW k \in Nat, NEW n \in Nat, k + n <= Len(s),
         NEW first, first = k + 1, NEW last, last = k + n
  PROVE  IsPart(SubSeq(s, first, last), s, k, n)
<1>1. first \in Nat /\ last \in Nat /\ first >= 1 /\ last <= Len(s) /\ last - first + 1 = n
  OBVIOUS
<1>2. ASSUME NEW i \in first..last PROVE s[i] \in Nat
  <2>1. i \in 1..Len(s)
    BY <1>1
  <2> QED
    BY <2>1
<1>3. SubSeq(s, first, last) \in Seq(Nat)
  BY <1>1, <1>2
<1>4. Len(SubSeq(s, first, last)) = n
  BY <1>1
<1>5. ASSUME NEW i \in 1..n PROVE SubSeq(s, first, last)[i] = s[k + i]
  <2>1. i \in Nat /\ 1 <= i /\ i <= (last - first) + 1 /\ first + i - 1 = k + i
    BY <1>1
  <2>2. first \in Int /\ last \in Int /\ i \in 1..((last - first) + 1)
    BY <1>1, <2>1
  <2>3. SubSeq(s, first, last)[i] = s[first + i - 1]
    BY <2>2
  <2> QED
    BY <2>1, <2>3
<1> QED
  BY <1>3, <1>4, <1>5 DEF IsPart

LEMMA ChipFields ==
  ASSUME NEW cmd, NEW cycle, NEW mode, NEW page, NEW offset, NEW buf,
         NEW n, n = Chip(cmd, cycle, mode, page, offset, buf)
  PROVE  /\ n.cmd = cmd /\ n.cmdstatus = cycle /\ n.iostatus = mode
         /\ n.pagenum = page /\ n.pageoffset = offset /\ n.writebuffer = buf
         /\ (cmd \in Cmds /\ cycle \in Cycles /\ mode \in Modes /\ page \in Nat /\ offset \in Nat
               /\ buf \in [Offsets -> Byte]) => n \in NfType
BY DEF Chip, NfType

\* The first n bytes of an address, for READ0 and SEQIN.
FiveSent(f, cmd, page, offset, buf, n, addr) ==
  /\ Len(addr) = n
  /\ n < 5 => \E p \in 0..page, o \in 0..offset, cycle \in {"1st", "2nd", "3rd", "4th", "5th"} :
                f[n] = Chip(cmd, cycle, "ADDR", p, o, buf)
  /\ n = 5 => f[n] = IF cmd = "SEQIN" THEN Chip(cmd, "finish", "DATAWRITE", page, offset, buf)
                                     ELSE Chip(cmd, "5th", "ADDR", page, offset, buf)

LEMMA FiveCycles ==
  ASSUME NEW cmd \in {"READ0", "SEQIN"}, NEW page \in Nat, NEW offset \in Nat, NEW buf, NEW n \in 0..5,
         NEW addr, addr = SubSeq(AddressBytes(page, offset), 1, n),
         NEW f, f = Addressing(Chip(cmd, "1st", "ADDR", 0, 0, buf), addr)
  PROVE  FiveSent(f, cmd, page, offset, buf, n, addr)
<1> DEFINE a == offset % Radix
           b == offset \div Radix
           c == page % Radix
           d == (page \div Radix) % Radix
           e == (page \div Radix) \div Radix
<1>1. a \in Nat /\ b \in Nat /\ a <= offset /\ a + Radix * b = offset
  BY OffsetBytes
<1>2. /\ c \in Nat /\ d \in Nat /\ e \in Nat /\ c <= page /\ c + Radix * d <= page
      /\ c + Radix * d \in Nat /\ (c + Radix * d) + Radix * Radix * e = page
  BY PageNumberBytes
<1>3. AddressBytes(page, offset) = <<a, b, c, d, e>>
  BY DEF AddressBytes
<1> HIDE DEF a, b, c, d, e
<1> DEFINE s == <<a, b, c, d, e>>
<1>4. /\ s \in Seq(Nat) /\ Len(s) = 5
      /\ s[1] = a /\ s[2] = b /\ s[3] = c /\ s[4] = d /\ s[5] = e
  BY <1>1, <1>2
<1> HIDE DEF s
<1>5. addr \in Seq(Nat) /\ Len(addr) = n /\ \A i \in 1..n : addr[i] = s[i]
  <2>1. addr = SubSeq(s, 1, n) /\ 0 + n <= Len(s) /\ n \in Nat /\ 0 \in Nat /\ 1 = 0 + 1 /\ n = 0 + n
    BY <1>3, <1>4 DEF s
  <2>2. IsPart(SubSeq(s, 1, n), s, 0, n)
    BY <1>4, <2>1, Part
  <2> QED
    BY <2>1, <2>2 DEF IsPart
<1>6. f[0] = Chip(cmd, "1st", "ADDR", 0, 0, buf) /\ \A i \in 1..n : f[i] = DoAddr(f[i - 1], s[i])
  <2>1. f[0] = Chip(cmd, "1st", "ADDR", 0, 0, buf) /\ \A i \in 1..Len(addr) : f[i] = DoAddr(f[i - 1], addr[i])
    <3>1. Addressed(f, Chip(cmd, "1st", "ADDR", 0, 0, buf), addr)
      BY <1>5, AddressingIs
    <3> QED
      BY <3>1 DEF Addressed
  <2> QED
    BY <1>5, <2>1
<1>7. n >= 1 => f[1] = Chip(cmd, "2nd", "ADDR", 0, a, buf)
  BY <1>4, <1>6, Columns
<1>8. n >= 2 => f[2] = Chip(cmd, "3rd", "ADDR", 0, offset, buf)
  <2>1. cmd # "RANDIN"
    OBVIOUS
  <2> QED
    BY <1>1, <1>4, <1>6, <1>7, <2>1, Columns
<1>9. n >= 3 => f[3] = Chip(cmd, "4th", "ADDR", c, offset, buf)
  BY <1>4, <1>6, <1>8, Rows
<1>10. n >= 4 => f[4] = Chip(cmd, "5th", "ADDR", c + Radix * d, offset, buf)
  BY <1>4, <1>6, <1>9, Rows
<1>11. n = 5 => f[5] = IF cmd = "SEQIN" THEN Chip(cmd, "finish", "DATAWRITE", page, offset, buf)
                                        ELSE Chip(cmd, "5th", "ADDR", page, offset, buf)
  BY <1>2, <1>4, <1>6, <1>10, LastRow
<1>12. 0 \in 0..page /\ c \in 0..page /\ c + Radix * d \in 0..page /\ 0 \in 0..offset /\ a \in 0..offset /\ offset \in 0..offset
  BY <1>1, <1>2
<1>13. n < 5 => n = 0 \/ n = 1 \/ n = 2 \/ n = 3 \/ n = 4
  OBVIOUS
<1> QED
  BY <1>5, <1>6, <1>7, <1>8, <1>9, <1>10, <1>11, <1>12, <1>13 DEF FiveSent

\* The bytes of an address, and what sending a part of them does.
LEMMA Bytes ==
  ASSUME NEW page \in Nat, NEW offset \in Nat, NEW s, s = AddressBytes(page, offset)
  PROVE  s \in Seq(Nat) /\ Len(s) = 5
<1>1. offset % Radix \in Nat /\ offset \div Radix \in Nat
  BY OffsetBytes
<1>2. page % Radix \in Nat /\ (page \div Radix) % Radix \in Nat /\ (page \div Radix) \div Radix \in Nat
  BY PageNumberBytes
<1> QED
  BY <1>1, <1>2 DEF AddressBytes

Sent(f, m, addr, s, k, n) ==
  Len(addr) = n /\ f[0] = m /\ \A i \in 1..n : f[i] = DoAddr(f[i - 1], s[k + i])

LEMMA Sends ==
  ASSUME NEW s \in Seq(Nat), NEW k \in Nat, NEW n \in Nat, k + n <= Len(s),
         NEW first, first = k + 1, NEW last, last = k + n, NEW m
  PROVE  Sent(Addressing(m, SubSeq(s, first, last)), m, SubSeq(s, first, last), s, k, n)
<1> DEFINE addr == SubSeq(s, first, last)
           f == Addressing(m, addr)
<1>1. IsPart(addr, s, k, n)
  BY Part
<1> HIDE DEF addr
<1>2. addr \in Seq(Nat) /\ Len(addr) = n /\ \A i \in 1..n : addr[i] = s[k + i]
  BY <1>1 DEF IsPart
<1>3. Addressed(f, m, addr)
  BY <1>2, AddressingIs
<1> HIDE DEF f
<1>4. Sent(f, m, addr, s, k, n)
  BY <1>2, <1>3 DEF Addressed, Sent
<1> QED
  BY <1>4 DEF addr, f

\* The last n bytes of an address, for ERASE1.
ThreeSent(f, page, buf, n, addr) ==
  /\ Len(addr) = n
  /\ n < 3 => \E p \in 0..page, cycle \in {"3rd", "4th", "5th"} :
                f[n] = Chip("ERASE1", cycle, "ADDR", p, 0, buf)
  /\ n = 3 => f[n] = Chip("ERASE1", "finish", "CMD", page, 0, buf)

LEMMA ThreeCycles ==
  ASSUME NEW page \in Nat, NEW buf, NEW n \in 0..3,
         NEW addr, addr = SubSeq(AddressBytes(page, 0), 3, 2 + n),
         NEW f, f = Addressing(Chip("ERASE1", "3rd", "ADDR", 0, 0, buf), addr)
  PROVE  ThreeSent(f, page, buf, n, addr)
<1> DEFINE s == AddressBytes(page, 0)
           c == page % Radix
           d == (page \div Radix) % Radix
           e == (page \div Radix) \div Radix
<1>1. /\ c \in Nat /\ d \in Nat /\ e \in Nat /\ c <= page /\ c + Radix * d <= page
      /\ c + Radix * d \in Nat /\ (c + Radix * d) + Radix * Radix * e = page
  BY PageNumberBytes
<1>2. s[3] = c /\ s[4] = d /\ s[5] = e
  BY DEF AddressBytes
<1>3. s \in Seq(Nat) /\ Len(s) = 5
  BY Bytes
<1> HIDE DEF c, d, e
<1>4. /\ Len(addr) = n /\ f[0] = Chip("ERASE1", "3rd", "ADDR", 0, 0, buf)
      /\ \A i \in 1..n : f[i] = DoAddr(f[i - 1], s[2 + i])
  <2>1. addr = SubSeq(s, 3, 2 + n)
    OBVIOUS
  <2> HIDE DEF s
  <2>2. 2 \in Nat /\ n \in Nat /\ 2 + n <= Len(s) /\ 3 = 2 + 1 /\ 2 + n = 2 + n
    BY <1>3
  <2>3. Sent(Addressing(Chip("ERASE1", "3rd", "ADDR", 0, 0, buf), SubSeq(s, 3, 2 + n)),
             Chip("ERASE1", "3rd", "ADDR", 0, 0, buf), SubSeq(s, 3, 2 + n), s, 2, n)
    BY <1>3, <2>2, Sends
  <2> QED
    BY <2>1, <2>3 DEF Sent
<1> HIDE DEF s
<1>5. n >= 1 => f[1] = Chip("ERASE1", "4th", "ADDR", c, 0, buf)
  BY <1>2, <1>4, Rows
<1>6. n >= 2 => f[2] = Chip("ERASE1", "5th", "ADDR", c + Radix * d, 0, buf)
  BY <1>2, <1>4, <1>5, Rows
<1>7. n = 3 => f[3] = Chip("ERASE1", "finish", "CMD", page, 0, buf)
  BY <1>1, <1>2, <1>4, <1>6, LastRow
<1>8. 0 \in 0..page /\ c \in 0..page /\ c + Radix * d \in 0..page
  BY <1>1
<1>9. n < 3 => n = 0 \/ n = 1 \/ n = 2
  OBVIOUS
<1> QED
  BY <1>4, <1>5, <1>6, <1>7, <1>8, <1>9 DEF ThreeSent

\* The first two bytes of an address, for RANDIN.
TwoSent(f, page, offset, buf, addr) ==
  Len(addr) = 2 /\ f[2] = Chip("RANDIN", "finish", "DATAWRITE", page, offset, buf)

LEMMA TwoCycles ==
  ASSUME NEW page, NEW from, NEW offset \in Nat, NEW buf,
         NEW addr, addr = SubSeq(AddressBytes(0, offset), 1, 2),
         NEW f, f = Addressing(Chip("RANDIN", "1st", "ADDR", page, from, buf), addr)
  PROVE  TwoSent(f, page, offset, buf, addr)
<1> DEFINE s == AddressBytes(0, offset)
           a == offset % Radix
           b == offset \div Radix
<1>1. a \in Nat /\ b \in Nat /\ a <= offset /\ a + Radix * b = offset
  BY OffsetBytes
<1>2. s[1] = a /\ s[2] = b
  BY DEF AddressBytes
<1>3. s \in Seq(Nat) /\ Len(s) = 5
  BY Bytes
<1> HIDE DEF a, b
<1>4. /\ Len(addr) = 2 /\ f[0] = Chip("RANDIN", "1st", "ADDR", page, from, buf)
      /\ \A i \in 1..2 : f[i] = DoAddr(f[i - 1], s[0 + i])
  <2>1. addr = SubSeq(s, 1, 2)
    OBVIOUS
  <2> HIDE DEF s
  <2>2. 0 \in Nat /\ 2 \in Nat /\ 0 + 2 <= Len(s) /\ 1 = 0 + 1 /\ 2 = 0 + 2
    BY <1>3
  <2>3. Sent(Addressing(Chip("RANDIN", "1st", "ADDR", page, from, buf), SubSeq(s, 1, 2)),
             Chip("RANDIN", "1st", "ADDR", page, from, buf), SubSeq(s, 1, 2), s, 0, 2)
    BY <1>3, <2>2, Sends
  <2> QED
    BY <2>1, <2>3 DEF Sent
<1> HIDE DEF s
<1>5. f[1] = Chip("RANDIN", "2nd", "ADDR", page, a, buf)
  BY <1>2, <1>4, Columns
<1>6. f[2] = Chip("RANDIN", "finish", "DATAWRITE", page, offset, buf)
  BY <1>1, <1>2, <1>4, <1>5, Columns
<1> QED
  BY <1>4, <1>6 DEF TwoSent

\* The byte after READID, or none.
OneSent(f, buf, n, addr) ==
  /\ Len(addr) = n
  /\ f[n] \in {Chip("READID", "5th", "ADDR", 0, 0, buf), Chip("READID", "id1", "IDREAD", 0, 0, buf)}

LEMMA OneCycle ==
  ASSUME NEW buf, NEW n \in 0..1, NEW addr, addr = SubSeq(<< 0 >>, 1, n),
         NEW f, f = Addressing(Chip("READID", "5th", "ADDR", 0, 0, buf), addr)
  PROVE  OneSent(f, buf, n, addr)
<1> DEFINE s == << 0 >>
<1>1. s \in Seq(Nat) /\ Len(s) = 1 /\ s[1] = 0
  OBVIOUS
<1>2. /\ Len(addr) = n /\ f[0] = Chip("READID", "5th", "ADDR", 0, 0, buf)
      /\ \A i \in 1..n : f[i] = DoAddr(f[i - 1], s[0 + i])
  <2>1. addr = SubSeq(s, 1, n)
    OBVIOUS
  <2> HIDE DEF s
  <2>2. 0 \in Nat /\ n \in Nat /\ 0 + n <= Len(s) /\ 1 = 0 + 1 /\ n = 0 + n
    BY <1>1
  <2>3. Sent(Addressing(Chip("READID", "5th", "ADDR", 0, 0, buf), SubSeq(s, 1, n)),
             Chip("READID", "5th", "ADDR", 0, 0, buf), SubSeq(s, 1, n), s, 0, n)
    BY <1>1, <2>2, Sends
  <2> QED
    BY <2>1, <2>3 DEF Sent
<1> HIDE DEF s
<1>3. n = 1 => f[1] = Chip("READID", "id1", "IDREAD", 0 + Radix * Radix * 0, 0, buf)
  BY <1>1, <1>2, LastRow
<1>4. Radix * Radix * 0 = 0
  <2>1. Radix * Radix \in Nat
    BY Constants, Scale
  <2> QED
    BY <2>1
<1>5. n = 0 \/ n = 1
  OBVIOUS
<1> QED
  BY <1>2, <1>3, <1>4, <1>5 DEF OneSent

LEMMA DataIs ==
  ASSUME NEW offset \in Offsets, NEW data \in Data(offset)
  PROVE  data \in Seq(Byte) /\ Len(data) \in Nat /\ offset + Len(data) <= PageBytes
<1>1. PageBytes \in Nat /\ offset \in Nat /\ offset <= PageBytes
  BY Constants DEF Offsets
<1>2. PICK n \in 0..(PageBytes - offset) : data \in [1..n -> Byte]
  BY DEF Data
<1>3. n \in Nat /\ n <= PageBytes - offset
  BY <1>1, <1>2
<1>4. data \in Seq(Byte) /\ Len(data) = n
  BY <1>2, <1>3
<1> QED
  BY <1>1, <1>3, <1>4

\* The buffer once i bytes have come.
Partly(buf, offset, data, i) ==
  [o \in Offsets |-> IF o \in offset..(offset + i - 1) THEN data[o - offset + 1] ELSE buf[o]]

LEMMA PartlyIs ==
  ASSUME NEW buf \in [Offsets -> Byte], NEW offset \in Offsets, NEW data \in Data(offset)
  PROVE  /\ Partly(buf, offset, data, 0) = buf
         /\ Partly(buf, offset, data, Len(data)) = Loaded(buf, offset, data)
         /\ Loaded(buf, offset, data) \in [Offsets -> Byte]
<1>1. data \in Seq(Byte) /\ Len(data) \in Nat /\ offset \in Nat
  BY Constants, DataIs DEF Offsets
<1>2. \A o \in Offsets : o \in Nat
  BY Constants DEF Offsets
<1>3. Partly(buf, offset, data, 0) = buf
  BY <1>1, <1>2 DEF Partly
<1>4. Partly(buf, offset, data, Len(data)) = Loaded(buf, offset, data)
  BY DEF Partly, Loaded
<1>5. ASSUME NEW o \in Offsets, o \in offset..(offset + Len(data) - 1) PROVE data[o - offset + 1] \in Byte
  <2>1. o - offset + 1 \in 1..Len(data)
    BY <1>1, <1>2, <1>5
  <2> QED
    BY <1>1, <2>1
<1>6. Loaded(buf, offset, data) \in [Offsets -> Byte]
  BY <1>5 DEF Loaded
<1> QED
  BY <1>3, <1>4, <1>6

LEMMA PartlyNext ==
  ASSUME NEW buf \in [Offsets -> Byte], NEW offset \in Offsets, NEW data \in Data(offset), NEW i \in 1..Len(data)
  PROVE  [Partly(buf, offset, data, i - 1) EXCEPT ![offset + (i - 1)] = data[i]] = Partly(buf, offset, data, i)
<1>1. offset \in Nat /\ i \in Nat /\ \A o \in Offsets : o \in Nat
  BY Constants, DataIs DEF Offsets
<1> DEFINE g == [Partly(buf, offset, data, i - 1) EXCEPT ![offset + (i - 1)] = data[i]]
           h == Partly(buf, offset, data, i)
<1>2. ASSUME NEW o \in Offsets PROVE g[o] = h[o]
  <2>1. CASE o = offset + (i - 1)
    <3>1. o - offset + 1 = i /\ o \in offset..(offset + i - 1)
      BY <1>1, <2>1, DataIs
    <3>2. g[o] = data[i]
      BY <2>1 DEF Partly
    <3>3. h[o] = data[i]
      BY <3>1 DEF Partly
    <3> QED
      BY <3>2, <3>3
  <2>2. CASE o # offset + (i - 1)
    <3>1. o \in offset..(offset + i - 1) <=> o \in offset..(offset + (i - 1) - 1)
      BY <1>1, <2>2, DataIs
    <3>2. g[o] = Partly(buf, offset, data, i - 1)[o]
      BY <2>2 DEF Partly
    <3> QED
      BY <3>1, <3>2 DEF Partly
  <2> QED
    BY <2>1, <2>2
<1>3. g = [o \in Offsets |-> g[o]] /\ h = [o \in Offsets |-> h[o]]
  BY DEF Partly
<1> HIDE DEF g, h
<1>4. g = h
  BY <1>2, <1>3
<1> QED
  BY <1>4 DEF g, h

\* Sending data fills the buffer from the position on.
LEMMA LoadsAll ==
  ASSUME NEW cmd, NEW cycle, NEW page, NEW offset \in Offsets, NEW data \in Data(offset),
         NEW buf \in [Offsets -> Byte],
         NEW f, f = Loading(Chip(cmd, cycle, "DATAWRITE", page, offset, buf), data)
  PROVE  f[Len(data)] = Chip(cmd, cycle, "DATAWRITE", page, offset + Len(data), Loaded(buf, offset, data))
<1> DEFINE P(i) == f[i] = Chip(cmd, cycle, "DATAWRITE", page, offset + i, Partly(buf, offset, data, i))
           T == {i \in 0..Len(data) : ~P(i)}
<1>1. data \in Seq(Byte) /\ Len(data) \in Nat /\ offset \in Nat
  BY Constants, DataIs DEF Offsets
<1>2. /\ f[0] = Chip(cmd, cycle, "DATAWRITE", page, offset, buf)
      /\ \A i \in 1..Len(data) : f[i] = DoDataWrite(f[i - 1], data[i])
  <2>1. LoadedUp(f, Chip(cmd, cycle, "DATAWRITE", page, offset, buf), data)
    BY <1>1, LoadingIs
  <2> QED
    BY <2>1 DEF LoadedUp
<1>3. P(0)
  BY <1>1, <1>2, PartlyIs
<1>4. ASSUME NEW i \in 1..Len(data), P(i - 1) PROVE P(i)
  <2>1. f[i] = DoDataWrite(Chip(cmd, cycle, "DATAWRITE", page, offset + (i - 1), Partly(buf, offset, data, i - 1)), data[i])
    BY <1>2, <1>4
  <2>2. f[i] = Chip(cmd, cycle, "DATAWRITE", page, (offset + (i - 1)) + 1,
                    [Partly(buf, offset, data, i - 1) EXCEPT ![offset + (i - 1)] = data[i]])
    BY <2>1, WritesByte
  <2>3. (offset + (i - 1)) + 1 = offset + i
    BY <1>1
  <2> QED
    BY <2>2, <2>3, PartlyNext
<1> HIDE DEF P
<1>5. T = {}
  <2> SUFFICES ASSUME T # {} PROVE FALSE
    OBVIOUS
  <2>1. T \subseteq Nat
    OBVIOUS
  <2>2. PICK i \in T : \A y \in T : i <= y
    <3> HIDE DEF T
    <3> QED
      BY <2>1, Least
  <2>3. i \in 0..Len(data) /\ ~P(i) /\ i # 0
    BY <1>3
  <2>4. i \in 1..Len(data) /\ i - 1 \in 0..Len(data) /\ ~(i <= i - 1)
    BY <1>1, <2>3
  <2>5. i - 1 \notin T
    <3> HIDE DEF T
    <3> QED
      BY <2>2, <2>4
  <2> QED
    BY <1>4, <2>3, <2>4, <2>5
<1>6. P(Len(data))
  BY <1>1, <1>5
<1> QED
  BY <1>6, PartlyIs DEF P

LEMMA NoBytes ==
  ASSUME NEW m
  PROVE  Addressing(m, <<>>)[0] = m /\ Loading(m, <<>>)[0] = m /\ Reading(m, 0)[0] = m
<1>1. <<>> \in Seq(Nat) /\ <<>> \in Seq(Byte) /\ 0 \in Nat
  OBVIOUS
<1>2. Addressed(Addressing(m, <<>>), m, <<>>)
  BY <1>1, AddressingIs
<1>3. LoadedUp(Loading(m, <<>>), m, <<>>)
  BY <1>1, LoadingIs
<1>4. ReadOn(Reading(m, 0), m, 0)
  BY <1>1, ReadingIs
<1>5. Addressing(m, <<>>)[0] = m
  BY <1>2 DEF Addressed
<1>6. Loading(m, <<>>)[0] = m
  BY <1>3 DEF LoadedUp
<1>7. Reading(m, 0)[0] = m
  BY <1>4 DEF ReadOn
<1> QED
  BY <1>5, <1>6, <1>7

\* The place in the chip grows by one with every byte, over the end of a page.
LEMMA NextPlace ==
  ASSUME NEW p \in Nat, NEW o \in Offsets
  PROVE  /\ At(p, o) \in Nat
         /\ o + 1 = PageBytes => At(p + 1, 0) = At(p, o) + 1 /\ 0 \in Offsets
         /\ o + 1 # PageBytes => At(p, o + 1) = At(p, o) + 1 /\ o + 1 \in Offsets
<1>1. PageBytes \in Nat /\ PageBytes >= 1 /\ o \in Nat /\ o <= PageBytes - 1
  BY Constants DEF Offsets
<1>2. PageBytes * p \in Nat /\ PageBytes * (p + 1) = PageBytes * p + PageBytes * 1
  BY <1>1, Scale
<1>3. p * PageBytes = PageBytes * p /\ (p + 1) * PageBytes = PageBytes * (p + 1) /\ PageBytes * 1 = PageBytes
  BY <1>1
<1> DEFINE x == PageBytes * p
           y == PageBytes * (p + 1)
<1>4. x \in Nat /\ y = x + PageBytes /\ At(p, o) = x + o /\ At(p + 1, 0) = y + 0 /\ At(p, o + 1) = x + (o + 1)
  BY <1>2, <1>3 DEF At
<1> HIDE DEF x, y
<1>5. 0 \in Offsets /\ (o + 1 # PageBytes => o + 1 \in Offsets)
  BY <1>1 DEF Offsets
<1> QED
  BY <1>1, <1>4, <1>5

LEMMA WithinChip ==
  ASSUME NEW p \in Nat, NEW o \in Offsets, At(p, o) <= ChipBytes
  PROVE  p <= PageCount
<1>1. PageBytes \in Nat /\ PageBytes >= 1 /\ o \in Nat /\ PageCount \in Nat
  BY Constants DEF Offsets
<1> DEFINE x == PageBytes * p
           y == PageBytes * PageCount
           z == PageBytes * (PageCount + 1)
<1>2. PageCount + 1 <= p => z <= x
  BY <1>1, Scale
<1>3. x \in Nat /\ y \in Nat /\ z = y + PageBytes * 1
  BY <1>1, Scale
<1>4. x + o <= y
  <2>1. p * PageBytes = PageBytes * p /\ PageCount * PageBytes = PageBytes * PageCount
    BY <1>1
  <2> QED
    BY <2>1 DEF At, ChipBytes
<1>5. PageBytes * 1 = PageBytes
  BY <1>1
<1> HIDE DEF x, y, z
<1> QED
  BY <1>1, <1>2, <1>3, <1>4, <1>5

LEMMA PlaceOf ==
  ASSUME NEW p \in AllPages, NEW o \in Offsets
  PROVE  p \in Nat /\ o \in Nat /\ p <= PageCount /\ At(p, o) \in Nat /\ At(p, o) <= ChipBytes
<1>1. PageBytes \in Nat /\ o \in Nat /\ o <= PageBytes - 1 /\ PageCount \in Nat /\ p \in Nat /\ p + 1 <= PageCount
  BY Constants DEF Offsets, AllPages
<1> DEFINE x == PageBytes * p
           y == PageBytes * PageCount
           z == PageBytes * (p + 1)
<1>2. x \in Nat /\ z = x + PageBytes * 1 /\ z <= y
  BY <1>1, Scale
<1>3. At(p, o) = x + o /\ ChipBytes = y /\ PageBytes * 1 = PageBytes
  <2>1. p * PageBytes = PageBytes * p /\ PageCount * PageBytes = PageBytes * PageCount
    BY <1>1
  <2> QED
    BY <1>1, <2>1 DEF At, ChipBytes
<1>4. y \in Nat
  BY <1>1, Scale
<1> HIDE DEF x, y, z
<1> QED
  BY <1>1, <1>2, <1>3, <1>4

Place(n, cmd, cycle, buf, at) ==
  \E p \in 0..PageCount, o \in Offsets : n = Chip(cmd, cycle, "DATAREAD", p, o, buf) /\ At(p, o) = at

\* Reading goes on from the position to the end of the chip.
LEMMA ReadsAll ==
  ASSUME NEW cmd, NEW cycle, NEW page \in Nat, NEW offset \in Offsets, NEW buf, NEW count \in Nat,
         NEW f, f = Reading(Chip(cmd, cycle, "DATAREAD", page, offset, buf), count)
  PROVE  \A i \in 0..count : At(page, offset) + i <= ChipBytes => Place(f[i], cmd, cycle, buf, At(page, offset) + i)
<1> DEFINE at == At(page, offset)
           P(i) == at + i <= ChipBytes => Place(f[i], cmd, cycle, buf, at + i)
           T == {i \in 0..count : ~P(i)}
<1>1. at \in Nat /\ ChipBytes \in Nat /\ PageCount \in Nat
  <2>1. ChipBytes \in Nat
    BY Constants, Scale DEF ChipBytes
  <2> QED
    BY <2>1, NextPlace, Constants
<1>2. f[0] = Chip(cmd, cycle, "DATAREAD", page, offset, buf) /\ \A i \in 1..count : f[i] = DoRead(f[i - 1])
  <2>1. ReadOn(f, Chip(cmd, cycle, "DATAREAD", page, offset, buf), count)
    BY ReadingIs
  <2> QED
    BY <2>1 DEF ReadOn
<1>3. P(0)
  <2> SUFFICES ASSUME at <= ChipBytes PROVE Place(f[0], cmd, cycle, buf, at)
    BY <1>1
  <2>1. page \in 0..PageCount
    BY <1>1, WithinChip
  <2> QED
    BY <1>2, <2>1 DEF Place
<1>4. ASSUME NEW i \in 1..count, P(i - 1) PROVE P(i)
  <2> SUFFICES ASSUME at + i <= ChipBytes PROVE Place(f[i], cmd, cycle, buf, at + i)
    OBVIOUS
  <2> HIDE DEF at
  <2>1. i \in Nat /\ at + (i - 1) <= ChipBytes /\ (at + (i - 1)) + 1 = at + i
    BY <1>1
  <2>2. PICK p \in 0..PageCount, o \in Offsets :
          f[i - 1] = Chip(cmd, cycle, "DATAREAD", p, o, buf) /\ At(p, o) = at + (i - 1)
    BY <1>4, <2>1 DEF Place
  <2>3. p \in Nat /\ o \in Nat /\ At(p, o) < ChipBytes /\ At(p, o) + 1 = at + i
    BY <1>1, <2>1, <2>2, Constants DEF Offsets
  <2>4. f[i] = DoRead(Chip(cmd, cycle, "DATAREAD", p, o, buf))
    BY <1>2, <2>2
  <2>5. CASE o + 1 = PageBytes
    <3>1. f[i] = Chip(cmd, cycle, "DATAREAD", p + 1, 0, buf)
      BY <2>3, <2>4, <2>5, ReadsByte
    <3>2. At(p + 1, 0) = at + i /\ 0 \in Offsets
      BY <2>3, <2>5, NextPlace
    <3>3. p + 1 \in 0..PageCount
      <4>1. p + 1 \in Nat
        BY <2>3
      <4>2. p + 1 <= PageCount
        BY <3>2, <4>1, WithinChip
      <4> QED
        BY <1>1, <4>1, <4>2
    <3> QED
      BY <3>1, <3>2, <3>3 DEF Place
  <2>6. CASE o + 1 # PageBytes
    <3>1. f[i] = Chip(cmd, cycle, "DATAREAD", p, o + 1, buf)
      BY <2>3, <2>4, <2>6, ReadsByte
    <3>2. At(p, o + 1) = at + i /\ o + 1 \in Offsets
      BY <2>3, <2>6, NextPlace
    <3> QED
      BY <2>2, <3>1, <3>2 DEF Place
  <2> QED
    BY <2>5, <2>6
<1> HIDE DEF P
<1>5. T = {}
  <2> SUFFICES ASSUME T # {} PROVE FALSE
    OBVIOUS
  <2>1. T \subseteq Nat
    OBVIOUS
  <2>2. PICK i \in T : \A y \in T : i <= y
    <3> HIDE DEF T
    <3> QED
      BY <2>1, Least
  <2>3. i \in 0..count /\ ~P(i) /\ i # 0
    BY <1>3
  <2>4. i \in 1..count /\ i - 1 \in 0..count /\ ~(i <= i - 1)
    BY <2>3
  <2>5. i - 1 \notin T
    <3> HIDE DEF T
    <3> QED
      BY <2>2, <2>4
  <2> QED
    BY <1>4, <2>3, <2>4, <2>5
<1> QED
  BY <1>5 DEF P

Like(d, n) ==
  /\ d \in NfType /\ d.iostatus # "DATAREAD"
  /\ d.cmd = n.cmd /\ d.pagenum = n.pagenum /\ d.pageoffset = n.pageoffset /\ d.writebuffer = n.writebuffer

\* Reading an identification or a status moves nothing.
LEMMA ReadsAnyOther ==
  ASSUME NEW n \in NfType, n.iostatus # "DATAREAD", NEW count \in Nat, NEW f, f = Reading(n, count)
  PROVE  Like(f[count], n)
<1> DEFINE P(i) == Like(f[i], n)
           T == {i \in 0..count : ~P(i)}
<1>1. f[0] = n /\ \A i \in 1..count : f[i] = DoRead(f[i - 1])
  <2>1. ReadOn(f, n, count)
    BY ReadingIs
  <2> QED
    BY <2>1 DEF ReadOn
<1>2. P(0)
  BY <1>1 DEF Like
<1>3. ASSUME NEW i \in 1..count, P(i - 1) PROVE P(i)
  <2> DEFINE m == f[i - 1]
  <2>1. f[i] = DoRead(m)
    BY <1>1
  <2>2. Like(m, n)
    BY <1>3
  <2> HIDE DEF m
  <2>3. m \in NfType /\ m.iostatus # "DATAREAD"
    BY <2>2 DEF Like
  <2>4. /\ f[i] \in NfType /\ f[i].iostatus # "DATAREAD"
        /\ f[i].cmd = m.cmd /\ f[i].pagenum = m.pagenum /\ f[i].pageoffset = m.pageoffset
        /\ f[i].writebuffer = m.writebuffer
    BY <2>1, <2>3, ReadsOther
  <2> QED
    BY <2>2, <2>4 DEF Like
<1> HIDE DEF P
<1>4. T = {}
  <2> SUFFICES ASSUME T # {} PROVE FALSE
    OBVIOUS
  <2>1. T \subseteq Nat
    OBVIOUS
  <2>2. PICK i \in T : \A y \in T : i <= y
    <3> HIDE DEF T
    <3> QED
      BY <2>1, Least
  <2>3. i \in 0..count /\ ~P(i) /\ i # 0
    BY <1>2
  <2>4. i \in 1..count /\ i - 1 \in 0..count /\ ~(i <= i - 1)
    BY <2>3
  <2>5. i - 1 \notin T
    <3> HIDE DEF T
    <3> QED
      BY <2>2, <2>4
  <2> QED
    BY <1>3, <2>3, <2>4, <2>5
<1>5. count \in 0..count
  OBVIOUS
<1> QED
  BY <1>4, <1>5 DEF P

-----------------------------------------------------------------------------
(* The invariant: the chip is ready to program or to erase exactly when the *)
(* commands so far ask for it, with the page, the bytes and the block they  *)
(* name, and while they ask for a read its position is the place to read.   *)

AskedInChip ==
  /\ asked.kind \in {"none", "read", "program", "erase"}
  /\ asked.kind = "program" <=> Programs(nf)
  /\ asked.kind = "erase" <=> Erases(nf)
  /\ asked.kind = "program" =>
       asked = [kind |-> "program", page |-> nf.pagenum, buf |-> nf.writebuffer] /\ nf.pagenum \in AllPages
  /\ asked.kind = "erase" => asked = [kind |-> "erase", block |-> Block(nf.pagenum)]
  /\ asked.kind = "read" =>
       /\ asked = [kind |-> "read", at |-> At(nf.pagenum, nf.pageoffset)]
       /\ nf.pageoffset \in Offsets /\ asked.at <= ChipBytes

Registers ==
  nf \in NfType /\ nf.pagenum <= PageCount /\ nf.pageoffset <= PageBytes

Stored ==
  flash \in [AllPages -> [Offsets -> Byte]] /\ addrspace = flash

NandInv == Registers /\ Stored /\ AskedInChip

\* Only a confirmation in its place changes the contents.
LEMMA Kept ==
  ASSUME Stored, NEW cmd, addrspace' = Contents(nf, cmd), flash' = flash,
         ~(cmd = "PAGEPROG" /\ Programs(nf)), ~(cmd = "ERASE2" /\ Erases(nf))
  PROVE  Stored'
<1>1. Contents(nf, cmd) = [p \in AllPages |-> addrspace[p]]
  BY DEF Contents
<1>2. addrspace = [p \in AllPages |-> addrspace[p]]
  BY DEF Stored
<1> QED
  BY <1>1, <1>2 DEF Stored

\* What a command does to the registers when it reads nothing, or sends no data.
LEMMA Idle ==
  ASSUME NEW cmd, NEW addr, NEW count \in Nat, Command(cmd, addr, <<>>, count)
  PROVE  /\ nf' = Reading(Addressing(DoCmd(nf, cmd), addr)[Len(addr)], count)[count]
         /\ addrspace' = Contents(nf, cmd)
<1> DEFINE r == Reading(Addressing(DoCmd(nf, cmd), addr)[Len(addr)], count)[count]
<1>1. nf' = Loading(r, <<>>)[Len(<<>>)] /\ addrspace' = Contents(nf, cmd)
  BY DEF Command
<1>2. Len(<<>>) = 0
  OBVIOUS
<1> HIDE DEF r
<1>3. nf' = r
  BY <1>1, <1>2, NoBytes
<1> QED
  BY <1>1, <1>3 DEF r

LEMMA Unread ==
  ASSUME NEW cmd, NEW addr, NEW data, Command(cmd, addr, data, 0)
  PROVE  /\ nf' = Loading(Addressing(DoCmd(nf, cmd), addr)[Len(addr)], data)[Len(data)]
         /\ addrspace' = Contents(nf, cmd)
<1> DEFINE a == Addressing(DoCmd(nf, cmd), addr)[Len(addr)]
<1>1. nf' = Loading(Reading(a, 0)[0], data)[Len(data)] /\ addrspace' = Contents(nf, cmd)
  BY DEF Command
<1> HIDE DEF a
<1>2. Reading(a, 0)[0] = a
  BY NoBytes
<1> QED
  BY <1>1, <1>2 DEF a

LEMMA Bare ==
  ASSUME NEW cmd, NEW count \in Nat, Command(cmd, <<>>, <<>>, count)
  PROVE  nf' = Reading(DoCmd(nf, cmd), count)[count] /\ addrspace' = Contents(nf, cmd)
<1> DEFINE d == DoCmd(nf, cmd)
<1>1. nf' = Reading(Addressing(d, <<>>)[Len(<<>>)], count)[count] /\ addrspace' = Contents(nf, cmd)
  BY Idle
<1>2. Len(<<>>) = 0
  OBVIOUS
<1> HIDE DEF d
<1>3. Addressing(d, <<>>)[0] = d
  BY NoBytes
<1> QED
  BY <1>1, <1>2, <1>3 DEF d

LEMMA Single ==
  ASSUME NEW cmd, Command(cmd, <<>>, <<>>, 0)
  PROVE  nf' = DoCmd(nf, cmd) /\ addrspace' = Contents(nf, cmd)
<1> DEFINE d == DoCmd(nf, cmd)
<1>1. nf' = Reading(d, 0)[0] /\ addrspace' = Contents(nf, cmd)
  BY Bare
<1> HIDE DEF d
<1>2. Reading(d, 0)[0] = d
  BY NoBytes
<1> QED
  BY <1>1, <1>2 DEF d

LEMMA Addressable ==
  ASSUME NEW page \in Pages, NEW offset \in Offsets
  PROVE  /\ page \in AllPages /\ page \in Nat /\ page <= PageCount
         /\ offset \in Nat /\ offset <= PageBytes /\ 0 \in Offsets
         /\ At(page, offset) \in Nat /\ At(page, offset) <= ChipBytes
<1>1. page \in AllPages
  BY Constants
<1>2. offset <= PageBytes /\ 0 \in Offsets
  BY Constants DEF Offsets
<1> QED
  BY <1>1, <1>2, PlaceOf

\* The registers of a chip with nothing to confirm.
LEMMA Settles ==
  ASSUME NEW cmd \in Cmds, NEW cycle \in Cycles, NEW mode \in Modes, NEW p \in Nat, NEW o \in Nat,
         NEW buf \in [Offsets -> Byte], p <= PageCount, o <= PageBytes,
         nf' = Chip(cmd, cycle, mode, p, o, buf)
  PROVE  /\ Registers'
         /\ nf'.cmd = cmd /\ nf'.cmdstatus = cycle /\ nf'.pagenum = p /\ nf'.pageoffset = o /\ nf'.writebuffer = buf
<1>1. /\ nf'.cmd = cmd /\ nf'.cmdstatus = cycle /\ nf'.pagenum = p /\ nf'.pageoffset = o /\ nf'.writebuffer = buf
      /\ nf' \in NfType
  BY ChipFields
<1> QED
  BY <1>1 DEF Registers

LEMMA AsksNothing ==
  ASSUME asked' = Nothing, nf'.cmd \notin {"SEQIN", "RANDIN", "ERASE1"} \/ nf'.cmdstatus # "finish"
  PROVE  AskedInChip'
BY DEF AskedInChip, Nothing, Programs, Erases

LEMMA AsksRead ==
  ASSUME nf'.cmd \notin {"SEQIN", "RANDIN", "ERASE1"} \/ nf'.cmdstatus # "finish",
         NEW p, NEW o \in Offsets, At(p, o) <= ChipBytes, nf'.pagenum = p, nf'.pageoffset = o,
         asked' = [kind |-> "read", at |-> At(p, o)]
  PROVE  AskedInChip'
BY DEF AskedInChip, Programs, Erases, At

LEMMA Read0Keeps ==
  ASSUME NandInv, NEW page \in Pages, NEW offset \in Offsets, NEW n \in 0..5, Read0(page, offset, n)
  PROVE  NandInv'
<1> DEFINE addr == SubSeq(AddressBytes(page, offset), 1, n)
           buf == nf.writebuffer
           f == Addressing(Chip("READ0", "1st", "ADDR", 0, 0, buf), addr)
<1>1. nf \in NfType /\ buf \in [Offsets -> Byte]
  BY DEF NandInv, Registers, NfType
<1>2. /\ page \in Nat /\ page <= PageCount /\ offset \in Nat /\ offset <= PageBytes
      /\ At(page, offset) \in Nat /\ At(page, offset) <= ChipBytes
  BY Addressable
<1>3. /\ Len(addr) = n
      /\ n < 5 => \E p \in 0..page, o \in 0..offset, cycle \in {"1st", "2nd", "3rd", "4th", "5th"} :
                    f[n] = Chip("READ0", cycle, "ADDR", p, o, buf)
      /\ n = 5 => f[n] = Chip("READ0", "5th", "ADDR", page, offset, buf)
  <2> HIDE DEF addr, f, buf
  <2>1. FiveSent(f, "READ0", page, offset, buf, n, addr)
    BY <1>2, FiveCycles DEF addr, f
  <2> QED
    BY <2>1 DEF FiveSent
<1>4. nf' = f[n] /\ addrspace' = Contents(nf, "READ0")
  <2>1. Command("READ0", addr, <<>>, 0)
    BY DEF Read0
  <2>2. nf' = Reading(Addressing(DoCmd(nf, "READ0"), addr)[Len(addr)], 0)[0] /\ addrspace' = Contents(nf, "READ0")
    BY <2>1, Idle
  <2>3. DoCmd(nf, "READ0") = Chip("READ0", "1st", "ADDR", 0, 0, buf)
    BY <1>1, Reads0
  <2>4. nf' = Reading(f[n], 0)[0]
    BY <1>3, <2>2, <2>3
  <2> HIDE DEF f
  <2> QED
    BY <2>2, <2>4, NoBytes
<1>5. Stored'
  BY <1>4, Kept DEF NandInv, Read0
<1> HIDE DEF f, addr, buf
<1>6. asked' = IF n = 5 THEN [kind |-> "read", at |-> page * PageBytes + offset] ELSE Nothing
  BY DEF Read0
<1>7. "READ0" \in Cmds /\ "5th" \in Cycles /\ "ADDR" \in Modes
  BY DEF Cmds, Cycles, Modes
<1>8. CASE n = 5
  <2>1. nf' = Chip("READ0", "5th", "ADDR", page, offset, buf)
    BY <1>3, <1>4, <1>8
  <2>2. /\ Registers'
        /\ nf'.cmd = "READ0" /\ nf'.cmdstatus = "5th" /\ nf'.pagenum = page /\ nf'.pageoffset = offset
    BY <1>1, <1>2, <1>7, <2>1, Settles
  <2>3. AskedInChip'
    <3>1. asked' = [kind |-> "read", at |-> At(page, offset)]
      BY <1>6, <1>8 DEF At
    <3> QED
      BY <1>2, <2>2, <3>1, AsksRead
  <2> QED
    BY <1>5, <2>2, <2>3 DEF NandInv
<1>9. CASE n # 5
  <2>1. PICK p \in 0..page, o \in 0..offset, cycle \in {"1st", "2nd", "3rd", "4th", "5th"} :
          f[n] = Chip("READ0", cycle, "ADDR", p, o, buf)
    BY <1>3, <1>9
  <2>2. p \in Nat /\ o \in Nat /\ p <= PageCount /\ o <= PageBytes /\ cycle \in Cycles
    BY <1>2, Constants DEF Cycles
  <2>3. Registers' /\ nf'.cmd = "READ0"
    BY <1>1, <1>4, <1>7, <2>1, <2>2, Settles
  <2>4. AskedInChip'
    BY <1>6, <1>9, <2>3, AsksNothing
  <2> QED
    BY <1>5, <2>3, <2>4 DEF NandInv
<1> QED
  BY <1>8, <1>9

LEMMA Read0bKeeps ==
  ASSUME NandInv, NEW count \in 0..PageBytes, Read0b(count)
  PROVE  NandInv'
<1> DEFINE buf == nf.writebuffer
           p0 == nf.pagenum
           o0 == nf.pageoffset
           f == Reading(Chip(nf.cmd, nf.cmdstatus, "DATAREAD", p0, o0, buf), count)
<1>1. /\ nf \in NfType /\ buf \in [Offsets -> Byte] /\ nf.cmd \in Cmds /\ nf.cmdstatus \in Cycles /\ p0 \in Nat
      /\ count \in Nat /\ "DATAREAD" \in Modes
  BY Constants DEF NandInv, Registers, NfType, Modes
<1>2. /\ asked.kind = "read" /\ asked = [kind |-> "read", at |-> At(p0, o0)] /\ o0 \in Offsets
      /\ asked.at + count <= ChipBytes /\ asked' = [asked EXCEPT !.at = @ + count]
      /\ ~Programs(nf) /\ ~Erases(nf) /\ flash' = flash
  BY DEF NandInv, AskedInChip, Read0b
<1>3. At(p0, o0) + count <= ChipBytes /\ asked' = [kind |-> "read", at |-> At(p0, o0) + count]
  BY <1>2
<1>4. nf' = f[count] /\ addrspace' = Contents(nf, "READ0b")
  <2>1. Command("READ0b", <<>>, <<>>, count)
    BY DEF Read0b
  <2>2. nf' = Reading(DoCmd(nf, "READ0b"), count)[count] /\ addrspace' = Contents(nf, "READ0b")
    BY <1>1, <2>1, Bare
  <2>3. DoCmd(nf, "READ0b") = Chip(nf.cmd, nf.cmdstatus, "DATAREAD", p0, o0, buf)
    BY <1>1, Reads0
  <2> QED
    BY <2>2, <2>3
<1>5. Stored'
  BY <1>2, <1>4, Kept DEF NandInv
<1>6. Place(nf', nf.cmd, nf.cmdstatus, buf, At(p0, o0) + count)
  <2>1. count \in 0..count
    BY <1>1
  <2> QED
    BY <1>1, <1>2, <1>3, <1>4, <2>1, ReadsAll
<1> HIDE DEF f, buf, p0, o0
<1>7. PICK p \in 0..PageCount, o \in Offsets :
        nf' = Chip(nf.cmd, nf.cmdstatus, "DATAREAD", p, o, buf) /\ At(p, o) = At(p0, o0) + count
  BY <1>6 DEF Place
<1>8. p \in Nat /\ o \in Nat /\ p <= PageCount /\ o <= PageBytes
  BY Constants DEF Offsets
<1>9. Registers' /\ nf'.cmd = nf.cmd /\ nf'.cmdstatus = nf.cmdstatus /\ nf'.pagenum = p /\ nf'.pageoffset = o
  BY <1>1, <1>7, <1>8, Settles
<1>10. AskedInChip'
  <2>1. nf'.cmd \notin {"SEQIN", "RANDIN", "ERASE1"} \/ nf'.cmdstatus # "finish"
    BY <1>2, <1>9 DEF Programs, Erases
  <2> QED
    BY <1>3, <1>7, <1>9, <2>1, AsksRead
<1> QED
  BY <1>5, <1>9, <1>10 DEF NandInv

LEMMA BlankType == Blank \in [Offsets -> Byte]
BY DEF Blank, Erased, Byte

\* The registers while a page is being loaded.
LEMMA AsksProgram ==
  ASSUME NEW cmd \in {"SEQIN", "RANDIN"}, nf'.cmd = cmd, nf'.cmdstatus = "finish",
         NEW p \in AllPages, NEW buf, nf'.pagenum = p, nf'.writebuffer = buf,
         asked' = [kind |-> "program", page |-> p, buf |-> buf]
  PROVE  AskedInChip'
BY DEF AskedInChip, Programs, Erases

LEMMA SeqInKeeps ==
  ASSUME NandInv, NEW page \in Pages, NEW offset \in Offsets, NEW n \in 0..5, NEW data \in Data(offset),
         SeqInPage(page, offset, data, n)
  PROVE  NandInv'
<1> DEFINE addr == SubSeq(AddressBytes(page, offset), 1, n)
           f == Addressing(Chip("SEQIN", "1st", "ADDR", 0, 0, Blank), addr)
<1>1. nf \in NfType
  BY DEF NandInv, Registers
<1>2. /\ page \in AllPages /\ page \in Nat /\ page <= PageCount /\ offset \in Nat /\ offset <= PageBytes
  BY Addressable
<1>3. /\ Len(addr) = n
      /\ n < 5 => \E p \in 0..page, o \in 0..offset, cycle \in {"1st", "2nd", "3rd", "4th", "5th"} :
                    f[n] = Chip("SEQIN", cycle, "ADDR", p, o, Blank)
      /\ n = 5 => f[n] = Chip("SEQIN", "finish", "DATAWRITE", page, offset, Blank)
  <2> HIDE DEF addr, f
  <2>1. FiveSent(f, "SEQIN", page, offset, Blank, n, addr)
    BY <1>2, FiveCycles DEF addr, f
  <2> QED
    BY <2>1 DEF FiveSent
<1>4. nf' = Loading(f[n], data)[Len(data)] /\ addrspace' = Contents(nf, "SEQIN")
  <2>1. Command("SEQIN", addr, data, 0)
    BY DEF SeqInPage
  <2>2. /\ nf' = Loading(Addressing(DoCmd(nf, "SEQIN"), addr)[Len(addr)], data)[Len(data)]
        /\ addrspace' = Contents(nf, "SEQIN")
    BY <2>1, Unread
  <2>3. DoCmd(nf, "SEQIN") = Chip("SEQIN", "1st", "ADDR", 0, 0, Blank)
    BY <1>1, Loaders
  <2> QED
    BY <1>3, <2>2, <2>3
<1>5. Stored'
  BY <1>4, Kept DEF NandInv, SeqInPage
<1> HIDE DEF f, addr
<1>6. asked' = IF n = 5 THEN [kind |-> "program", page |-> page, buf |-> Loaded(Blank, offset, data)] ELSE Nothing
  BY DEF SeqInPage
<1>7. "SEQIN" \in Cmds /\ "finish" \in Cycles /\ "DATAWRITE" \in Modes /\ "ADDR" \in Modes
  BY DEF Cmds, Cycles, Modes
<1>8. CASE n = 5
  <2> DEFINE buf == Loaded(Blank, offset, data)
             o == offset + Len(data)
  <2>1. nf' = Chip("SEQIN", "finish", "DATAWRITE", page, o, buf)
    BY <1>3, <1>4, <1>8, BlankType, LoadsAll
  <2>2. buf \in [Offsets -> Byte] /\ o \in Nat /\ o <= PageBytes
    BY <1>2, BlankType, PartlyIs, DataIs
  <2> HIDE DEF buf, o
  <2>3. Registers' /\ nf'.cmd = "SEQIN" /\ nf'.cmdstatus = "finish" /\ nf'.pagenum = page /\ nf'.writebuffer = buf
    BY <1>2, <1>7, <2>1, <2>2, Settles
  <2>4. asked' = [kind |-> "program", page |-> page, buf |-> buf]
    BY <1>6, <1>8 DEF buf
  <2>5. AskedInChip'
    BY <1>2, <2>3, <2>4, AsksProgram
  <2> QED
    BY <1>5, <2>3, <2>5 DEF NandInv
<1>9. CASE n # 5
  <2>1. PICK p \in 0..page, o \in 0..offset, cycle \in {"1st", "2nd", "3rd", "4th", "5th"} :
          f[n] = Chip("SEQIN", cycle, "ADDR", p, o, Blank)
    BY <1>3, <1>9
  <2>2. p \in Nat /\ o \in Nat /\ p <= PageCount /\ o <= PageBytes /\ cycle \in Cycles /\ cycle # "finish"
    BY <1>2, Constants DEF Cycles
  <2>3. nf' = f[n]
    <3>1. data = <<>>
      BY <1>9 DEF SeqInPage
    <3>2. Len(<<>>) = 0
      OBVIOUS
    <3>3. nf' = Loading(f[n], <<>>)[0]
      BY <1>4, <3>1, <3>2
    <3> QED
      BY <3>3, NoBytes
  <2>4. Registers' /\ nf'.cmdstatus = cycle
    BY <1>7, <2>1, <2>2, <2>3, BlankType, Settles
  <2>5. AskedInChip'
    BY <1>6, <1>9, <2>2, <2>4, AsksNothing
  <2> QED
    BY <1>5, <2>4, <2>5 DEF NandInv
<1> QED
  BY <1>8, <1>9

LEMMA RandInKeeps ==
  ASSUME NandInv, NEW offset \in Offsets, NEW data \in Data(offset), RandInPage(offset, data)
  PROVE  NandInv'
<1> DEFINE addr == SubSeq(AddressBytes(0, offset), 1, 2)
           p == nf.pagenum
           old == nf.writebuffer
           f == Addressing(Chip("RANDIN", "1st", "ADDR", p, nf.pageoffset, old), addr)
           buf == Loaded(old, offset, data)
           o == offset + Len(data)
<1>1. nf \in NfType /\ old \in [Offsets -> Byte]
  BY DEF NandInv, Registers, NfType
<1>2. /\ asked.kind = "program" /\ asked = [kind |-> "program", page |-> p, buf |-> old] /\ p \in AllPages
      /\ asked' = [asked EXCEPT !.buf = Loaded(@, offset, data)] /\ flash' = flash
  BY DEF NandInv, AskedInChip, RandInPage
<1>3. asked' = [kind |-> "program", page |-> p, buf |-> buf]
  BY <1>2
<1>4. offset \in Nat /\ p \in Nat /\ p <= PageCount
  BY <1>2, Constants DEF Offsets, AllPages
<1>5. Len(addr) = 2 /\ f[2] = Chip("RANDIN", "finish", "DATAWRITE", p, offset, old)
  <2> HIDE DEF addr, p, old, f
  <2>1. TwoSent(f, p, offset, old, addr)
    BY <1>4, TwoCycles DEF addr, f
  <2> QED
    BY <2>1 DEF TwoSent
<1>6. nf' = Loading(f[2], data)[Len(data)] /\ addrspace' = Contents(nf, "RANDIN")
  <2>1. Command("RANDIN", addr, data, 0)
    BY DEF RandInPage
  <2>2. /\ nf' = Loading(Addressing(DoCmd(nf, "RANDIN"), addr)[Len(addr)], data)[Len(data)]
        /\ addrspace' = Contents(nf, "RANDIN")
    BY <2>1, Unread
  <2>3. DoCmd(nf, "RANDIN") = Chip("RANDIN", "1st", "ADDR", p, nf.pageoffset, old)
    BY <1>1, Loaders
  <2> QED
    BY <1>5, <2>2, <2>3
<1>7. Stored'
  BY <1>2, <1>6, Kept DEF NandInv
<1>8. nf' = Chip("RANDIN", "finish", "DATAWRITE", p, o, buf)
  BY <1>1, <1>5, <1>6, LoadsAll
<1>9. buf \in [Offsets -> Byte] /\ o \in Nat /\ o <= PageBytes
  BY <1>1, <1>4, PartlyIs, DataIs
<1>10. "RANDIN" \in Cmds /\ "finish" \in Cycles /\ "DATAWRITE" \in Modes
  BY DEF Cmds, Cycles, Modes
<1> HIDE DEF addr, p, old, f, buf, o
<1>11. Registers' /\ nf'.cmd = "RANDIN" /\ nf'.cmdstatus = "finish" /\ nf'.pagenum = p /\ nf'.writebuffer = buf
  BY <1>4, <1>8, <1>9, <1>10, Settles
<1>12. AskedInChip'
  BY <1>2, <1>3, <1>11, AsksProgram
<1> QED
  BY <1>7, <1>11, <1>12 DEF NandInv

LEMMA Erase1Keeps ==
  ASSUME NandInv, NEW page \in Pages, NEW n \in 0..3, Erase1(page, n)
  PROVE  NandInv'
<1> DEFINE addr == SubSeq(AddressBytes(page, 0), 3, 2 + n)
           buf == nf.writebuffer
           f == Addressing(Chip("ERASE1", "3rd", "ADDR", 0, 0, buf), addr)
<1>1. nf \in NfType /\ buf \in [Offsets -> Byte]
  BY DEF NandInv, Registers, NfType
<1>2. page \in Nat /\ page <= PageCount /\ 0 <= PageBytes
  BY Constants DEF AllPages
<1>3. /\ Len(addr) = n
      /\ n < 3 => \E p \in 0..page, cycle \in {"3rd", "4th", "5th"} : f[n] = Chip("ERASE1", cycle, "ADDR", p, 0, buf)
      /\ n = 3 => f[n] = Chip("ERASE1", "finish", "CMD", page, 0, buf)
  <2> HIDE DEF addr, f, buf
  <2>1. ThreeSent(f, page, buf, n, addr)
    BY <1>2, ThreeCycles DEF addr, f
  <2> QED
    BY <2>1 DEF ThreeSent
<1>4. nf' = f[n] /\ addrspace' = Contents(nf, "ERASE1")
  <2>1. Command("ERASE1", addr, <<>>, 0)
    BY DEF Erase1
  <2>2. nf' = Reading(Addressing(DoCmd(nf, "ERASE1"), addr)[Len(addr)], 0)[0] /\ addrspace' = Contents(nf, "ERASE1")
    BY <2>1, Idle
  <2>3. DoCmd(nf, "ERASE1") = Chip("ERASE1", "3rd", "ADDR", 0, 0, buf)
    BY <1>1, Loaders
  <2>4. nf' = Reading(f[n], 0)[0]
    BY <1>3, <2>2, <2>3
  <2> HIDE DEF f
  <2> QED
    BY <2>2, <2>4, NoBytes
<1>5. Stored'
  BY <1>4, Kept DEF NandInv, Erase1
<1> HIDE DEF f, addr, buf
<1>6. asked' = IF n = 3 THEN [kind |-> "erase", block |-> Block(page)] ELSE Nothing
  BY DEF Erase1
<1>7. "ERASE1" \in Cmds /\ "finish" \in Cycles /\ "CMD" \in Modes /\ "ADDR" \in Modes
  BY DEF Cmds, Cycles, Modes
<1>8. CASE n = 3
  <2>1. nf' = Chip("ERASE1", "finish", "CMD", page, 0, buf)
    BY <1>3, <1>4, <1>8
  <2>2. Registers' /\ nf'.cmd = "ERASE1" /\ nf'.cmdstatus = "finish" /\ nf'.pagenum = page
    BY <1>1, <1>2, <1>7, <2>1, Settles
  <2>3. AskedInChip'
    BY <1>6, <1>8, <2>2 DEF AskedInChip, Programs, Erases, Block
  <2> QED
    BY <1>5, <2>2, <2>3 DEF NandInv
<1>9. CASE n # 3
  <2>1. PICK p \in 0..page, cycle \in {"3rd", "4th", "5th"} : f[n] = Chip("ERASE1", cycle, "ADDR", p, 0, buf)
    BY <1>3, <1>9
  <2>2. p \in Nat /\ p <= PageCount /\ cycle \in Cycles /\ cycle # "finish"
    BY <1>2, Constants DEF Cycles
  <2>3. Registers' /\ nf'.cmdstatus = cycle
    BY <1>1, <1>2, <1>4, <1>7, <2>1, <2>2, Settles
  <2>4. AskedInChip'
    BY <1>6, <1>9, <2>2, <2>3, AsksNothing
  <2> QED
    BY <1>5, <2>3, <2>4 DEF NandInv
<1> QED
  BY <1>8, <1>9

LEMMA ReadIdKeeps ==
  ASSUME NandInv, NEW n \in 0..1, NEW count \in 0..4, ReadId(n, count)
  PROVE  NandInv'
<1> DEFINE addr == SubSeq(<< 0 >>, 1, n)
           buf == nf.writebuffer
           f == Addressing(Chip("READID", "5th", "ADDR", 0, 0, buf), addr)
<1>1. nf \in NfType /\ buf \in [Offsets -> Byte]
  BY DEF NandInv, Registers, NfType
<1>2. Len(addr) = n /\ f[n] \in {Chip("READID", "5th", "ADDR", 0, 0, buf), Chip("READID", "id1", "IDREAD", 0, 0, buf)}
  <2> HIDE DEF addr, f, buf
  <2>1. OneSent(f, buf, n, addr)
    BY OneCycle DEF addr, f
  <2> QED
    BY <2>1 DEF OneSent
<1>3. nf' = Reading(f[n], count)[count] /\ addrspace' = Contents(nf, "READID")
  <2>1. Command("READID", addr, <<>>, count)
    BY DEF ReadId
  <2>2. /\ nf' = Reading(Addressing(DoCmd(nf, "READID"), addr)[Len(addr)], count)[count]
        /\ addrspace' = Contents(nf, "READID")
    <3>1. count \in Nat
      OBVIOUS
    <3> HIDE DEF addr
    <3> QED
      BY <2>1, <3>1, Idle
  <2>3. DoCmd(nf, "READID") = Chip("READID", "5th", "ADDR", 0, 0, buf)
    BY <1>1, Others
  <2> QED
    BY <1>2, <2>2, <2>3
<1>4. Stored'
  BY <1>3, Kept DEF NandInv, ReadId
<1> DEFINE m == f[n]
<1>5. /\ m \in NfType /\ m.iostatus # "DATAREAD" /\ m.cmd = "READID" /\ m.pagenum = 0 /\ m.pageoffset = 0
  <2>1. m \in {Chip("READID", "5th", "ADDR", 0, 0, buf), Chip("READID", "id1", "IDREAD", 0, 0, buf)}
    BY <1>2
  <2> HIDE DEF m, buf
  <2>2. "READID" \in Cmds /\ "5th" \in Cycles /\ "id1" \in Cycles /\ "ADDR" \in Modes /\ "IDREAD" \in Modes
    BY DEF Cmds, Cycles, Modes
  <2>3. CASE m = Chip("READID", "5th", "ADDR", 0, 0, buf)
    BY <1>1, <2>2, <2>3, ChipFields
  <2>4. CASE m = Chip("READID", "id1", "IDREAD", 0, 0, buf)
    BY <1>1, <2>2, <2>4, ChipFields
  <2> QED
    BY <2>1, <2>3, <2>4
<1>6. Like(nf', m)
  <2> HIDE DEF m
  <2>1. nf' = Reading(m, count)[count] /\ count \in Nat
    BY <1>3 DEF m
  <2> QED
    BY <1>5, <2>1, ReadsAnyOther
<1> HIDE DEF m, f, addr, buf
<1>7. Registers' /\ nf'.cmd = "READID"
  BY <1>5, <1>6, Constants DEF Like, Registers
<1>8. asked' = Nothing
  BY DEF ReadId
<1>9. AskedInChip'
  BY <1>7, <1>8, AsksNothing
<1> QED
  BY <1>4, <1>7, <1>9 DEF NandInv

LEMMA PageProgKeeps ==
  ASSUME NandInv, PageProg
  PROVE  NandInv'
<1>1. nf \in NfType /\ nf.cmd \in Cmds /\ nf.cmdstatus \in Cycles /\ nf.writebuffer \in [Offsets -> Byte]
      /\ nf.pagenum \in Nat /\ nf.pageoffset \in Nat /\ nf.pagenum <= PageCount /\ nf.pageoffset <= PageBytes
  BY DEF NandInv, Registers, NfType
<1>2. nf' = DoCmd(nf, "PAGEPROG") /\ addrspace' = Contents(nf, "PAGEPROG")
  BY Single DEF PageProg
<1>3. "PAGEPROG" \in Cmds /\ "CMD" \in Modes
  BY DEF Cmds, Modes
<1>4. CASE Programs(nf)
  <2>1. nf' = Chip("PAGEPROG", nf.cmdstatus, "CMD", nf.pagenum, nf.pageoffset, nf.writebuffer)
    BY <1>1, <1>2, <1>4, Confirmations
  <2>2. Registers' /\ nf'.cmd = "PAGEPROG"
    BY <1>1, <1>3, <2>1, Settles
  <2>3. /\ asked.kind = "program" /\ asked.page = nf.pagenum /\ asked.buf = nf.writebuffer
        /\ nf.pagenum \in AllPages
    BY <1>4 DEF NandInv, AskedInChip
  <2>4. /\ flash' = [flash EXCEPT ![asked.page] = [o \in Offsets |-> @[o] \cap asked.buf[o]]]
        /\ asked' = Nothing
    BY <2>3 DEF PageProg
  <2> DEFINE page == nf.pagenum
             new == [o \in Offsets |-> flash[page][o] \cap nf.writebuffer[o]]
  <2>5. flash' = [flash EXCEPT ![page] = new]
    BY <2>3, <2>4
  <2>6. addrspace = flash /\ flash \in [AllPages -> [Offsets -> Byte]]
    BY DEF NandInv, Stored
  <2>7. Contents(nf, "PAGEPROG") = [p \in AllPages |-> IF p = page THEN new ELSE flash[p]]
    BY <1>4, <2>6 DEF Contents
  <2>8. new \in [Offsets -> Byte]
    <3>1. flash[page] \in [Offsets -> Byte]
      BY <2>3, <2>6
    <3>2. \A o \in Offsets : flash[page][o] \in Byte
      BY <3>1
    <3>3. \A o \in Offsets : flash[page][o] \cap nf.writebuffer[o] \in Byte
      BY <3>2 DEF Byte
    <3> QED
      BY <3>3
  <2> HIDE DEF new, page
  <2>9. Stored'
    BY <1>2, <2>5, <2>6, <2>7, <2>8 DEF Stored
  <2>10. AskedInChip'
    BY <2>2, <2>4, AsksNothing
  <2> QED
    BY <2>2, <2>9, <2>10 DEF NandInv
<1>5. CASE ~Programs(nf)
  <2>1. nf' = Chip(nf.cmd, nf.cmdstatus, "CMD", nf.pagenum, nf.pageoffset, nf.writebuffer)
    BY <1>1, <1>2, <1>5, Confirmations
  <2>2. /\ Registers' /\ nf'.cmd = nf.cmd /\ nf'.cmdstatus = nf.cmdstatus
        /\ nf'.pagenum = nf.pagenum /\ nf'.pageoffset = nf.pageoffset /\ nf'.writebuffer = nf.writebuffer
    BY <1>1, <1>3, <2>1, Settles
  <2>3. asked.kind # "program"
    BY <1>5 DEF NandInv, AskedInChip
  <2>4. flash' = flash /\ asked' = asked
    BY <2>3 DEF PageProg
  <2>5. Stored'
    BY <1>2, <1>5, <2>4, Kept DEF NandInv
  <2>6. AskedInChip'
    BY <2>2, <2>4 DEF NandInv, AskedInChip, Programs, Erases, At, Block
  <2> QED
    BY <2>2, <2>5, <2>6 DEF NandInv
<1> QED
  BY <1>4, <1>5

LEMMA Erase2Keeps ==
  ASSUME NandInv, Erase2
  PROVE  NandInv'
<1>1. nf \in NfType /\ nf.cmd \in Cmds /\ nf.cmdstatus \in Cycles /\ nf.writebuffer \in [Offsets -> Byte]
      /\ nf.pagenum \in Nat /\ nf.pageoffset \in Nat /\ nf.pagenum <= PageCount /\ nf.pageoffset <= PageBytes
  BY DEF NandInv, Registers, NfType
<1>2. nf' = DoCmd(nf, "ERASE2") /\ addrspace' = Contents(nf, "ERASE2")
  BY Single DEF Erase2
<1>3. "none" \in Cmds /\ "CMD" \in Modes
  BY DEF Cmds, Modes
<1>4. nf' = Chip("none", nf.cmdstatus, "CMD", nf.pagenum, nf.pageoffset, nf.writebuffer)
  BY <1>1, <1>2, Confirmations
<1>5. Registers' /\ nf'.cmd = "none" /\ nf'.pagenum = nf.pagenum /\ nf'.pageoffset = nf.pageoffset
  BY <1>1, <1>3, <1>4, Settles
<1>6. AskedInChip'
  <2>1. CASE asked.kind = "read"
    <3>1. /\ asked' = [kind |-> "read", at |-> At(nf.pagenum, nf.pageoffset)]
          /\ nf.pageoffset \in Offsets /\ At(nf.pagenum, nf.pageoffset) <= ChipBytes
      BY <2>1 DEF NandInv, AskedInChip, Erase2
    <3> QED
      BY <1>5, <3>1, AsksRead
  <2>2. CASE asked.kind # "read"
    <3>1. asked' = Nothing
      BY <2>2 DEF Erase2
    <3> QED
      BY <1>5, <3>1, AsksNothing
  <2> QED
    BY <2>1, <2>2
<1>7. Stored'
  <2>1. CASE Erases(nf)
    <3>1. asked.kind = "erase" /\ asked.block = Block(nf.pagenum)
      BY <2>1 DEF NandInv, AskedInChip
    <3>2. flash' = [p \in AllPages |-> IF Block(p) = Block(nf.pagenum) THEN Blank ELSE flash[p]]
      BY <3>1 DEF Erase2
    <3>3. addrspace = flash /\ flash \in [AllPages -> [Offsets -> Byte]]
      BY DEF NandInv, Stored
    <3>4. Contents(nf, "ERASE2") = [p \in AllPages |-> IF Block(p) = Block(nf.pagenum) THEN Blank ELSE flash[p]]
      BY <2>1, <3>3 DEF Contents
    <3> QED
      BY <1>2, <3>2, <3>3, <3>4, BlankType DEF Stored
  <2>2. CASE ~Erases(nf)
    <3>1. asked.kind # "erase"
      BY <2>2 DEF NandInv, AskedInChip
    <3>2. flash' = flash
      BY <3>1 DEF Erase2
    <3> QED
      BY <1>2, <2>2, <3>2, Kept DEF NandInv
  <2> QED
    BY <2>1, <2>2
<1> QED
  BY <1>5, <1>6, <1>7 DEF NandInv

LEMMA PollStatusKeeps ==
  ASSUME NandInv, PollStatus
  PROVE  NandInv'
<1> DEFINE m == DoCmd(nf, "STATUS")
<1>1. nf \in NfType /\ nf.cmd \in Cmds /\ nf.cmdstatus \in Cycles /\ nf.writebuffer \in [Offsets -> Byte]
      /\ nf.pagenum \in Nat /\ nf.pageoffset \in Nat /\ nf.pagenum <= PageCount /\ nf.pageoffset <= PageBytes
  BY DEF NandInv, Registers, NfType
<1>2. nf' = Reading(m, 1)[1] /\ addrspace' = Contents(nf, "STATUS")
  BY Bare DEF PollStatus
<1>3. "STATUS" \in Cmds /\ "status" \in Cycles /\ "STATUSREAD" \in Modes
  BY DEF Cmds, Cycles, Modes
<1>4. m = Chip("STATUS", "status", "STATUSREAD", nf.pagenum, nf.pageoffset, nf.writebuffer)
  BY <1>1, Others
<1> HIDE DEF m
<1>5. m \in NfType /\ m.iostatus # "DATAREAD" /\ m.cmd = "STATUS" /\ m.pagenum = nf.pagenum /\ m.pageoffset = nf.pageoffset
  BY <1>1, <1>3, <1>4, ChipFields
<1>6. Like(nf', m)
  BY <1>2, <1>5, ReadsAnyOther
<1>7. Registers' /\ nf'.cmd = "STATUS" /\ nf'.pagenum = nf.pagenum /\ nf'.pageoffset = nf.pageoffset
  BY <1>1, <1>5, <1>6 DEF Like, Registers
<1>8. Stored'
  BY <1>2, Kept DEF NandInv, PollStatus
<1>9. AskedInChip'
  <2>1. CASE asked.kind = "read"
    <3>1. /\ asked' = [kind |-> "read", at |-> At(nf.pagenum, nf.pageoffset)]
          /\ nf.pageoffset \in Offsets /\ At(nf.pagenum, nf.pageoffset) <= ChipBytes
      BY <2>1 DEF NandInv, AskedInChip, PollStatus
    <3> QED
      BY <1>7, <3>1, AsksRead
  <2>2. CASE asked.kind # "read"
    <3>1. asked' = Nothing
      BY <2>2 DEF PollStatus
    <3> QED
      BY <1>7, <3>1, AsksNothing
  <2> QED
    BY <2>1, <2>2
<1> QED
  BY <1>7, <1>8, <1>9 DEF NandInv

LEMMA ResetKeeps ==
  ASSUME NandInv, ResetChip
  PROVE  NandInv'
<1>1. nf \in NfType /\ nf.pagenum \in Nat /\ nf.pagenum <= PageCount /\ 0 <= PageBytes
  BY Constants DEF NandInv, Registers, NfType
<1>2. nf' = DoCmd(nf, "RESET") /\ addrspace' = Contents(nf, "RESET")
  BY Single DEF ResetChip
<1>3. "READ0" \in Cmds /\ "none" \in Cycles /\ "NONE" \in Modes
  BY DEF Cmds, Cycles, Modes
<1>4. nf' = Chip("READ0", "none", "NONE", nf.pagenum, 0, Blank)
  BY <1>1, <1>2, Others
<1>5. Registers' /\ nf'.cmd = "READ0"
  BY <1>1, <1>3, <1>4, BlankType, Settles
<1>6. Stored'
  BY <1>2, Kept DEF NandInv, ResetChip
<1>7. asked' = Nothing
  BY DEF ResetChip
<1>8. AskedInChip'
  BY <1>5, <1>7, AsksNothing
<1> QED
  BY <1>5, <1>6, <1>8 DEF NandInv

\* A new chip has nothing asked of it.
LEMMA NandInit ==
  ASSUME Init
  PROVE  NandInv
<1>1. nf = Chip("READ0", "none", "NONE", 0, 0, Blank) /\ asked = Nothing
  BY DEF Init, Chip
<1>2. "READ0" \in Cmds /\ "none" \in Cycles /\ "NONE" \in Modes /\ 0 <= PageCount /\ 0 <= PageBytes
  BY Constants DEF Cmds, Cycles, Modes
<1>3. nf \in NfType /\ nf.cmd = "READ0" /\ nf.pagenum = 0 /\ nf.pageoffset = 0
  BY <1>1, <1>2, BlankType, ChipFields
<1>4. Registers
  BY <1>2, <1>3 DEF Registers
<1>5. Stored
  BY BlankType DEF Init, Stored
<1>6. AskedInChip
  BY <1>1, <1>3 DEF AskedInChip, Nothing, Programs, Erases
<1> QED
  BY <1>4, <1>5, <1>6 DEF NandInv

LEMMA NandNext ==
  ASSUME NandInv, [Next]_vars
  PROVE  NandInv'
<1>1. ASSUME NEW page \in Pages, NEW offset \in Offsets, NEW n \in 0..5, Read0(page, offset, n) PROVE NandInv'
  BY <1>1, Read0Keeps
<1>2. ASSUME NEW count \in 0..PageBytes, Read0b(count) PROVE NandInv'
  BY <1>2, Read0bKeeps
<1>3. ASSUME NEW page \in Pages, NEW offset \in Offsets, NEW n \in 0..5, NEW data \in Data(offset),
             SeqInPage(page, offset, data, n)
      PROVE  NandInv'
  BY <1>3, SeqInKeeps
<1>4. ASSUME NEW offset \in Offsets, NEW data \in Data(offset), RandInPage(offset, data) PROVE NandInv'
  BY <1>4, RandInKeeps
<1>5. ASSUME NEW page \in Pages, NEW n \in 0..3, Erase1(page, n) PROVE NandInv'
  BY <1>5, Erase1Keeps
<1>6. ASSUME NEW n \in 0..1, NEW count \in 0..4, ReadId(n, count) PROVE NandInv'
  BY <1>6, ReadIdKeeps
<1>7. CASE PageProg
  BY <1>7, PageProgKeeps
<1>8. CASE Erase2
  BY <1>8, Erase2Keeps
<1>9. CASE PollStatus
  BY <1>9, PollStatusKeeps
<1>10. CASE ResetChip
  BY <1>10, ResetKeeps
<1>11. CASE UNCHANGED vars
  BY <1>11 DEF vars, NandInv, Registers, Stored, AskedInChip, Programs, Erases, At, Block
<1> QED
  BY <1>1, <1>2, <1>3, <1>4, <1>5, <1>6, <1>7, <1>8, <1>9, <1>10, <1>11 DEF Next

\* What the controller's commands ask of the chip (dev_nandflash_starlet.c) and
\* what the chip's registers are ready to do (nandflash_largeblock.c) agree after
\* every write to NFCMD.
THEOREM NandInvariant == Spec => []NandInv
<1>1. Init => NandInv
  BY NandInit
<1>2. NandInv /\ [Next]_vars => NandInv'
  BY NandNext
<1> QED
  BY <1>1, <1>2, PTL DEF Spec

\* The registers keep their types and the position stays within the chip, although
\* the chip checks no address: no cycle, byte sent or byte read takes pagenum or
\* pageoffset past the end.
THEOREM NandTypes == Spec => []NandTypeOK
<1>1. NandInv => NandTypeOK
  <2> SUFFICES ASSUME NandInv PROVE NandTypeOK
    OBVIOUS
  <2>1. nf \in NfType /\ nf.pagenum <= PageCount /\ nf.pageoffset <= PageBytes
    BY DEF NandInv, Registers
  <2>2. nf.pagenum \in 0..PageCount /\ nf.pageoffset \in 0..PageBytes
    BY <2>1, Constants DEF NfType
  <2>3. /\ nf.cmd \in Cmds /\ nf.cmdstatus \in Cycles /\ nf.iostatus \in Modes
        /\ nf.writebuffer \in [Offsets -> Byte]
    BY <2>1 DEF NfType
  <2>4. addrspace \in [AllPages -> [Offsets -> Byte]]
    BY DEF NandInv, Stored
  <2> QED
    BY <2>2, <2>3, <2>4 DEF NandTypeOK, Cmds
<1> QED
  BY <1>1, NandInvariant, PTL

\* The dump file holds what was asked of the chip and nothing else: finishwrite
\* ands in the bytes of this page's own SEQIN and RANDINs, doerase fills the block
\* of this ERASE1, and a confirmation without its page or block changes nothing.
THEOREM Stores == Spec => []StoredAsAsked
<1>1. NandInv => StoredAsAsked
  BY DEF NandInv, Stored, StoredAsAsked
<1> QED
  BY <1>1, NandInvariant, PTL

\* However many READ0b and status polls follow a READ0, nandflash_lb_doread gives
\* the bytes in order from the place asked for, over the ends of pages, up to the
\* end of the chip.
THEOREM ReadsInOrder == Spec => []ReadAsAsked
<1>1. NandInv => ReadAsAsked
  <2> SUFFICES ASSUME NandInv, asked.kind = "read" PROVE ReadAsAsked
    BY DEF ReadAsAsked
  <2> DEFINE at == Reading(DoCmd(nf, "READ0b"), PageBytes)
             p0 == nf.pagenum
             o0 == nf.pageoffset
             c == Chip(nf.cmd, nf.cmdstatus, "DATAREAD", p0, o0, nf.writebuffer)
  <2>1. nf \in NfType /\ p0 \in Nat /\ PageBytes \in Nat
    BY Constants DEF NandInv, Registers, NfType
  <2>2. asked.at = At(p0, o0) /\ o0 \in Offsets
    BY DEF NandInv, AskedInChip
  <2>3. at = Reading(c, PageBytes)
    BY <2>1, Reads0
  <2>4. \A i \in 0..PageBytes : At(p0, o0) + i <= ChipBytes =>
          Place(at[i], nf.cmd, nf.cmdstatus, nf.writebuffer, At(p0, o0) + i)
    BY <2>1, <2>2, <2>3, ReadsAll
  <2> HIDE DEF at, p0, o0, c
  <2>5. ASSUME NEW i \in 0..(PageBytes - 1), asked.at + i < ChipBytes
        PROVE  at[i].pagenum * PageBytes + at[i].pageoffset = asked.at + i
    <3>1. i \in 0..PageBytes /\ At(p0, o0) + i <= ChipBytes
      <4>1. At(p0, o0) \in Nat /\ ChipBytes \in Nat
        <5>1. PageCount * PageBytes \in Nat
          BY Constants, Scale
        <5> QED
          BY <2>1, <2>2, <5>1, NextPlace DEF ChipBytes
      <4> QED
        BY <2>1, <2>2, <2>5, <4>1
    <3>2. PICK p \in 0..PageCount, o \in Offsets :
            at[i] = Chip(nf.cmd, nf.cmdstatus, "DATAREAD", p, o, nf.writebuffer) /\ At(p, o) = At(p0, o0) + i
      BY <2>4, <3>1 DEF Place
    <3>3. at[i].pagenum = p /\ at[i].pageoffset = o
      BY <3>2, ChipFields
    <3> QED
      BY <2>2, <3>2, <3>3 DEF At
  <2> QED
    BY <2>5 DEF ReadAsAsked, at
<1> QED
  BY <1>1, NandInvariant, PTL
=============================================================================
