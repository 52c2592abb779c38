---------------------------- MODULE SeepromProofs ----------------------------
(***************************************************************************)
(* For every width of addresses and words, every contents and every        *)
(* sequence of pin changes: the EEPROM holds and shows what the commands   *)
(* it has heard mean.                                                      *)
(***************************************************************************)
EXTENDS Seeprom, SequenceTheorems, TLAPS

States == {"dead", "start", "opcode", "address", "data"}

EeType ==
  [state : States, clock : Bit, count : Nat, bits_in : Seq(Bit), bits_out : Seq(Bit),
   address : Seq(Bit), opcode : Seq(Bit), wren : BOOLEAN]

ChipType ==
  /\ latch \in [cs : Bit, clk : Bit, di : Bit]
  /\ ee \in EeType
  /\ data \in [Addr -> Word]
  /\ port \in Bit
  /\ heard \in Seq(Bit)

\* The chip select and the clock are the pins' as the chip saw them last.
PinsInv ==
  /\ latch.cs = 0 => ee.state = "start" /\ ee.clock = 0
  /\ latch.cs = 1 => ee.clock = latch.clk

\* The command heard is one that is followed by a word.
Waiting(h, wren) ==
  \/ OpcodeOf(h) = <<1, 0>>
  \/ wren /\ OpcodeOf(h) = <<0, 1>>
  \/ wren /\ OpcodeOf(h) = <<0, 0>> /\ SubSeq(AddressOf(h), 1, 2) = <<0, 1>>

\* In each state the chip has the part of what was heard that it will need.
StartInv == ee.state = "start" => heard = <<>> /\ ee.bits_in = <<>> /\ ee.count = 1
OpcodeInv ==
  ee.state = "opcode" =>
    /\ Len(heard) \in 1..2 /\ heard[1] = 1
    /\ ee.count = 3 - Len(heard) /\ ee.bits_in = SubSeq(heard, 2, Len(heard))
AddressInv ==
  ee.state = "address" =>
    /\ Len(heard) \in 3..(2 + AddrBits) /\ heard[1] = 1 /\ ee.opcode = OpcodeOf(heard)
    /\ ee.count = 3 + AddrBits - Len(heard) /\ ee.bits_in = SubSeq(heard, 4, Len(heard))
DataInv ==
  ee.state = "data" =>
    /\ Len(heard) \in (3 + AddrBits)..(Complete - 1) /\ heard[1] = 1
    /\ ee.opcode = OpcodeOf(heard) /\ ee.address = AddressOf(heard) /\ Waiting(heard, ee.wren)
    /\ ee.count = Complete - Len(heard)
    /\ ee.bits_in = SubSeq(heard, 4 + AddrBits, Len(heard))
DeadInv ==
  ee.state = "dead" =>
    /\ ee.bits_in = <<>> /\ ee.count = 1
    /\ \/ heard = <<0>>
       \/ /\ Len(heard) \in (3 + AddrBits)..Complete /\ heard[1] = 1
          /\ Len(heard) < Complete => ~Waiting(heard, ee.wren)
FieldInv == StartInv /\ OpcodeInv /\ AddressInv /\ DataInv /\ DeadInv

\* From the address on, a read command has the word it shows in its hands.
ReadInv ==
  Len(heard) >= 3 + AddrBits /\ heard[1] = 1 /\ OpcodeOf(heard) = <<1, 0>> =>
    ee.bits_out = data[WordAt(AddressOf(heard))]

SeepromInv ==
  ChipType /\ PinsInv /\ FieldInv /\ ReadInv /\ StoredAsHeard /\ ShownAsStored

-----------------------------------------------------------------------------
(* Bits, words and addresses.                                               *)

LEMMA Widths ==
  /\ AddrBits \in Nat /\ AddrBits >= 2 /\ HalfBits \in Nat /\ HalfBits >= 1
  /\ DataBits = HalfBits + HalfBits /\ DataBits \in Nat /\ DataBits >= 2
  /\ Complete = 3 + AddrBits + DataBits /\ Complete \in Nat
BY SeepromAssumption DEF DataBits, Complete

LEMMA TwoBits ==
  ASSUME NEW s \in Seq(Bit), Len(s) = 2
  PROVE  s = <<0, 0>> \/ s = <<0, 1>> \/ s = <<1, 0>> \/ s = <<1, 1>>
<1>1. s[1] \in {0, 1} /\ s[2] \in {0, 1}
  BY DEF Bit
<1>2. s = <<s[1], s[2]>>
  OBVIOUS
<1> QED
  BY <1>1, <1>2

LEMMA WordIsSeq == \A w : w \in Word <=> w \in Seq(Bit) /\ Len(w) = DataBits
BY Widths DEF Word, Bit

LEMMA WordAtIsAddr ==
  ASSUME NEW s \in Seq(Bit), Len(s) = AddrBits
  PROVE  WordAt(s) \in Addr
BY Widths DEF WordAt, Addr

LEMMA HostOrderIsWord ==
  ASSUME NEW w \in Word
  PROVE  HostOrder(w) \in Word
<1> DEFINE a == SubSeq(w, HalfBits + 1, DataBits)
           b == SubSeq(w, 1, HalfBits)
<1>1. w \in Seq(Bit) /\ Len(w) = DataBits
  BY WordIsSeq
<1>2. a \in Seq(Bit) /\ Len(a) = HalfBits /\ b \in Seq(Bit) /\ Len(b) = HalfBits
  BY <1>1, Widths
<1> HIDE DEF a, b
<1>3. a \o b \in Seq(Bit) /\ Len(a \o b) = DataBits
  BY <1>2, Widths
<1> QED
  BY <1>3, WordIsSeq DEF HostOrder, a, b

LEMMA SubSeqOfBits ==
  ASSUME NEW h \in Seq(Bit), NEW i \in Nat, NEW j \in Nat, i >= 1, j <= Len(h), i <= j + 1
  PROVE  SubSeq(h, i, j) \in Seq(Bit) /\ Len(SubSeq(h, i, j)) = j - i + 1
OBVIOUS

\* A bit more to what was heard.
LEMMA OneMore ==
  ASSUME NEW h \in Seq(Bit), NEW d \in Bit, NEW i \in Nat, i >= 1
  PROVE  /\ i <= Len(h) + 1 =>
              SubSeq(Append(h, d), i, Len(h) + 1) = Append(SubSeq(h, i, Len(h)), d)
         /\ \A j \in 0..Len(h) : SubSeq(Append(h, d), i, j) = SubSeq(h, i, j)
<1> DEFINE g == Append(h, d)
           n == Len(h)
<1>1. /\ g \in Seq(Bit) /\ n \in Nat /\ Len(g) = n + 1 /\ g[n + 1] = d
      /\ \A k \in 1..n : g[k] = h[k]
  OBVIOUS
<1> HIDE DEF g, n
<1>2. ASSUME i <= n + 1
      PROVE  SubSeq(g, i, n + 1) = Append(SubSeq(h, i, n), d)
  <2> DEFINE s == SubSeq(g, i, n + 1)
             r == SubSeq(h, i, n)
             t == Append(r, d)
  <2>1. s \in Seq(Bit) /\ Len(s) = n - i + 2 /\ \A k \in 1..(n - i + 2) : s[k] = g[i + k - 1]
    BY <1>1, <1>2, SubSeqProperties
  <2>2. r \in Seq(Bit) /\ Len(r) = n - i + 1 /\ \A k \in 1..(n - i + 1) : r[k] = h[i + k - 1]
    <3>1. \A k \in i..n : h[k] \in Bit
      BY <1>1 DEF n
    <3> QED
      BY <1>1, <1>2, <3>1, SubSeqProperties
  <2> HIDE DEF s, r
  <2>3. t \in Seq(Bit) /\ Len(t) = n - i + 2 /\ t[n - i + 2] = d /\ \A k \in 1..(n - i + 1) : t[k] = r[k]
    <3>1. /\ t \in Seq(Bit) /\ Len(t) = Len(r) + 1 /\ t[Len(r) + 1] = d
          /\ \A k \in 1..Len(r) : t[k] = r[k]
      BY <2>2, AppendProperties
    <3>2. Len(r) + 1 = n - i + 2
      BY <1>1, <2>2
    <3> HIDE DEF t
    <3> QED
      BY <2>2, <3>1, <3>2
  <2> HIDE DEF t
  <2>4. \A k \in 1..(n - i + 2) : s[k] = t[k]
    BY <1>1, <1>2, <2>1, <2>2, <2>3
  <2>5. s = t
    BY <2>1, <2>3, <2>4, SeqEqual
  <2> QED
    BY <2>5 DEF s, t, r
<1>3. ASSUME NEW j \in 0..n
      PROVE  SubSeq(g, i, j) = SubSeq(h, i, j)
  <2> DEFINE s == SubSeq(g, i, j)
             r == SubSeq(h, i, j)
  <2>1. s \in Seq(Bit) /\ Len(s) = (IF i <= j THEN j - i + 1 ELSE 0) /\ \A k \in 1..(j - i + 1) : s[k] = g[i + k - 1]
    BY <1>1, SubSeqProperties
  <2>2. r \in Seq(Bit) /\ Len(r) = (IF i <= j THEN j - i + 1 ELSE 0) /\ \A k \in 1..(j - i + 1) : r[k] = h[i + k - 1]
    BY <1>1, SubSeqProperties DEF n
  <2> HIDE DEF s, r
  <2>3. \A k \in 1..Len(s) : s[k] = r[k]
    BY <1>1, <2>1, <2>2
  <2>4. s = r
    BY <1>1, <2>1, <2>2, <2>3, SeqEqual
  <2> QED
    BY <2>4 DEF s, r
<1> QED
  BY <1>2, <1>3 DEF g, n

LEMMA Prefixes ==
  ASSUME NEW h \in Seq(Bit), NEW d \in Bit, NEW g, g = Append(h, d)
  PROVE  /\ g \in Seq(Bit) /\ Len(g) = Len(h) + 1
         /\ Len(h) >= 1 => g[1] = h[1]
         /\ Len(h) >= 3 => OpcodeOf(g) = OpcodeOf(h)
         /\ Len(h) >= 3 + AddrBits => AddressOf(g) = AddressOf(h)
<1>1. /\ Len(h) >= 3 => OpcodeOf(g) = OpcodeOf(h)
      /\ Len(h) >= 3 + AddrBits => AddressOf(g) = AddressOf(h)
  BY OneMore, Widths DEF OpcodeOf, AddressOf
<1>2. g \in Seq(Bit) /\ Len(g) = Len(h) + 1 /\ (Len(h) >= 1 => g[1] = h[1])
  OBVIOUS
<1> QED
  BY <1>1, <1>2

LEMMA OpcodeBits ==
  ASSUME NEW h \in Seq(Bit), Len(h) >= 3
  PROVE  /\ OpcodeOf(h) \in Seq(Bit) /\ Len(OpcodeOf(h)) = 2
         /\ \/ OpcodeOf(h) = <<0, 0>> \/ OpcodeOf(h) = <<0, 1>>
            \/ OpcodeOf(h) = <<1, 0>> \/ OpcodeOf(h) = <<1, 1>>
<1>1. OpcodeOf(h) \in Seq(Bit) /\ Len(OpcodeOf(h)) = 2
  BY SubSeqOfBits DEF OpcodeOf
<1> QED
  BY <1>1, TwoBits

LEMMA AddressBits ==
  ASSUME NEW h \in Seq(Bit), Len(h) >= 3 + AddrBits
  PROVE  /\ AddressOf(h) \in Seq(Bit) /\ Len(AddressOf(h)) = AddrBits
         /\ WordAt(AddressOf(h)) \in Addr
         /\ LET select == SubSeq(AddressOf(h), 1, 2)
            IN  \/ select = <<0, 0>> \/ select = <<0, 1>>
                \/ select = <<1, 0>> \/ select = <<1, 1>>
<1>1. AddressOf(h) \in Seq(Bit) /\ Len(AddressOf(h)) = AddrBits
  BY SubSeqOfBits, Widths DEF AddressOf
<1>2. SubSeq(AddressOf(h), 1, 2) \in Seq(Bit) /\ Len(SubSeq(AddressOf(h), 1, 2)) = 2
  BY <1>1, SubSeqOfBits, Widths
<1> QED
  BY <1>1, <1>2, WordAtIsAddr, TwoBits

\* Hearing a bit that completes neither an address nor a word means nothing.
LEMMA MeansNothing ==
  ASSUME ChipType, StoredAsHeard, NEW h, Meaning(h),
         ~Command(h, 3 + AddrBits), ~Command(h, Complete)
  PROVE  enabled' = enabled /\ store' = store
<1>1. enabled' = enabled
  BY DEF Meaning
<1>2. store \in [Addr -> Word]
  BY DEF ChipType, StoredAsHeard
<1>3. store' = store \/ store' = [a \in Addr |-> store[a]]
  BY DEF Meaning
<1> QED
  BY <1>1, <1>2, <1>3

-----------------------------------------------------------------------------
(* A rise of the clock.                                                     *)

Rising(pins) ==
  /\ SeepromInv
  /\ pins \in [cs : Bit, clk : Bit, di : Bit] /\ pins.cs = 1 /\ pins.clk = 1
  /\ ee.clock = 0
  /\ WriteLatch(pins)

LEMMA RiseIs ==
  ASSUME NEW pins, Rising(pins), NEW e, e = Shifted(ee, pins.di)
  PROVE  /\ pins.di \in Bit /\ latch' = pins
         /\ port' = Shown(e)
         /\ ee' = [(IF e.count = 0 THEN FieldDone(e) ELSE e) EXCEPT !.clock = 1]
         /\ data' = IF e.count = 0 THEN Written(e) ELSE data
         /\ heard' = IF Len(heard) < Complete /\ heard # <<0>> THEN Append(heard, pins.di)
                     ELSE heard
         /\ IF heard' = heard THEN enabled' = enabled /\ store' = store ELSE Meaning(heard')
<1>1. latch' = pins /\ Selected(pins) /\ heard' = Hearing(pins)
  BY DEF Rising, WriteLatch
<1>2. Rise(pins)
  BY DEF Rising, Rise, SeepromInv, PinsInv, ChipType, Bit
<1>3. IF heard' = heard THEN enabled' = enabled /\ store' = store ELSE Meaning(heard')
  BY DEF Rising, WriteLatch
<1> QED
  BY <1>1, <1>2, <1>3 DEF Rising, Selected, Hearing

\* What the shift leaves, as a record and field by field.
LEMMA ShiftedIs ==
  ASSUME ee \in EeType, ee.count >= 1, NEW d \in Bit, NEW e, e = Shifted(ee, d)
  PROVE  /\ e = [state |-> ee.state, clock |-> ee.clock, count |-> ee.count - 1,
                 bits_in |-> Append(ee.bits_in, d), bits_out |-> ee.bits_out,
                 address |-> ee.address, opcode |-> ee.opcode, wren |-> ee.wren]
         /\ e \in EeType
<1>1. e = [ee EXCEPT !.count = ee.count - 1, !.bits_in = Append(ee.bits_in, d)]
  BY DEF Shifted
<1>2. e = [state |-> ee.state, clock |-> ee.clock, count |-> ee.count - 1,
           bits_in |-> Append(ee.bits_in, d), bits_out |-> ee.bits_out,
           address |-> ee.address, opcode |-> ee.opcode, wren |-> ee.wren]
  BY <1>1 DEF EeType
<1>3. Append(ee.bits_in, d) \in Seq(Bit) /\ ee.count - 1 \in Nat
  BY DEF EeType
<1> QED
  BY <1>2, <1>3 DEF EeType

LEMMA EeMade ==
  ASSUME NEW state \in States, NEW count \in Nat, NEW bits_out \in Seq(Bit),
         NEW address \in Seq(Bit), NEW opcode \in Seq(Bit), NEW wren \in BOOLEAN
  PROVE  [state |-> state, clock |-> 1, count |-> count, bits_in |-> <<>>,
          bits_out |-> bits_out, address |-> address, opcode |-> opcode,
          wren |-> wren] \in EeType
BY DEF EeType, Bit

LEMMA ShownIsBit ==
  ASSUME NEW e \in EeType
  PROVE  Shown(e) \in Bit
<1>1. e.count \in Nat /\ e.bits_out \in Seq(Bit)
  BY DEF EeType
<1> QED
  BY <1>1 DEF Shown, BitOut, Bit

\* The bits of a word that is read come out in order.
LEMMA ShownOfWord ==
  ASSUME NEW e \in EeType, e.bits_out \in Word, e.count < DataBits
  PROVE  Shown(e) = e.bits_out[DataBits - e.count]
<1>1. Len(e.bits_out) = DataBits
  BY WordIsSeq
<1> QED
  BY <1>1 DEF Shown, BitOut

LEMMA RiseFacts ==
  ASSUME NEW pins, Rising(pins), NEW e, e = Shifted(ee, pins.di)
  PROVE  /\ pins.di \in Bit /\ ChipType /\ ee \in EeType /\ heard \in Seq(Bit)
         /\ Len(heard) \in Nat /\ ee.count \in Nat /\ ee.count >= 1
         /\ e = [state |-> ee.state, clock |-> ee.clock, count |-> ee.count - 1,
                 bits_in |-> Append(ee.bits_in, pins.di), bits_out |-> ee.bits_out,
                 address |-> ee.address, opcode |-> ee.opcode, wren |-> ee.wren]
         /\ e \in EeType
<1>1. pins.di \in Bit /\ ChipType /\ ee \in EeType /\ heard \in Seq(Bit) /\ Len(heard) \in Nat
  BY RiseIs DEF Rising, SeepromInv, ChipType
<1>2. ee.count \in Nat /\ ee.state \in States
  BY <1>1 DEF EeType
<1>3. ee.count >= 1
  <2>1. FieldInv
    BY DEF Rising, SeepromInv
  <2> QED
    BY <1>1, <1>2, <2>1, Widths
       DEF FieldInv, StartInv, OpcodeInv, AddressInv, DataInv, DeadInv, States
<1> QED
  BY <1>1, <1>2, <1>3, ShiftedIs

\* The end of a field before the address changes no word.
LEMMA WrittenNothing ==
  ASSUME ChipType, NEW e, e.state \notin {"address", "data"}
  PROVE  Written(e) = data
<1>1. Written(e) = [a \in Addr |-> data[a]]
  BY DEF Written, Erases
<1> QED
  BY <1>1 DEF ChipType

\* The field is not complete yet.
LEMMA RiseWithin ==
  ASSUME NEW pins, Rising(pins), ee.state \in {"opcode", "address", "data"}, ee.count > 1
  PROVE  SeepromInv'
<1> DEFINE d == pins.di
           e == Shifted(ee, d)
           n == Len(heard)
<1>1. d \in Bit /\ ChipType /\ ee \in EeType /\ heard \in Seq(Bit) /\ n \in Nat
  BY RiseFacts
<1>2. /\ e = [state |-> ee.state, clock |-> ee.clock, count |-> ee.count - 1,
              bits_in |-> Append(ee.bits_in, d), bits_out |-> ee.bits_out,
              address |-> ee.address, opcode |-> ee.opcode, wren |-> ee.wren]
      /\ e \in EeType
  BY RiseFacts
<1>3. /\ latch' = pins /\ port' = Shown(e)
      /\ ee' = [(IF e.count = 0 THEN FieldDone(e) ELSE e) EXCEPT !.clock = 1]
      /\ data' = IF e.count = 0 THEN Written(e) ELSE data
      /\ heard' = IF n < Complete /\ heard # <<0>> THEN Append(heard, d) ELSE heard
      /\ IF heard' = heard THEN enabled' = enabled /\ store' = store ELSE Meaning(heard')
  BY RiseIs
<1> HIDE DEF e
<1>4. e.count = ee.count - 1 /\ e.count # 0
  BY <1>1, <1>2 DEF EeType
<1>5. ee' = [e EXCEPT !.clock = 1] /\ data' = data
  BY <1>3, <1>4
<1>6. /\ ee' = [state |-> ee.state, clock |-> 1, count |-> ee.count - 1,
                bits_in |-> Append(ee.bits_in, d), bits_out |-> ee.bits_out,
                address |-> ee.address, opcode |-> ee.opcode, wren |-> ee.wren]
      /\ ee' \in EeType
  <2>1. ee' = [state |-> e.state, clock |-> 1, count |-> e.count,
               bits_in |-> e.bits_in, bits_out |-> e.bits_out,
               address |-> e.address, opcode |-> e.opcode, wren |-> e.wren]
    BY <1>2, <1>5 DEF EeType
  <2> QED
    BY <1>2, <2>1 DEF EeType, Bit
<1>7. /\ n >= 1 /\ n < Complete /\ heard[1] = 1
      /\ n + 1 # 3 + AddrBits /\ n + 1 # Complete
      /\ ee.state \in {"address", "data"} => n >= 3
      /\ ee.state = "data" => n >= 3 + AddrBits
      /\ ee.state # "data" => n + 1 < 3 + AddrBits
  BY <1>1, Widths DEF Rising, SeepromInv, FieldInv, OpcodeInv, AddressInv, DataInv
<1>8. heard' = Append(heard, d) /\ heard' # heard
  BY <1>1, <1>3, <1>7
<1>9. /\ heard' \in Seq(Bit) /\ Len(heard') = n + 1 /\ heard'[1] = 1
      /\ n >= 3 => OpcodeOf(heard') = OpcodeOf(heard)
      /\ n >= 3 + AddrBits => AddressOf(heard') = AddressOf(heard)
  BY <1>1, <1>7, <1>8, Prefixes
<1>10. enabled' = enabled /\ store' = store
  <2>1. ~Command(heard', 3 + AddrBits) /\ ~Command(heard', Complete)
    BY <1>7, <1>9 DEF Command
  <2> QED
    BY <1>1, <1>3, <1>8, <2>1, MeansNothing DEF Rising, SeepromInv
<1>11. FieldInv'
  <2>1. /\ SubSeq(heard', 2, n + 1) = Append(SubSeq(heard, 2, n), d)
        /\ n >= 3 => SubSeq(heard', 4, n + 1) = Append(SubSeq(heard, 4, n), d)
        /\ n >= 3 + AddrBits =>
             SubSeq(heard', 4 + AddrBits, n + 1) = Append(SubSeq(heard, 4 + AddrBits, n), d)
    <3>1. ASSUME NEW i \in Nat, i >= 1, i <= n + 1
          PROVE  SubSeq(heard', i, n + 1) = Append(SubSeq(heard, i, n), d)
      BY <1>1, <1>8, <3>1, OneMore
    <3>2. /\ 2 \in Nat /\ 2 >= 1 /\ 2 <= n + 1
          /\ 4 \in Nat /\ 4 >= 1 /\ (n >= 3 => 4 <= n + 1)
          /\ 4 + AddrBits \in Nat /\ 4 + AddrBits >= 1
          /\ n >= 3 + AddrBits => 4 + AddrBits <= n + 1
      BY <1>1, <1>7, Widths
    <3> QED
      BY <3>1, <3>2, Zenon
  <2>2. /\ ee'.state = ee.state /\ ee'.count = ee.count - 1 /\ ee'.wren = ee.wren
        /\ ee'.bits_in = Append(ee.bits_in, d) /\ ee'.opcode = ee.opcode
        /\ ee'.address = ee.address
    BY <1>6
  <2>3. OpcodeInv'
    BY <1>1, <1>9, <2>1, <2>2 DEF Rising, SeepromInv, FieldInv, OpcodeInv
  <2>4. ASSUME ee.state = "address" PROVE AddressInv'
    <3>1. /\ n \in 3..(2 + AddrBits) /\ ee.opcode = OpcodeOf(heard)
          /\ ee.count = 3 + AddrBits - n /\ ee.bits_in = SubSeq(heard, 4, n)
      BY <2>4 DEF Rising, SeepromInv, FieldInv, AddressInv
    <3>2. n + 1 \in 3..(2 + AddrBits) /\ ee.count - 1 = 3 + AddrBits - (n + 1)
      BY <1>1, <3>1, Widths
    <3>3. ee'.bits_in = SubSeq(heard', 4, n + 1) /\ ee'.opcode = OpcodeOf(heard')
      <4>1. n >= 3
        BY <3>1, Widths
      <4> QED
        BY <1>9, <2>1, <2>2, <3>1, <4>1, Zenon
    <3> QED
      BY <1>9, <2>2, <3>2, <3>3 DEF AddressInv
  <2>5. ASSUME ee.state = "data" PROVE DataInv'
    <3>1. /\ n \in (3 + AddrBits)..(Complete - 1) /\ ee.opcode = OpcodeOf(heard)
          /\ ee.address = AddressOf(heard) /\ Waiting(heard, ee.wren)
          /\ ee.count = Complete - n /\ ee.bits_in = SubSeq(heard, 4 + AddrBits, n)
      BY <2>5 DEF Rising, SeepromInv, FieldInv, DataInv
    <3>2. n + 1 \in (3 + AddrBits)..(Complete - 1) /\ ee.count - 1 = Complete - (n + 1)
      BY <1>1, <3>1, Widths
    <3>3. /\ ee'.bits_in = SubSeq(heard', 4 + AddrBits, n + 1)
          /\ ee'.opcode = OpcodeOf(heard') /\ ee'.address = AddressOf(heard')
      BY <1>7, <1>9, <2>1, <2>2, <2>5, <3>1
    <3>4. Waiting(heard, ee.wren)'
      BY <1>7, <1>9, <2>2, <2>5, <3>1 DEF Waiting
    <3> QED
      BY <1>9, <2>2, <3>2, <3>3, <3>4 DEF DataInv
  <2> QED
    BY <2>2, <2>3, <2>4, <2>5 DEF FieldInv, StartInv, DeadInv, AddressInv, DataInv
<1>12. ReadInv' /\ StoredAsHeard' /\ ShownAsStored'
  <2>1. ee'.bits_out = ee.bits_out /\ ee'.wren = ee.wren
    BY <1>6
  <2>2. StoredAsHeard'
    BY <1>5, <1>10, <2>1 DEF Rising, SeepromInv, StoredAsHeard
  <2>3. ReadInv'
    BY <1>1, <1>5, <1>7, <1>9, <2>1, Widths DEF Rising, SeepromInv, ReadInv
  <2>4. ASSUME Len(heard') > 3 + AddrBits, OpcodeOf(heard') = <<1, 0>>
        PROVE  port' = store'[WordAt(AddressOf(heard'))][Len(heard') - 3 - AddrBits]
    <3> DEFINE w == data[WordAt(AddressOf(heard))]
    <3>1. ee.state = "data" /\ n >= 3 + AddrBits
      BY <1>1, <1>7, <1>9, <2>4, Widths
    <3>2. w \in Word
      BY <1>1, <3>1, AddressBits DEF ChipType
    <3>3. e.bits_out = w /\ e.count = Complete - (n + 1)
      <4>1. ee.bits_out = w
        BY <1>1, <1>7, <1>9, <2>4, <3>1, Widths DEF Rising, SeepromInv, ReadInv
      <4>2. ee.count = Complete - n
        BY <3>1 DEF Rising, SeepromInv, FieldInv, DataInv
      <4> QED
        BY <1>1, <1>2, <1>4, <4>1, <4>2, Widths
    <3>4. /\ DataBits - e.count = Len(heard') - 3 - AddrBits
          /\ e.count < DataBits
      BY <1>1, <1>9, <3>1, <3>3, Widths
    <3>5. port' = w[DataBits - e.count]
      BY <1>2, <1>3, <3>2, <3>3, <3>4, ShownOfWord
    <3>6. store' = data /\ AddressOf(heard') = AddressOf(heard)
      BY <1>9, <1>10, <3>1 DEF Rising, SeepromInv, StoredAsHeard
    <3> QED
      BY <3>4, <3>5, <3>6
  <2> QED
    BY <2>2, <2>3, <2>4 DEF ShownAsStored
<1>13. ChipType' /\ PinsInv'
  BY <1>1, <1>2, <1>3, <1>5, <1>6, <1>9, ShownIsBit DEF ChipType, PinsInv, Rising
<1> QED
  BY <1>11, <1>12, <1>13 DEF SeepromInv

LEMMA RiseType ==
  ASSUME NEW pins, Rising(pins), ee' \in EeType, ee'.clock = 1,
         data' \in [Addr -> Word], heard' \in Seq(Bit)
  PROVE  ChipType' /\ PinsInv'
<1> DEFINE e == Shifted(ee, pins.di)
<1>1. latch' = pins /\ port' = Shown(e)
  BY RiseIs
<1>2. e \in EeType
  BY RiseFacts
<1>3. port' \in Bit
  BY <1>1, <1>2, ShownIsBit
<1> QED
  BY <1>1, <1>3 DEF ChipType, PinsInv, Rising

\* The start bit.
LEMMA RiseStart ==
  ASSUME NEW pins, Rising(pins), ee.state = "start"
  PROVE  SeepromInv'
<1> DEFINE d == pins.di
           e == Shifted(ee, d)
<1>1. d \in {0, 1} /\ ChipType /\ ee \in EeType
  BY RiseFacts DEF Bit
<1>2. heard = <<>> /\ ee.bits_in = <<>> /\ ee.count = 1
  BY DEF Rising, SeepromInv, FieldInv, StartInv
<1>3. /\ e = [state |-> "start", clock |-> ee.clock, count |-> 0,
              bits_in |-> <<d>>, bits_out |-> ee.bits_out,
              address |-> ee.address, opcode |-> ee.opcode, wren |-> ee.wren]
      /\ e \in EeType
  BY <1>2, RiseFacts
<1>4. /\ latch' = pins /\ port' = Shown(e)
      /\ ee' = [(IF e.count = 0 THEN FieldDone(e) ELSE e) EXCEPT !.clock = 1]
      /\ data' = IF e.count = 0 THEN Written(e) ELSE data
      /\ heard' = IF Len(heard) < Complete /\ heard # <<0>> THEN Append(heard, d) ELSE heard
      /\ IF heard' = heard THEN enabled' = enabled /\ store' = store ELSE Meaning(heard')
  BY RiseIs
<1> HIDE DEF e
<1>5. heard' = <<d>> /\ heard' # heard /\ heard' \in Seq(Bit) /\ Len(heard') = 1 /\ heard'[1] = d
  <2>1. Len(heard) < Complete /\ heard # <<0>>
    BY <1>2, Widths
  <2>2. heard' = Append(<<>>, d)
    BY <1>2, <1>4, <2>1
  <2> QED
    BY <1>1, <1>2, <2>2 DEF Bit
<1>6. data' = data
  BY <1>1, <1>3, <1>4, WrittenNothing
<1>7. enabled' = enabled /\ store' = store
  <2>1. ~Command(heard', 3 + AddrBits) /\ ~Command(heard', Complete)
    BY <1>5, Widths DEF Command
  <2> QED
    BY <1>1, <1>4, <1>5, <2>1, MeansNothing DEF Rising, SeepromInv
<1>8. CASE d = 1
  <2>1. ee' = [[Enter(e, "opcode") EXCEPT !.bits_in = <<>>] EXCEPT !.clock = 1]
    BY <1>3, <1>4, <1>8 DEF FieldDone
  <2>2. Enter(e, "opcode") = [e EXCEPT !.state = "opcode", !.count = 2]
    BY DEF Enter, FieldBits
  <2>3. ee' = [state |-> "opcode", clock |-> 1, count |-> 2, bits_in |-> <<>>,
               bits_out |-> ee.bits_out, address |-> ee.address, opcode |-> ee.opcode,
               wren |-> ee.wren]
    BY <1>3, <2>1, <2>2
  <2>4. ee' \in EeType
    BY <1>1, <2>3 DEF EeType, States, Bit
  <2>5. FieldInv'
    BY <1>5, <1>8, <2>3 DEF FieldInv, StartInv, OpcodeInv, AddressInv, DataInv, DeadInv
  <2>6. ReadInv' /\ StoredAsHeard' /\ ShownAsStored'
    BY <1>5, <1>6, <1>7, <2>3, Widths DEF Rising, SeepromInv, ReadInv, StoredAsHeard, ShownAsStored
  <2>7. ChipType' /\ PinsInv'
    <3>1. ee'.clock = 1 /\ data' \in [Addr -> Word]
      BY <1>1, <1>6, <2>3 DEF ChipType
    <3> QED
      BY <1>5, <2>4, <3>1, RiseType
  <2> QED
    BY <2>5, <2>6, <2>7 DEF SeepromInv
<1>9. CASE d = 0
  <2>1. ee' = [[Enter([e EXCEPT !.bits_out = <<1>>], "dead") EXCEPT !.bits_in = <<>>] EXCEPT !.clock = 1]
    <3>1. e.count = 0 /\ e.state = "start" /\ e.bits_in # <<1>>
      BY <1>3, <1>9
    <3> QED
      BY <1>4, <3>1 DEF FieldDone
  <2>2. Enter([e EXCEPT !.bits_out = <<1>>], "dead")
           = [[e EXCEPT !.bits_out = <<1>>] EXCEPT !.state = "dead", !.count = 1]
    BY DEF Enter, FieldBits
  <2>3. ee' = [state |-> "dead", clock |-> 1, count |-> 1, bits_in |-> <<>>,
               bits_out |-> <<1>>, address |-> ee.address, opcode |-> ee.opcode,
               wren |-> ee.wren]
    BY <1>3, <2>1, <2>2
  <2>4. ee' \in EeType
    BY <1>1, <2>3 DEF EeType, States, Bit
  <2>5. FieldInv'
    BY <1>5, <1>9, <2>3 DEF FieldInv, StartInv, OpcodeInv, AddressInv, DataInv, DeadInv
  <2>6. ReadInv' /\ StoredAsHeard' /\ ShownAsStored'
    BY <1>5, <1>6, <1>7, <2>3, Widths DEF Rising, SeepromInv, ReadInv, StoredAsHeard, ShownAsStored
  <2>7. ChipType' /\ PinsInv'
    <3>1. ee'.clock = 1 /\ data' \in [Addr -> Word]
      BY <1>1, <1>6, <2>3 DEF ChipType
    <3> QED
      BY <1>5, <2>4, <3>1, RiseType
  <2> QED
    BY <2>5, <2>6, <2>7 DEF SeepromInv
<1> QED
  BY <1>1, <1>8, <1>9

\* The bit that completes a field is heard, and the field is a part of what
\* was heard.
LEMMA LastOfField ==
  ASSUME NEW pins, Rising(pins), ee.state \in {"opcode", "address", "data"}, ee.count = 1,
         NEW e, e = Shifted(ee, pins.di)
  PROVE  /\ e.count = 0 /\ e \in EeType
         /\ ee' = [FieldDone(e) EXCEPT !.clock = 1] /\ data' = Written(e)
         /\ heard' \in Seq(Bit) /\ Len(heard') = Len(heard) + 1 /\ heard'[1] = 1
         /\ Len(heard) \in Nat /\ Len(heard) >= 2 /\ Meaning(heard')
         /\ Len(heard) >= 3 => OpcodeOf(heard') = OpcodeOf(heard)
         /\ Len(heard) >= 3 + AddrBits => AddressOf(heard') = AddressOf(heard)
         /\ ee.state = "opcode" => Len(heard) = 2 /\ e.bits_in = OpcodeOf(heard')
         /\ ee.state = "address" => Len(heard) = 2 + AddrBits /\ e.bits_in = AddressOf(heard')
         /\ ee.state = "data" => Len(heard) = Complete - 1 /\ e.bits_in = WordOf(heard')
<1> DEFINE d == pins.di
           n == Len(heard)
<1>1. /\ d \in Bit /\ heard \in Seq(Bit) /\ n \in Nat /\ FieldInv
      /\ e.count = 0 /\ e.bits_in = Append(ee.bits_in, d) /\ e \in EeType
  BY RiseFacts DEF Rising, SeepromInv
<1>2. /\ n >= 2 /\ n < Complete /\ heard[1] = 1
      /\ ee.state = "opcode" => n = 2 /\ ee.bits_in = SubSeq(heard, 2, n)
      /\ ee.state = "address" => n = 2 + AddrBits /\ ee.bits_in = SubSeq(heard, 4, n)
      /\ ee.state = "data" => n = Complete - 1 /\ ee.bits_in = SubSeq(heard, 4 + AddrBits, n)
  <2>1. CASE ee.state = "opcode"
    BY <1>1, <2>1, Widths DEF FieldInv, OpcodeInv
  <2>2. CASE ee.state = "address"
    BY <1>1, <2>2, Widths DEF FieldInv, AddressInv
  <2>3. CASE ee.state = "data"
    BY <1>1, <2>3, Widths DEF FieldInv, DataInv
  <2> QED
    BY <2>1, <2>2, <2>3
<1>3. heard' = Append(heard, d) /\ heard' # heard
  <2>1. heard' = IF n < Complete /\ heard # <<0>> THEN Append(heard, d) ELSE heard
    BY RiseIs
  <2>2. heard # <<0>>
    BY <1>2
  <2> QED
    BY <1>1, <1>2, <2>1, <2>2
<1>4. /\ ee' = [FieldDone(e) EXCEPT !.clock = 1] /\ data' = Written(e) /\ Meaning(heard')
  BY <1>1, <1>3, RiseIs
<1>5. /\ heard' \in Seq(Bit) /\ Len(heard') = n + 1 /\ heard'[1] = 1
      /\ n >= 3 => OpcodeOf(heard') = OpcodeOf(heard)
      /\ n >= 3 + AddrBits => AddressOf(heard') = AddressOf(heard)
  <2>1. n >= 1
    BY <1>1, <1>2
  <2> QED
    BY <1>1, <1>2, <1>3, <2>1, Prefixes
<1>6. ASSUME NEW i \in Nat, i >= 1, i <= n + 1, ee.bits_in = SubSeq(heard, i, n)
      PROVE  e.bits_in = SubSeq(heard', i, n + 1)
  BY <1>1, <1>3, <1>6, OneMore, Zenon
<1>7. ee.state = "opcode" => e.bits_in = OpcodeOf(heard')
  <2>1. 2 \in Nat /\ 2 >= 1 /\ 2 + 1 = 3 /\ 2 <= 2 + 1
    OBVIOUS
  <2>2. ee.state = "opcode" => e.bits_in = SubSeq(heard', 2, n + 1) /\ n + 1 = 3
    BY <1>2, <1>6, <2>1, Zenon
  <2> QED
    BY <2>2, Zenon DEF OpcodeOf
<1>8. ee.state = "address" => e.bits_in = AddressOf(heard')
  <2>1. 4 \in Nat /\ 4 >= 1 /\ (ee.state = "address" => 4 <= n + 1 /\ n + 1 = 3 + AddrBits)
    BY <1>2, Widths
  <2>2. ee.state = "address" => e.bits_in = SubSeq(heard', 4, n + 1)
    BY <1>2, <1>6, <2>1, Zenon
  <2> QED
    BY <2>1, <2>2, Zenon DEF AddressOf
<1>9. ee.state = "data" => e.bits_in = WordOf(heard')
  <2>1. /\ 4 + AddrBits \in Nat /\ 4 + AddrBits >= 1
        /\ ee.state = "data" => 4 + AddrBits <= n + 1 /\ n + 1 = Complete
    BY <1>1, <1>2, Widths
  <2>2. ee.state = "data" => e.bits_in = SubSeq(heard', 4 + AddrBits, n + 1)
    BY <1>2, <1>6, <2>1, Zenon
  <2> QED
    BY <2>1, <2>2, Zenon DEF WordOf
<1> QED
  BY <1>1, <1>2, <1>4, <1>5, <1>7, <1>8, <1>9

LEMMA RiseOpcode ==
  ASSUME NEW pins, Rising(pins), ee.state = "opcode", ee.count = 1
  PROVE  SeepromInv'
<1> DEFINE e == Shifted(ee, pins.di)
<1>1. /\ e.count = 0 /\ e \in EeType
      /\ ee' = [FieldDone(e) EXCEPT !.clock = 1] /\ data' = Written(e)
      /\ heard' \in Seq(Bit) /\ Len(heard') = 3 /\ heard'[1] = 1 /\ Meaning(heard')
      /\ e.bits_in = OpcodeOf(heard')
  <2> HIDE DEF e
  <2>1. e = Shifted(ee, pins.di)
    BY DEF e
  <2>2. Len(heard) = 2 /\ Len(heard') = Len(heard) + 1
    BY <2>1, LastOfField
  <2> QED
    BY <2>1, <2>2, LastOfField
<1>2. /\ e.state = "opcode" /\ e.wren = ee.wren /\ ChipType /\ StoredAsHeard
  BY RiseFacts DEF Rising, SeepromInv
<1> HIDE DEF e
<1>3. data' = data /\ enabled' = enabled /\ store' = store
  <2>1. ~Command(heard', 3 + AddrBits) /\ ~Command(heard', Complete)
    BY <1>1, Widths DEF Command
  <2> QED
    BY <1>1, <1>2, <2>1, MeansNothing, WrittenNothing
<1>4. ee' = [state |-> "address", clock |-> 1, count |-> AddrBits, bits_in |-> <<>>,
             bits_out |-> e.bits_out, address |-> e.address, opcode |-> OpcodeOf(heard'),
             wren |-> ee.wren]
  <2>1. Enter([e EXCEPT !.opcode = e.bits_in], "address")
          = [[e EXCEPT !.opcode = e.bits_in] EXCEPT !.state = "address", !.count = AddrBits]
    BY DEF Enter, FieldBits
  <2>2. FieldDone(e) = [Enter([e EXCEPT !.opcode = e.bits_in], "address") EXCEPT !.bits_in = <<>>]
    BY <1>2 DEF FieldDone
  <2>3. ee' = [[[[e EXCEPT !.opcode = e.bits_in] EXCEPT !.state = "address", !.count = AddrBits]
                  EXCEPT !.bits_in = <<>>] EXCEPT !.clock = 1]
    BY <1>1, <2>1, <2>2, Zenon
  <2> QED
    BY <1>1, <1>2, <2>3 DEF EeType
<1>5. ee' \in EeType
  <2>1. e.bits_in \in Seq(Bit)
    BY <1>1 DEF EeType
  <2>2. OpcodeOf(heard') \in Seq(Bit)
    BY <1>1, <2>1
  <2>3. e.bits_out \in Seq(Bit) /\ e.address \in Seq(Bit) /\ e.wren \in BOOLEAN
    BY <1>1 DEF EeType
  <2>4. "address" \in States /\ AddrBits \in Nat /\ ee.wren \in BOOLEAN
    BY <1>2, <2>3, Widths DEF States
  <2> QED
    BY <1>4, <2>2, <2>3, <2>4, EeMade, Zenon
<1>6. FieldInv'
  <2>1. SubSeq(heard', 4, 3) = <<>>
    OBVIOUS
  <2>2. /\ ee'.state = "address" /\ ee'.count = AddrBits /\ ee'.bits_in = <<>>
        /\ ee'.opcode = OpcodeOf(heard')
    BY <1>4
  <2>3. /\ Len(heard') \in 3..(2 + AddrBits) /\ ee'.count = 3 + AddrBits - Len(heard')
    BY <1>1, <2>2, Widths
  <2>4. ee'.bits_in = SubSeq(heard', 4, Len(heard'))
    BY <1>1, <2>1, <2>2, Zenon
  <2>5. AddressInv'
    BY <1>1, <2>2, <2>3, <2>4 DEF AddressInv
  <2> QED
    BY <2>2, <2>5 DEF FieldInv, StartInv, OpcodeInv, DataInv, DeadInv
<1>7. ReadInv' /\ StoredAsHeard' /\ ShownAsStored'
  BY <1>1, <1>2, <1>3, <1>4, Widths DEF ReadInv, StoredAsHeard, ShownAsStored
<1>8. ChipType' /\ PinsInv'
  BY <1>1, <1>2, <1>3, <1>4, <1>5, RiseType DEF ChipType
<1> QED
  BY <1>6, <1>7, <1>8 DEF SeepromInv

\* The address is complete: what the words and the write enable become.
LEMMA AddressWords ==
  ASSUME NEW pins, Rising(pins), ee.state = "address", ee.count = 1
  PROVE  /\ data' = store' /\ data' \in [Addr -> Word]
         /\ OpcodeOf(heard') = <<1, 0>> => data' = data
         /\ LET select == SubSeq(AddressOf(heard'), 1, 2)
            IN  enabled' = IF OpcodeOf(heard') = <<0, 0>> /\ select \in {<<0, 0>>, <<1, 1>>}
                           THEN select = <<1, 1>> ELSE ee.wren
<1> DEFINE e == Shifted(ee, pins.di)
           h == heard'
           special == OpcodeOf(h) = <<0, 0>>
           select == SubSeq(AddressOf(h), 1, 2)
<1>1. /\ data' = Written(e) /\ Meaning(h) /\ e.bits_in = AddressOf(h)
      /\ Len(h) = Len(heard) + 1 /\ Len(heard) = 2 + AddrBits /\ h[1] = 1
      /\ Len(heard) >= 3 => OpcodeOf(h) = OpcodeOf(heard)
  BY LastOfField
<1>2. e.state = "address" /\ e.wren = ee.wren /\ e.opcode = ee.opcode /\ ChipType
  BY RiseFacts
<1>3. ee.opcode = OpcodeOf(heard) /\ data = store /\ ee.wren = enabled
  BY DEF Rising, SeepromInv, FieldInv, AddressInv, StoredAsHeard
<1> HIDE DEF e
<1>4. Len(h) = 3 + AddrBits /\ e.opcode = OpcodeOf(h)
  BY <1>1, <1>2, <1>3, Widths
<1>5. Command(h, 3 + AddrBits) /\ ~Command(h, Complete)
  BY <1>1, <1>4, Widths DEF Command
<1> DEFINE erased(a) == (special /\ select = <<1, 0>>)
                          \/ (OpcodeOf(h) = <<1, 1>> /\ a = WordAt(AddressOf(h)))
<1>6. \A a \in Addr : Erases(e, a) <=> erased(a)
  BY <1>1, <1>2, <1>4 DEF Erases
<1>7. data' = [a \in Addr |-> IF erased(a) /\ ee.wren THEN Zero ELSE data[a]]
  <2>1. \A a \in Addr : Written(e)[a] = IF Erases(e, a) /\ e.wren THEN Zero ELSE data[a]
    BY <1>2 DEF Written
  <2>2. \A a \in Addr : Written(e)[a] = IF erased(a) /\ ee.wren THEN Zero ELSE data[a]
    BY <1>2, <1>6, <2>1
  <2>3. Written(e) = [a \in Addr |-> Written(e)[a]]
    BY DEF Written
  <2> QED
    BY <1>1, <2>2, <2>3
<1>8. store' = [a \in Addr |-> IF erased(a) /\ ee.wren THEN Zero ELSE data[a]]
  <2>1. CASE ~enabled
    <3>1. store' = data /\ ~ee.wren
      BY <1>1, <1>3, <2>1 DEF Meaning
    <3>2. data = [a \in Addr |-> data[a]]
      BY <1>2 DEF ChipType
    <3> HIDE DEF erased
    <3> QED
      BY <3>1, <3>2
  <2>2. CASE enabled
    <3>1. store' = [a \in Addr |->
             CASE special /\ select = <<1, 0>> -> Zero
               [] OpcodeOf(h) = <<1, 1>> /\ a = WordAt(AddressOf(h)) -> Zero
               [] OTHER -> store[a]]
      BY <1>1, <1>5, <2>2 DEF Meaning
    <3> QED
      BY <1>3, <2>2, <3>1
  <2> QED
    BY <2>1, <2>2
<1>9. enabled' = IF special /\ select \in {<<0, 0>>, <<1, 1>>} THEN select = <<1, 1>> ELSE ee.wren
  BY <1>1, <1>3, <1>5 DEF Meaning
<1>10. Zero \in Word
  BY DEF Zero, Word, Bit
<1>11. data' \in [Addr -> Word]
  BY <1>2, <1>7, <1>10 DEF ChipType
<1>12. OpcodeOf(h) = <<1, 0>> => data' = data
  <2>1. ASSUME OpcodeOf(h) = <<1, 0>> PROVE data' = data
    <3>1. \A a \in Addr : ~erased(a)
      BY <2>1
    <3> HIDE DEF erased
    <3> QED
      BY <1>2, <1>7, <3>1 DEF ChipType
  <2> QED
    BY <2>1
<1> QED
  BY <1>7, <1>8, <1>9, <1>11, <1>12

LEMMA RiseAddress ==
  ASSUME NEW pins, Rising(pins), ee.state = "address", ee.count = 1
  PROVE  SeepromInv'
<1> DEFINE e == Shifted(ee, pins.di)
           h == heard'
           f == [e EXCEPT !.address = e.bits_in]
           opcode == OpcodeOf(h)
           select == SubSeq(AddressOf(h), 1, 2)
           w == data[WordAt(AddressOf(h))]
           Left(state, count, out, wren) ==
             [state |-> state, clock |-> 1, count |-> count, bits_in |-> <<>>, bits_out |-> out,
              address |-> AddressOf(h), opcode |-> opcode, wren |-> wren]
<1>1. /\ e \in EeType /\ ee' = [FieldDone(e) EXCEPT !.clock = 1]
      /\ h \in Seq(Bit) /\ Len(h) = 3 + AddrBits /\ h[1] = 1
      /\ e.bits_in = AddressOf(h) /\ OpcodeOf(h) = OpcodeOf(heard)
  <2> HIDE DEF e
  <2>1. e = Shifted(ee, pins.di)
    BY DEF e
  <2>2. /\ Len(heard) = 2 + AddrBits /\ Len(h) = Len(heard) + 1
        /\ Len(heard) >= 3 => OpcodeOf(h) = OpcodeOf(heard)
    BY <2>1, LastOfField
  <2>3. Len(heard) >= 3 /\ Len(h) = 3 + AddrBits
    BY <2>2, Widths
  <2> QED
    BY <2>1, <2>2, <2>3, LastOfField
<1>2. e.state = "address" /\ e.wren = ee.wren /\ e.opcode = opcode /\ ChipType
  <2>1. ee.opcode = OpcodeOf(heard)
    BY DEF Rising, SeepromInv, FieldInv, AddressInv
  <2> QED
    BY <1>1, <2>1, RiseFacts
<1>3. /\ data' = store' /\ data' \in [Addr -> Word]
      /\ opcode = <<1, 0>> => data' = data
      /\ enabled' = IF opcode = <<0, 0>> /\ select \in {<<0, 0>>, <<1, 1>>}
                    THEN select = <<1, 1>> ELSE ee.wren
  BY AddressWords
<1> HIDE DEF e
<1>4. f = [state |-> "address", clock |-> e.clock, count |-> e.count, bits_in |-> e.bits_in,
           bits_out |-> e.bits_out, address |-> AddressOf(h), opcode |-> opcode,
           wren |-> ee.wren]
  <2>1. f = [e EXCEPT !.address = e.bits_in]
    OBVIOUS
  <2> HIDE DEF f
  <2> QED
    BY <1>1, <1>2, <2>1 DEF EeType
<1>5. ee' = [[Addressed(f) EXCEPT !.bits_in = <<>>] EXCEPT !.clock = 1]
  BY <1>1, <1>2 DEF FieldDone
<1> HIDE DEF f
<1>6. Selector(f) = select /\ f.opcode = opcode /\ f.wren = ee.wren
  BY <1>4 DEF Selector
<1>7. /\ Enter(f, "dead") = [f EXCEPT !.state = "dead", !.count = 1]
      /\ Enter(f, "data") = [f EXCEPT !.state = "data", !.count = DataBits]
  BY DEF Enter, FieldBits
<1>8. /\ e.bits_out \in Seq(Bit) /\ opcode \in Seq(Bit) /\ AddressOf(h) \in Seq(Bit)
      /\ ee.wren \in BOOLEAN /\ w \in Seq(Bit)
  <2>1. Len(h) >= 3 /\ Len(h) >= 3 + AddrBits
    BY <1>1, Widths
  <2>2. opcode \in Seq(Bit)
    BY <1>1, <2>1, OpcodeBits
  <2>3. AddressOf(h) \in Seq(Bit) /\ WordAt(AddressOf(h)) \in Addr
    BY <1>1, <2>1, AddressBits
  <2>4. w \in Word
    BY <1>2, <2>3 DEF ChipType
  <2> QED
    BY <1>1, <1>2, <2>2, <2>3, <2>4, WordIsSeq DEF ChipType, EeType
<1>9. /\ opcode = <<0, 0>> \/ opcode = <<0, 1>> \/ opcode = <<1, 0>> \/ opcode = <<1, 1>>
      /\ select = <<0, 0>> \/ select = <<0, 1>> \/ select = <<1, 0>> \/ select = <<1, 1>>
  <2>1. Len(h) >= 3 /\ Len(h) >= 3 + AddrBits
    BY <1>1, Widths
  <2> QED
    BY <1>1, <2>1, OpcodeBits, AddressBits
\* The command waits for a word, or is done.
<1>10. ASSUME NEW out \in Seq(Bit), NEW wren \in BOOLEAN, wren = enabled',
              opcode = <<1, 0>> => out = w,
              \/ ee' = Left("data", DataBits, out, wren) /\ Waiting(h, wren)
              \/ ee' = Left("dead", 1, out, wren) /\ ~Waiting(h, wren)
       PROVE  SeepromInv'
  <2> DEFINE state == ee'.state
  <2>1. /\ ee'.bits_in = <<>> /\ ee'.bits_out = out /\ ee'.address = AddressOf(h)
        /\ ee'.opcode = opcode /\ ee'.wren = wren /\ ee'.clock = 1
        /\ \/ state = "data" /\ ee'.count = DataBits /\ Waiting(h, wren)
           \/ state = "dead" /\ ee'.count = 1 /\ ~Waiting(h, wren)
    BY <1>10
  <2>2. ee' \in EeType
    <3>1. "data" \in States /\ "dead" \in States /\ DataBits \in Nat /\ 1 \in Nat
      BY Widths DEF States
    <3>2. Left("data", DataBits, out, wren) \in EeType
      BY <1>8, <1>10, <3>1, EeMade
    <3>3. Left("dead", 1, out, wren) \in EeType
      BY <1>8, <1>10, <3>1, EeMade
    <3> HIDE DEF Left
    <3> QED
      BY <1>10, <3>2, <3>3
  <2>3. DataInv'
    <3>1. SubSeq(h, 4 + AddrBits, 3 + AddrBits) = <<>>
      BY Widths
    <3>2. ee'.bits_in = SubSeq(h, 4 + AddrBits, Len(h))
      BY <1>1, <2>1, <3>1, Zenon
    <3>3. Len(h) \in (3 + AddrBits)..(Complete - 1) /\ DataBits = Complete - Len(h)
      BY <1>1, Widths
    <3> QED
      BY <1>1, <2>1, <3>2, <3>3 DEF DataInv
  <2>4. DeadInv'
    <3>1. Len(h) \in (3 + AddrBits)..Complete
      BY <1>1, Widths
    <3> QED
      BY <1>1, <2>1, <3>1 DEF DeadInv
  <2>5. StartInv' /\ OpcodeInv' /\ AddressInv'
    BY <2>1 DEF StartInv, OpcodeInv, AddressInv
  <2>6. ReadInv' /\ StoredAsHeard' /\ ShownAsStored'
    BY <1>1, <1>3, <1>10, <2>1, Widths DEF ReadInv, StoredAsHeard, ShownAsStored
  <2>7. ChipType' /\ PinsInv'
    BY <1>1, <1>3, <2>1, <2>2, RiseType
  <2> QED
    BY <2>3, <2>4, <2>5, <2>6, <2>7 DEF SeepromInv, FieldInv
<1>11. \A b \in BOOLEAN : Waiting(h, b) <=>
         opcode = <<1, 0>> \/ (b /\ opcode = <<0, 1>>) \/ (b /\ opcode = <<0, 0>> /\ select = <<0, 1>>)
  BY DEF Waiting
<1> HIDE DEF select, opcode
<1>12. CASE opcode = <<0, 0>> /\ select = <<0, 0>>
  <2>1. Addressed(f) = Enter([f EXCEPT !.wren = FALSE], "dead")
    BY <1>6, <1>12 DEF Addressed
  <2>2. Enter([f EXCEPT !.wren = FALSE], "dead")
          = [[f EXCEPT !.wren = FALSE] EXCEPT !.state = "dead", !.count = 1]
    BY DEF Enter, FieldBits
  <2>3. ee' = [[[[f EXCEPT !.wren = FALSE] EXCEPT !.state = "dead", !.count = 1]
                   EXCEPT !.bits_in = <<>>] EXCEPT !.clock = 1]
    BY <1>5, <2>1, <2>2, Zenon
  <2>4. ee' = Left("dead", 1, e.bits_out, FALSE)
    BY <1>4, <2>3
  <2>5. enabled' = FALSE /\ ~Waiting(h, FALSE) /\ opcode # <<1, 0>>
    <3>1. opcode # <<1, 0>> /\ opcode # <<0, 1>> /\ select # <<0, 1>>
      BY <1>12
    <3>2. enabled' = (select = <<1, 1>>)
      BY <1>3, <1>12
    <3>3. (select = <<1, 1>>) = FALSE
      BY <1>12
    <3>4. FALSE \in BOOLEAN
      OBVIOUS
    <3> QED
      BY <1>11, <3>1, <3>2, <3>3, <3>4, Zenon
  <2> HIDE DEF Left
  <2>6. /\ enabled' \in BOOLEAN /\ ee' = Left("dead", 1, e.bits_out, enabled')
        /\ ~Waiting(h, enabled')
    BY <2>4, <2>5, Zenon
  <2> QED
    BY <1>8, <1>10, <2>5, <2>6
<1>13. CASE opcode = <<0, 0>> /\ select = <<1, 1>>
  <2>1. Addressed(f) = Enter([f EXCEPT !.wren = TRUE], "dead")
    BY <1>6, <1>13 DEF Addressed
  <2>2. Enter([f EXCEPT !.wren = TRUE], "dead")
          = [[f EXCEPT !.wren = TRUE] EXCEPT !.state = "dead", !.count = 1]
    BY DEF Enter, FieldBits
  <2>3. ee' = [[[[f EXCEPT !.wren = TRUE] EXCEPT !.state = "dead", !.count = 1]
                   EXCEPT !.bits_in = <<>>] EXCEPT !.clock = 1]
    BY <1>5, <2>1, <2>2, Zenon
  <2>4. ee' = Left("dead", 1, e.bits_out, TRUE)
    BY <1>4, <2>3
  <2>5. enabled' = TRUE /\ ~Waiting(h, TRUE) /\ opcode # <<1, 0>>
    <3>1. opcode # <<1, 0>> /\ opcode # <<0, 1>> /\ select # <<0, 1>>
      BY <1>13
    <3>2. enabled' = (select = <<1, 1>>)
      BY <1>3, <1>13
    <3>3. (select = <<1, 1>>) = TRUE
      BY <1>13
    <3>4. TRUE \in BOOLEAN
      OBVIOUS
    <3> QED
      BY <1>11, <3>1, <3>2, <3>3, <3>4, Zenon
  <2> HIDE DEF Left
  <2>6. /\ enabled' \in BOOLEAN /\ ee' = Left("dead", 1, e.bits_out, enabled')
        /\ ~Waiting(h, enabled')
    BY <2>4, <2>5, Zenon
  <2> QED
    BY <1>8, <1>10, <2>5, <2>6
<1>14. ee.wren = enabled' \/ (opcode = <<0, 0>> /\ select \in {<<0, 0>>, <<1, 1>>})
  BY <1>3
<1>15. CASE (opcode = <<0, 0>> /\ select = <<0, 1>>) \/ opcode = <<0, 1>>
  <2>1. opcode # <<1, 0>> /\ (Waiting(h, ee.wren) <=> ee.wren) /\ ee.wren = enabled'
    BY <1>8, <1>14, <1>15, <1>11
  <2>2. Addressed(f) = Enter(f, IF ee.wren THEN "data" ELSE "dead")
    BY <1>6, <1>15 DEF Addressed
  <2>3. CASE ee.wren
    <3>1. ee' = [[[f EXCEPT !.state = "data", !.count = DataBits] EXCEPT !.bits_in = <<>>] EXCEPT !.clock = 1]
      BY <1>5, <1>7, <2>2, <2>3, Zenon
    <3>2. ee' = Left("data", DataBits, e.bits_out, ee.wren)
      BY <1>4, <3>1
    <3> QED
      BY <1>8, <1>10, <2>1, <2>3, <3>2
  <2>4. CASE ~ee.wren
    <3>1. ee' = [[[f EXCEPT !.state = "dead", !.count = 1] EXCEPT !.bits_in = <<>>] EXCEPT !.clock = 1]
      BY <1>5, <1>7, <2>2, <2>4, Zenon
    <3>2. ee' = Left("dead", 1, e.bits_out, ee.wren)
      BY <1>4, <3>1
    <3> QED
      BY <1>8, <1>10, <2>1, <2>4, <3>2
  <2> QED
    BY <2>3, <2>4
<1>16. CASE (opcode = <<0, 0>> /\ select = <<1, 0>>) \/ opcode = <<1, 1>>
  <2>1. opcode # <<1, 0>> /\ ~Waiting(h, ee.wren) /\ ee.wren = enabled'
    BY <1>8, <1>14, <1>16, <1>11
  <2>2. Addressed(f) = Enter(f, "dead")
    BY <1>6, <1>16 DEF Addressed
  <2>3. ee' = [[[f EXCEPT !.state = "dead", !.count = 1] EXCEPT !.bits_in = <<>>] EXCEPT !.clock = 1]
    BY <1>5, <1>7, <2>2, Zenon
  <2>4. ee' = Left("dead", 1, e.bits_out, ee.wren)
    BY <1>4, <2>3
  <2> QED
    BY <1>8, <1>10, <2>1, <2>4
<1>17. CASE opcode = <<1, 0>>
  <2>1. Waiting(h, ee.wren) /\ ee.wren = enabled'
    BY <1>8, <1>14, <1>17, <1>11
  <2>2. Addressed(f) = Enter([f EXCEPT !.bits_out = w], "data")
    BY <1>4, <1>6, <1>17 DEF Addressed
  <2> HIDE DEF w
  <2>3. Enter([f EXCEPT !.bits_out = w], "data")
          = [[f EXCEPT !.bits_out = w] EXCEPT !.state = "data", !.count = DataBits]
    BY DEF Enter, FieldBits
  <2>4. ee' = [[[[f EXCEPT !.bits_out = w] EXCEPT !.state = "data", !.count = DataBits]
                   EXCEPT !.bits_in = <<>>] EXCEPT !.clock = 1]
    BY <1>5, <2>2, <2>3, Zenon
  <2>5. ee' = Left("data", DataBits, w, ee.wren)
    BY <1>4, <2>4
  <2> QED
    BY <1>8, <1>10, <2>1, <2>5
<1> QED
  BY <1>9, <1>12, <1>13, <1>15, <1>16, <1>17

\* The word is complete: it is stored where the command says, or was read.
LEMMA DataWords ==
  ASSUME NEW pins, Rising(pins), ee.state = "data", ee.count = 1
  PROVE  /\ data' = store' /\ data' \in [Addr -> Word] /\ enabled' = ee.wren
         /\ OpcodeOf(heard') = <<1, 0>> => data' = data
<1> DEFINE e == Shifted(ee, pins.di)
           h == heard'
           opcode == OpcodeOf(h)
           select == SubSeq(AddressOf(h), 1, 2)
           here == WordAt(AddressOf(h))
           word == WordOf(h)
<1>1. /\ data' = Written(e) /\ Meaning(h) /\ e.bits_in = word /\ h \in Seq(Bit)
      /\ Len(h) = Len(heard) + 1 /\ Len(heard) = Complete - 1 /\ h[1] = 1
      /\ Len(heard) >= 3 => opcode = OpcodeOf(heard)
      /\ Len(heard) >= 3 + AddrBits => AddressOf(h) = AddressOf(heard)
  BY LastOfField
<1>2. /\ e.state = "data" /\ e.wren = ee.wren /\ e.opcode = ee.opcode
      /\ e.address = ee.address /\ ChipType
  BY RiseFacts
<1>3. /\ ee.opcode = OpcodeOf(heard) /\ ee.address = AddressOf(heard) /\ Waiting(heard, ee.wren)
      /\ data = store /\ ee.wren = enabled
  BY DEF Rising, SeepromInv, FieldInv, DataInv, StoredAsHeard
<1> HIDE DEF e
<1>4. Len(h) = Complete /\ Len(heard) >= 3 /\ Len(heard) >= 3 + AddrBits
  BY <1>1, Widths
<1>5. Command(h, Complete) /\ ~Command(h, 3 + AddrBits)
  BY <1>1, <1>4, Widths DEF Command
<1>6. e.opcode = opcode /\ e.address = AddressOf(h) /\ Waiting(h, ee.wren)
  BY <1>1, <1>2, <1>3, <1>4, Zenon DEF Waiting
<1>7. word \in Word /\ HostOrder(word) \in Word
  <2>1. 4 + AddrBits \in Nat /\ Complete \in Nat /\ 4 + AddrBits >= 1 /\ Complete <= Len(h)
        /\ 4 + AddrBits <= Complete + 1 /\ Complete - (4 + AddrBits) + 1 = DataBits
    BY <1>4, Widths
  <2>2. word \in Seq(Bit) /\ Len(word) = Complete - (4 + AddrBits) + 1
    BY <1>1, <2>1, SubSeqOfBits DEF WordOf
  <2> QED
    BY <2>1, <2>2, WordIsSeq, HostOrderIsWord
<1>8. enabled' = ee.wren
  BY <1>1, <1>3, <1>5 DEF Meaning
<1>9. data' = [a \in Addr |->
          CASE opcode = <<0, 0>> -> HostOrder(word)
            [] opcode = <<0, 1>> /\ a = here -> word
            [] OTHER -> data[a]]
  BY <1>1, <1>2, <1>6 DEF Written, Erases
<1>10. store' = IF ~ee.wren THEN data ELSE [a \in Addr |->
          CASE opcode = <<0, 0>> /\ select = <<0, 1>> -> HostOrder(word)
            [] opcode = <<0, 1>> /\ a = here -> word
            [] OTHER -> data[a]]
  BY <1>1, <1>3, <1>5 DEF Meaning
<1> HIDE DEF word, here, select, opcode
<1>11. CASE opcode = <<1, 0>>
  <2>1. data' = [a \in Addr |-> data[a]] /\ store' = IF ~ee.wren THEN data ELSE [a \in Addr |-> data[a]]
    BY <1>9, <1>10, <1>11
  <2> QED
    BY <1>2, <1>8, <2>1 DEF ChipType, opcode
<1>12. CASE ee.wren /\ opcode = <<0, 1>>
  <2>1. data' = [a \in Addr |-> IF a = here THEN word ELSE data[a]]
    BY <1>9, <1>12
  <2>2. store' = [a \in Addr |-> IF a = here THEN word ELSE data[a]]
    BY <1>10, <1>12
  <2>3. opcode # <<1, 0>>
    BY <1>12
  <2> QED
    BY <1>2, <1>7, <1>8, <2>1, <2>2, <2>3 DEF ChipType, opcode
<1>13. CASE ee.wren /\ opcode = <<0, 0>> /\ select = <<0, 1>>
  <2>1. data' = [a \in Addr |-> HostOrder(word)]
    BY <1>9, <1>13
  <2>2. store' = [a \in Addr |-> HostOrder(word)]
    BY <1>10, <1>13
  <2>3. opcode # <<1, 0>>
    BY <1>13
  <2> QED
    BY <1>2, <1>7, <1>8, <2>1, <2>2, <2>3 DEF ChipType, opcode
<1>14. \/ opcode = <<1, 0>>
       \/ ee.wren /\ opcode = <<0, 1>>
       \/ ee.wren /\ opcode = <<0, 0>> /\ select = <<0, 1>>
  BY <1>6, Zenon DEF Waiting, opcode, select
<1> QED
  BY <1>11, <1>12, <1>13, <1>14, Zenon

\* What a command that is done leaves, at the end of a word and at every rise
\* of the clock after it.
LEMMA DeadIs ==
  ASSUME NEW pins, Rising(pins), ee.state \in {"data", "dead"}, ee.count = 1
  PROVE  /\ ee' = [state |-> "dead", clock |-> 1, count |-> 1, bits_in |-> <<>>,
                   bits_out |-> ee.bits_out, address |-> ee.address, opcode |-> ee.opcode,
                   wren |-> ee.wren]
         /\ ee' \in EeType
         /\ ee.bits_out \in Word => port' = ee.bits_out[DataBits]
<1> DEFINE e == Shifted(ee, pins.di)
<1>1. /\ e \in EeType /\ e.count = 0 /\ e.state = ee.state /\ e.bits_out = ee.bits_out
      /\ e.address = ee.address /\ e.opcode = ee.opcode /\ e.wren = ee.wren
  BY RiseFacts
<1>2. /\ ee' = [(IF e.count = 0 THEN FieldDone(e) ELSE e) EXCEPT !.clock = 1]
      /\ port' = Shown(e)
  BY RiseIs
<1> HIDE DEF e
<1>3. FieldDone(e) = [Enter(e, "dead") EXCEPT !.bits_in = <<>>]
  BY <1>1 DEF FieldDone
<1>4. Enter(e, "dead") = [e EXCEPT !.state = "dead", !.count = 1]
  BY DEF Enter, FieldBits
<1>5. ee' = [[[e EXCEPT !.state = "dead", !.count = 1] EXCEPT !.bits_in = <<>>] EXCEPT !.clock = 1]
  BY <1>1, <1>2, <1>3, <1>4, Zenon
<1>6. ee' = [state |-> "dead", clock |-> 1, count |-> 1, bits_in |-> <<>>,
             bits_out |-> ee.bits_out, address |-> ee.address, opcode |-> ee.opcode,
             wren |-> ee.wren]
  BY <1>1, <1>5 DEF EeType
<1>7. ee' \in EeType
  <2>1. /\ ee.bits_out \in Seq(Bit) /\ ee.address \in Seq(Bit) /\ ee.opcode \in Seq(Bit)
        /\ ee.wren \in BOOLEAN
    BY <1>1 DEF EeType
  <2>2. "dead" \in States /\ 1 \in Nat
    BY DEF States
  <2> QED
    BY <1>6, <2>1, <2>2, EeMade, Zenon
<1>8. ee.bits_out \in Word => port' = ee.bits_out[DataBits]
  BY <1>1, <1>2, ShownOfWord, Widths
<1> QED
  BY <1>6, <1>7, <1>8

LEMMA RiseData ==
  ASSUME NEW pins, Rising(pins), ee.state = "data", ee.count = 1
  PROVE  SeepromInv'
<1> DEFINE h == heard'
           w == data[WordAt(AddressOf(h))]
<1>1. /\ h \in Seq(Bit) /\ Len(h) = Len(heard) + 1 /\ Len(heard) = Complete - 1 /\ h[1] = 1
      /\ Len(heard) >= 3 => OpcodeOf(h) = OpcodeOf(heard)
      /\ Len(heard) >= 3 + AddrBits => AddressOf(h) = AddressOf(heard)
  <2> DEFINE e == Shifted(ee, pins.di)
  <2>1. e = Shifted(ee, pins.di)
    OBVIOUS
  <2> HIDE DEF e
  <2> QED
    BY <2>1, LastOfField
<1>2. /\ ee' = [state |-> "dead", clock |-> 1, count |-> 1, bits_in |-> <<>>,
                bits_out |-> ee.bits_out, address |-> ee.address, opcode |-> ee.opcode,
                wren |-> ee.wren]
      /\ ee' \in EeType
      /\ ee.bits_out \in Word => port' = ee.bits_out[DataBits]
  BY DeadIs
<1>3. /\ data' = store' /\ data' \in [Addr -> Word] /\ enabled' = ee.wren
      /\ OpcodeOf(h) = <<1, 0>> => data' = data
  BY DataWords
<1>4. /\ Len(h) = Complete /\ Len(heard) >= 3 /\ Len(heard) >= 3 + AddrBits /\ heard[1] = 1
      /\ Len(h) - 3 - AddrBits = DataBits /\ Len(h) >= 3 + AddrBits
  BY <1>1, Widths DEF Rising, SeepromInv, FieldInv, DataInv
<1>5. OpcodeOf(h) = <<1, 0>> => ee.bits_out = w /\ w \in Word
  <2>1. w \in Word
    BY <1>1, <1>4, AddressBits DEF ChipType, Rising, SeepromInv
  <2>2. OpcodeOf(h) = <<1, 0>> => ee.bits_out = data[WordAt(AddressOf(heard))]
    BY <1>1, <1>4 DEF Rising, SeepromInv, ReadInv
  <2> QED
    BY <1>1, <1>4, <2>1, <2>2
<1>6. FieldInv'
  <2>1. Len(h) \in (3 + AddrBits)..Complete /\ ~(Len(h) < Complete)
    BY <1>4, Widths
  <2> QED
    BY <1>1, <1>2, <2>1 DEF FieldInv, StartInv, OpcodeInv, AddressInv, DataInv, DeadInv
<1>7. ReadInv'
  BY <1>2, <1>3, <1>5 DEF ReadInv
<1>8. StoredAsHeard'
  BY <1>2, <1>3 DEF StoredAsHeard
<1>9. ShownAsStored'
  BY <1>2, <1>3, <1>4, <1>5 DEF ShownAsStored
<1>10. ChipType' /\ PinsInv'
  BY <1>1, <1>2, <1>3, RiseType
<1> QED
  BY <1>6, <1>7, <1>8, <1>9, <1>10 DEF SeepromInv

\* The command is done, or there was no start bit: further bits do nothing.
LEMMA RiseDead ==
  ASSUME NEW pins, Rising(pins), ee.state = "dead"
  PROVE  SeepromInv'
<1> DEFINE e == Shifted(ee, pins.di)
           n == Len(heard)
           h == heard'
<1>1. /\ ee.count = 1
      /\ \/ heard = <<0>>
         \/ /\ n \in (3 + AddrBits)..Complete /\ heard[1] = 1
            /\ n < Complete => ~Waiting(heard, ee.wren)
  BY DEF Rising, SeepromInv, FieldInv, DeadInv
<1>2. /\ ee' = [state |-> "dead", clock |-> 1, count |-> 1, bits_in |-> <<>>,
                bits_out |-> ee.bits_out, address |-> ee.address, opcode |-> ee.opcode,
                wren |-> ee.wren]
      /\ ee' \in EeType
      /\ ee.bits_out \in Word => port' = ee.bits_out[DataBits]
  BY <1>1, DeadIs
<1>3. /\ e.count = 0 /\ e.state = "dead" /\ ChipType /\ heard \in Seq(Bit) /\ n \in Nat
      /\ pins.di \in Bit
  BY <1>1, RiseFacts
<1>4. /\ data' = IF e.count = 0 THEN Written(e) ELSE data
      /\ h = IF n < Complete /\ heard # <<0>> THEN Append(heard, pins.di) ELSE heard
      /\ IF h = heard THEN enabled' = enabled /\ store' = store ELSE Meaning(h)
  BY RiseIs
<1> HIDE DEF e
<1>5. data' = data /\ data' \in [Addr -> Word]
  BY <1>3, <1>4, WrittenNothing DEF ChipType
<1>6. data = store /\ ee.wren = enabled /\ ReadInv /\ ShownAsStored
  BY DEF Rising, SeepromInv, StoredAsHeard
<1>7. CASE heard = <<0>> \/ n = Complete
  <2>1. h = heard /\ enabled' = enabled /\ store' = store
    BY <1>3, <1>4, <1>7, Widths
  <2>2. FieldInv'
    BY <1>1, <1>2, <2>1, <1>7 DEF FieldInv, StartInv, OpcodeInv, AddressInv, DataInv, DeadInv
  <2>3. ReadInv' /\ StoredAsHeard'
    BY <1>2, <1>5, <1>6, <2>1 DEF ReadInv, StoredAsHeard
  <2>4. ASSUME n > 3 + AddrBits, heard[1] = 1, OpcodeOf(heard) = <<1, 0>>
        PROVE  port' = store[WordAt(AddressOf(heard))][n - 3 - AddrBits]
    <3>1. n = Complete /\ n - 3 - AddrBits = DataBits /\ n >= 3 + AddrBits
      BY <1>3, <1>7, <2>4, Widths
    <3>2. ee.bits_out = data[WordAt(AddressOf(heard))]
      BY <1>6, <2>4, <3>1 DEF ReadInv
    <3>3. data[WordAt(AddressOf(heard))] \in Word
      BY <1>3, <3>1, AddressBits DEF ChipType
    <3> QED
      BY <1>2, <1>6, <3>1, <3>2, <3>3
  <2>5. ShownAsStored'
    BY <2>1, <2>4 DEF ShownAsStored
  <2>6. ChipType' /\ PinsInv'
    BY <1>2, <1>3, <1>5, <2>1, RiseType
  <2> QED
    BY <2>2, <2>3, <2>5, <2>6 DEF SeepromInv
<1>8. CASE heard # <<0>> /\ n # Complete
  <2>1. /\ n < Complete /\ n >= 3 + AddrBits /\ n >= 3 /\ n >= 1 /\ heard[1] = 1 /\ ~Waiting(heard, ee.wren)
    BY <1>1, <1>3, <1>8, Widths
  <2>2. h = Append(heard, pins.di) /\ h # heard
    BY <1>3, <1>4, <1>8, <2>1
  <2>3. /\ h \in Seq(Bit) /\ Len(h) = n + 1 /\ h[1] = 1
        /\ OpcodeOf(h) = OpcodeOf(heard) /\ AddressOf(h) = AddressOf(heard)
    BY <1>3, <2>1, <2>2, Prefixes
  <2>4. ~Waiting(h, ee.wren) /\ OpcodeOf(h) # <<1, 0>>
    BY <2>1, <2>3, Zenon DEF Waiting
  <2>5. enabled' = enabled /\ store' = store
    <3>1. Meaning(h) /\ ~Command(h, 3 + AddrBits)
      BY <1>3, <1>4, <2>1, <2>2, <2>3, Widths DEF Command
    <3>2. enabled' = enabled
      BY <3>1 DEF Meaning
    <3>3. CASE ~enabled
      BY <3>1, <3>2, <3>3 DEF Meaning
    <3>4. CASE enabled
      <4>1. OpcodeOf(h) # <<0, 1>> /\ ~(OpcodeOf(h) = <<0, 0>> /\ SubSeq(AddressOf(h), 1, 2) = <<0, 1>>)
        BY <1>6, <2>4, <3>4, Zenon DEF Waiting
      <4>2. store' = [a \in Addr |-> store[a]]
        BY <3>1, <3>4, <4>1 DEF Meaning
      <4> QED
        BY <1>3, <1>6, <3>2, <4>2 DEF ChipType
    <3> QED
      BY <3>3, <3>4
  <2>6. FieldInv'
    <3>1. Len(h) \in (3 + AddrBits)..Complete
      BY <1>3, <2>1, <2>3, Widths
    <3>2. Waiting(heard, ee.wren)' <=> Waiting(h, ee.wren)
      BY <1>2 DEF Waiting
    <3> QED
      BY <1>2, <2>3, <2>4, <3>1, <3>2 DEF FieldInv, StartInv, OpcodeInv, AddressInv, DataInv, DeadInv
  <2>7. ReadInv' /\ StoredAsHeard' /\ ShownAsStored'
    BY <1>2, <1>5, <1>6, <2>4, <2>5 DEF ReadInv, StoredAsHeard, ShownAsStored
  <2>8. ChipType' /\ PinsInv'
    BY <1>2, <1>5, <2>3, RiseType
  <2> QED
    BY <2>6, <2>7, <2>8 DEF SeepromInv
<1> QED
  BY <1>7, <1>8

-----------------------------------------------------------------------------
(* The other changes of a pin.                                              *)

\* The chip is selected, and there is no rise of the clock.
LEMMA StillSelected ==
  ASSUME SeepromInv, NEW pins \in [cs : Bit, clk : Bit, di : Bit], WriteLatch(pins),
         pins.cs = 1, ~(pins.clk = 1 /\ ee.clock = 0)
  PROVE  SeepromInv'
<1>1. latch' = pins /\ ee' = [ee EXCEPT !.clock = pins.clk] /\ data' = data /\ port' = port
  BY DEF WriteLatch, Selected
<1>2. pins.clk \in Bit /\ pins.cs \in Bit /\ ee \in EeType /\ ChipType /\ PinsInv
  BY DEF SeepromInv, ChipType
<1>3. ~Rise(pins)
  BY <1>2 DEF Rise, PinsInv, ChipType, EeType, Bit
<1>4. heard' = heard /\ enabled' = enabled /\ store' = store
  BY <1>3 DEF WriteLatch, Hearing
<1>5. /\ ee' = [state |-> ee.state, clock |-> pins.clk, count |-> ee.count, bits_in |-> ee.bits_in,
                bits_out |-> ee.bits_out, address |-> ee.address, opcode |-> ee.opcode,
                wren |-> ee.wren]
      /\ ee' \in EeType
  <2>1. ee' = [ee EXCEPT !.clock = pins.clk]
    BY <1>1
  <2> QED
    BY <1>2, <2>1 DEF EeType
<1>6. FieldInv'
  <2>1. Waiting(heard, ee.wren)' <=> Waiting(heard, ee.wren)
    BY <1>4, <1>5 DEF Waiting
  <2> QED
    BY <1>4, <1>5, <2>1
       DEF SeepromInv, FieldInv, StartInv, OpcodeInv, AddressInv, DataInv, DeadInv
<1>7. ReadInv' /\ StoredAsHeard' /\ ShownAsStored'
  BY <1>1, <1>4, <1>5 DEF SeepromInv, ReadInv, StoredAsHeard, ShownAsStored
<1>8. ChipType' /\ PinsInv'
  BY <1>1, <1>2, <1>4, <1>5 DEF ChipType, PinsInv, Bit
<1> QED
  BY <1>6, <1>7, <1>8 DEF SeepromInv

\* The chip select ends the command, whatever was left of it.
LEMMA Deselected ==
  ASSUME SeepromInv, NEW pins \in [cs : Bit, clk : Bit, di : Bit], WriteLatch(pins),
         pins.cs = 0
  PROVE  SeepromInv'
<1>1. latch' = pins /\ ee' = Unselected(ee) /\ data' = data /\ port' = port /\ heard' = <<>>
  BY DEF WriteLatch, Deselect, Hearing
<1>2. ee \in EeType /\ ChipType /\ StoredAsHeard
  BY DEF SeepromInv, ChipType
<1>3. /\ ee' = [state |-> "start", clock |-> 0, count |-> 1, bits_in |-> <<>>,
                bits_out |-> <<>>, address |-> <<>>, opcode |-> ee.opcode, wren |-> ee.wren]
      /\ ee' \in EeType
  <2>1. ee' = [ee EXCEPT !.clock = 0, !.state = "start", !.bits_out = <<>>, !.bits_in = <<>>,
                         !.count = 1, !.address = <<>>]
    BY <1>1 DEF Unselected
  <2>2. ee' = [state |-> "start", clock |-> 0, count |-> 1, bits_in |-> <<>>,
               bits_out |-> <<>>, address |-> <<>>, opcode |-> ee.opcode, wren |-> ee.wren]
    BY <1>2, <2>1 DEF EeType
  <2>3. /\ "start" \in States /\ 0 \in Bit /\ 1 \in Nat /\ <<>> \in Seq(Bit)
        /\ ee.opcode \in Seq(Bit) /\ ee.wren \in BOOLEAN
    BY <1>2 DEF EeType, States, Bit
  <2> QED
    BY <2>2, <2>3 DEF EeType
<1>4. enabled' = enabled /\ store' = store
  <2>1. CASE heard = <<>>
    BY <1>1, <2>1 DEF WriteLatch
  <2>2. CASE heard # <<>>
    <3>1. ~Command(<<>>, 3 + AddrBits) /\ ~Command(<<>>, Complete)
      BY Widths DEF Command
    <3>2. Meaning(heard')
      BY <1>1, <2>2 DEF WriteLatch
    <3> QED
      BY <1>1, <1>2, <3>1, <3>2, MeansNothing
  <2> QED
    BY <2>1, <2>2
<1>5. Len(heard') = 0
  BY <1>1
<1>6. FieldInv'
  BY <1>1, <1>3 DEF FieldInv, StartInv, OpcodeInv, AddressInv, DataInv, DeadInv
<1>7. ReadInv' /\ StoredAsHeard' /\ ShownAsStored'
  BY <1>1, <1>2, <1>3, <1>4, <1>5, Widths DEF ReadInv, StoredAsHeard, ShownAsStored
<1>8. ChipType' /\ PinsInv'
  BY <1>1, <1>2, <1>3 DEF ChipType, PinsInv
<1> QED
  BY <1>6, <1>7, <1>8 DEF SeepromInv

-----------------------------------------------------------------------------
(* Every step.                                                              *)

LEMMA SeepromInit == Init => SeepromInv
<1> SUFFICES ASSUME Init PROVE SeepromInv
  OBVIOUS
<1>1. ChipType /\ PinsInv /\ StoredAsHeard
  <2>1. ee = [state |-> "start", clock |-> 0, count |-> 1, bits_in |-> <<>>, bits_out |-> <<>>,
              address |-> <<>>, opcode |-> <<>>, wren |-> FALSE]
    BY DEF Init
  <2>2. ee \in EeType
    BY <2>1 DEF EeType, States, Bit
  <2>3. latch = [cs |-> 0, clk |-> 0, di |-> 0] /\ latch \in [cs : Bit, clk : Bit, di : Bit]
    BY DEF Init, Bit
  <2>4. data \in [Addr -> Word] /\ port \in Bit /\ heard \in Seq(Bit)
    BY DEF Init, Bit
  <2>5. StoredAsHeard
    <3>1. ee.wren = FALSE
      BY <2>1
    <3> QED
      BY <3>1, Zenon DEF Init, StoredAsHeard
  <2> QED
    BY <2>1, <2>2, <2>3, <2>4, <2>5 DEF ChipType, PinsInv
<1>2. FieldInv
  BY DEF Init, FieldInv, StartInv, OpcodeInv, AddressInv, DataInv, DeadInv
<1>3. Len(heard) = 0
  BY DEF Init
<1>4. ReadInv /\ ShownAsStored
  BY <1>3, Widths DEF ReadInv, ShownAsStored
<1> QED
  BY <1>1, <1>2, <1>4 DEF SeepromInv

LEMMA SeepromStep == SeepromInv /\ [Next]_vars => SeepromInv'
<1> SUFFICES ASSUME SeepromInv, [Next]_vars PROVE SeepromInv'
  OBVIOUS
<1>1. ASSUME NEW pins \in [cs : Bit, clk : Bit, di : Bit], WriteLatch(pins)
      PROVE  SeepromInv'
  <2>1. pins.cs \in {0, 1}
    BY DEF Bit
  <2>2. CASE pins.cs = 0
    BY <1>1, <2>2, Deselected
  <2>3. CASE pins.cs = 1 /\ ~(pins.clk = 1 /\ ee.clock = 0)
    BY <1>1, <2>3, StillSelected
  <2>4. CASE pins.cs = 1 /\ pins.clk = 1 /\ ee.clock = 0
    <3>1. Rising(pins)
      BY <1>1, <2>4 DEF Rising
    <3>2. ee.count \in Nat /\ ee.count >= 1 /\ ee.state \in States
      <4> DEFINE e == Shifted(ee, pins.di)
      <4>1. e = Shifted(ee, pins.di)
        OBVIOUS
      <4> HIDE DEF e
      <4> QED
        BY <3>1, <4>1, RiseFacts DEF EeType
    <3> QED
      BY <3>1, <3>2, RiseStart, RiseWithin, RiseOpcode, RiseAddress, RiseData, RiseDead DEF States
  <2> QED
    BY <2>1, <2>2, <2>3, <2>4
<1>2. CASE UNCHANGED vars
  <2>1. Waiting(heard, ee.wren)' <=> Waiting(heard, ee.wren)
    BY <1>2 DEF vars, Waiting
  <2> QED
    BY <1>2, <2>1 DEF vars, SeepromInv, ChipType, PinsInv, FieldInv, StartInv, OpcodeInv, AddressInv,
      DataInv, DeadInv, ReadInv, StoredAsHeard, ShownAsStored
<1> QED
  BY <1>1, <1>2 DEF Next

-----------------------------------------------------------------------------
(* The theorems.                                                            *)

\* In every state of gpio_seeprom the chip's fields are parts of what was heard
\* since the chip was selected, whatever the order of the pin changes.
THEOREM SeepromInvariant == Spec => []SeepromInv
BY SeepromInit, SeepromStep, PTL DEF Spec

LEMMA SeepromTypes == SeepromInv => SeepromTypeOK
<1> SUFFICES ASSUME SeepromInv PROVE SeepromTypeOK
  OBVIOUS
<1>1. /\ ee.state \in States /\ ee.clock \in Bit /\ ee.wren \in BOOLEAN /\ port \in Bit
      /\ data \in [Addr -> Word] /\ heard \in Seq(Bit) /\ Len(heard) \in Nat
      /\ ee.count \in Nat /\ FieldInv
  BY DEF SeepromInv, ChipType, EeType
<1>2. /\ FieldBits("opcode") = 2 /\ FieldBits("address") = AddrBits /\ FieldBits("data") = DataBits
      /\ FieldBits("start") = 1 /\ FieldBits("dead") = 1
  BY DEF FieldBits
<1>3. ASSUME NEW i \in Nat, i >= 1, i <= Len(heard) + 1, ee.bits_in = SubSeq(heard, i, Len(heard))
      PROVE  Len(ee.bits_in) = Len(heard) - i + 1
  BY <1>1, <1>3, SubSeqOfBits
<1>4. ee.count \in 1..FieldBits(ee.state) /\ ee.count + Len(ee.bits_in) = FieldBits(ee.state)
  <2>1. CASE ee.state \in {"start", "dead"}
    BY <1>1, <1>2, <2>1 DEF FieldInv, StartInv, DeadInv
  <2>2. CASE ee.state = "opcode"
    <3>1. /\ Len(heard) \in 1..2 /\ ee.count = 3 - Len(heard)
          /\ FieldBits(ee.state) = 2
      BY <1>1, <1>2, <2>2, Zenon DEF FieldInv, OpcodeInv
    <3>2. 2 \in Nat /\ 2 >= 1 /\ 2 <= Len(heard) + 1
      BY <3>1
    <3>3. Len(ee.bits_in) = Len(heard) - 2 + 1
      BY <1>1, <1>3, <2>2, <3>2, Zenon DEF FieldInv, OpcodeInv
    <3>4. \A n \in 1..2 : 3 - n \in 1..2 /\ 3 - n + (n - 2 + 1) = 2
      OBVIOUS
    <3> QED
      BY <3>1, <3>3, <3>4, Zenon
  <2>3. CASE ee.state = "address"
    <3>1. /\ Len(heard) \in 3..(2 + AddrBits) /\ ee.count = 3 + AddrBits - Len(heard)
          /\ FieldBits(ee.state) = AddrBits
      BY <1>1, <1>2, <2>3, Zenon DEF FieldInv, AddressInv
    <3>2. 4 \in Nat /\ 4 >= 1 /\ 4 <= Len(heard) + 1
      BY <1>1, <3>1, Widths
    <3>3. Len(ee.bits_in) = Len(heard) - 4 + 1
      BY <1>1, <1>3, <2>3, <3>2, Zenon DEF FieldInv, AddressInv
    <3> QED
      BY <1>1, <3>1, <3>3, Widths
  <2>4. CASE ee.state = "data"
    <3>1. /\ Len(heard) \in (3 + AddrBits)..(Complete - 1) /\ ee.count = Complete - Len(heard)
          /\ FieldBits(ee.state) = DataBits
      BY <1>1, <1>2, <2>4, Zenon DEF FieldInv, DataInv
    <3>2. 4 + AddrBits \in Nat /\ 4 + AddrBits >= 1 /\ 4 + AddrBits <= Len(heard) + 1
      BY <1>1, <3>1, Widths
    <3>3. Len(ee.bits_in) = Len(heard) - (4 + AddrBits) + 1
      BY <1>1, <1>3, <2>4, <3>2, Zenon DEF FieldInv, DataInv
    <3> QED
      BY <1>1, <3>1, <3>3, Widths
  <2> QED
    BY <1>1, <2>1, <2>2, <2>3, <2>4 DEF States
<1> QED
  BY <1>1, <1>4 DEF SeepromTypeOK, States

\* The unsigned bit counter of gpio_seeprom never passes zero: in every state it
\* counts the bits that the current field still lacks.
THEOREM CountsTheField == Spec => []SeepromTypeOK
<1>1. SeepromInv => SeepromTypeOK
  BY SeepromTypes
<1> QED
  BY <1>1, SeepromInvariant, PTL

\* The words and the write enable of gpio_seeprom are always what the commands
\* heard in full have made of them; nothing else changes a word.
THEOREM StoresWhatIsHeard == Spec => []StoredAsHeard
<1>1. SeepromInv => StoredAsHeard
  BY DEF SeepromInv
<1> QED
  BY <1>1, SeepromInvariant, PTL

\* While a word is read its bits come out in order, the highest first, one at
\* each rise of the clock after the address.
THEOREM ShowsWhatIsStored == Spec => []ShownAsStored
<1>1. SeepromInv => ShownAsStored
  BY DEF SeepromInv
<1> QED
  BY <1>1, SeepromInvariant, PTL
=============================================================================
