------------------------------- MODULE Seeprom -------------------------------
(***************************************************************************)
(* The serial EEPROM on the GPIO pins (gpio_seeprom), driven by the guest  *)
(* one write of the latch at a time: chip select, clock and data in.  A    *)
(* number is the sequence of its bits, the highest first.  The guest never *)
(* makes the data pin an output, on which the emulator stops.              *)
(***************************************************************************)
EXTENDS Naturals, Sequences

CONSTANTS
  AddrBits,   \* 8 in the code; the top two select a special command, the
              \* top one is no part of a word's address
  HalfBits    \* bits of a byte: 8 in the code

ASSUME SeepromAssumption == AddrBits \in Nat \ {0, 1} /\ HalfBits \in Nat \ {0}

Bit == {0, 1}
DataBits == 2 * HalfBits
Addr == [1..(AddrBits - 1) -> Bit]
Word == [1..DataBits -> Bit]
Zero == [i \in 1..DataBits |-> 0]
WordAt(address) == [i \in 1..(AddrBits - 1) |-> address[i + 1]]

\* A word stored as the host keeps it, little-endian, and read as big-endian.
HostOrder(w) == SubSeq(w, HalfBits + 1, DataBits) \o SubSeq(w, 1, HalfBits)

VARIABLES
  latch,     \* the chip's pins: cs, clk and di
  ee,        \* struct seeprom: state, clock, count, bits, address, opcode, wren
  data,      \* its words
  port,      \* the data output pin
  heard,     \* ghost: the bits clocked in since the chip was selected
  store,     \* ghost: the words and
  enabled    \* the write enable that the commands heard have made

vars == <<latch, ee, data, port, heard, store, enabled>>

FieldBits(state) ==
  CASE state = "opcode" -> 2 [] state = "address" -> AddrBits [] state = "data" -> DataBits
    [] OTHER -> 1

Unselected(e) ==
  [e EXCEPT !.clock = 0, !.state = "start", !.bits_out = <<>>, !.bits_in = <<>>,
            !.count = 1, !.address = <<>>]

\* The words come from seeprom.bin, if it is there; the latch starts at 0x20.
Init ==
  /\ latch = [cs |-> 0, clk |-> 0, di |-> 0]
  /\ ee = [state |-> "start", clock |-> 0, count |-> 1, bits_in |-> <<>>, bits_out |-> <<>>,
           address |-> <<>>, opcode |-> <<>>, wren |-> FALSE]
  /\ data \in [Addr -> Word]
  /\ port = 0
  /\ heard = <<>>
  /\ store = data
  /\ enabled = FALSE

-----------------------------------------------------------------------------
(* The chip.                                                                *)

\* Slip: a finished command stops counting.
Enter_Uncounted(e, state) ==
  [e EXCEPT !.state = state, !.count = IF state = "dead" THEN 0 ELSE FieldBits(state)]
Enter(e, state) == [e EXCEPT !.state = state, !.count = FieldBits(state)]

\* The bit of bits_out that is worth 2^count.
BitOut(e, count) == IF count < Len(e.bits_out) THEN e.bits_out[Len(e.bits_out) - count] ELSE 0

Selector(e) == SubSeq(e.address, 1, 2)

\* The address is complete: the commands without data are carried out.
Addressed(e) ==
  LET special == e.opcode = <<0, 0>>
  IN CASE special /\ Selector(e) = <<0, 0>> -> Enter([e EXCEPT !.wren = FALSE], "dead")
       [] special /\ Selector(e) = <<1, 1>> -> Enter([e EXCEPT !.wren = TRUE], "dead")
       [] (special /\ Selector(e) = <<0, 1>>) \/ e.opcode = <<0, 1>> ->
            Enter(e, IF e.wren THEN "data" ELSE "dead")
       [] (special /\ Selector(e) = <<1, 0>>) \/ e.opcode = <<1, 1>> -> Enter(e, "dead")
       [] e.opcode = <<1, 0>> -> Enter([e EXCEPT !.bits_out = data[WordAt(e.address)]], "data")

\* The field is complete: the next one, with bits_in empty again.
FieldDone(e) ==
  LET next == CASE e.state = "dead"    -> Enter(e, "dead")
                [] e.state = "start"   -> IF e.bits_in = <<1>> THEN Enter(e, "opcode")
                                          ELSE Enter([e EXCEPT !.bits_out = <<1>>], "dead")
                [] e.state = "opcode"  -> Enter([e EXCEPT !.opcode = e.bits_in], "address")
                [] e.state = "address" -> Addressed([e EXCEPT !.address = e.bits_in])
                [] e.state = "data"    -> Enter(e, "dead")
  IN  [next EXCEPT !.bits_in = <<>>]

Erases(e, a) ==
  /\ e.state = "address"
  /\ \/ e.opcode = <<0, 0>> /\ SubSeq(e.bits_in, 1, 2) = <<1, 0>>
     \/ e.opcode = <<1, 1>> /\ a = WordAt(e.bits_in)

\* The words after the field, erased or written.
\* Slip: an erasure is carried out whether or not writing is enabled.
Written_Always(e) ==
  [a \in Addr |->
     CASE Erases(e, a) -> Zero
       [] e.state = "data" /\ e.opcode = <<0, 0>> -> HostOrder(e.bits_in)
       [] e.state = "data" /\ e.opcode = <<0, 1>> /\ a = WordAt(e.address) -> e.bits_in
       [] OTHER -> data[a]]
Written(e) ==
  [a \in Addr |->
     CASE Erases(e, a) /\ e.wren -> Zero
       [] e.state = "data" /\ e.opcode = <<0, 0>> -> HostOrder(e.bits_in)
       [] e.state = "data" /\ e.opcode = <<0, 1>> /\ a = WordAt(e.address) -> e.bits_in
       [] OTHER -> data[a]]

\* A rise of the clock shifts one bit in and shows one bit.
Shifted(e, di) ==
  [e EXCEPT !.count = @ - 1, !.bits_in = Append(@, di)]

\* Slip: the bit is shown before the count has moved.
Shown_Late(e) == BitOut(e, e.count + 1)
Shown(e) == BitOut(e, e.count)

Deselect ==
  /\ ee' = Unselected(ee)
  /\ UNCHANGED <<data, port>>

\* The chip is selected: a rise of the clock, or any other change of a pin.
Selected(pins) ==
  IF pins.clk = 1 /\ ee.clock = 0
  THEN LET e == Shifted(ee, pins.di)
       IN  /\ port' = Shown(e)
           /\ ee' = [(IF e.count = 0 THEN FieldDone(e) ELSE e) EXCEPT !.clock = pins.clk]
           /\ data' = IF e.count = 0 THEN Written(e) ELSE data
  ELSE /\ ee' = [ee EXCEPT !.clock = pins.clk]
       /\ UNCHANGED <<data, port>>

-----------------------------------------------------------------------------
(***************************************************************************)
(* What the commands mean: a function of all the bits heard since the chip *)
(* was selected, a start bit, two bits of opcode, the address and a word.  *)
(* A chip selected while the clock is high hears a bit at once.            *)
(***************************************************************************)
Rise(pins) == pins.cs = 1 /\ pins.clk = 1 /\ (latch.cs = 0 \/ latch.clk = 0)
Complete == 3 + AddrBits + DataBits
OpcodeOf(h)  == SubSeq(h, 2, 3)
AddressOf(h) == SubSeq(h, 4, 3 + AddrBits)
WordOf(h)    == SubSeq(h, 4 + AddrBits, Complete)
Command(h, length) == Len(h) = length /\ h[1] = 1

Hearing(pins) ==
  IF pins.cs = 0 THEN <<>>
  ELSE IF Rise(pins) /\ Len(heard) < Complete /\ heard # <<0>> THEN Append(heard, pins.di)
  ELSE heard

\* h is what has been heard once a new bit is in.
Meaning(h) ==
  LET ready   == Command(h, 3 + AddrBits)
      special == OpcodeOf(h) = <<0, 0>>
      select  == SubSeq(AddressOf(h), 1, 2)
  IN  /\ enabled' = IF ready /\ special /\ select \in {<<0, 0>>, <<1, 1>>}
                    THEN select = <<1, 1>> ELSE enabled
      /\ store' = IF ~enabled THEN store ELSE [a \in Addr |->
           CASE ready /\ special /\ select = <<1, 0>> -> Zero
             [] ready /\ OpcodeOf(h) = <<1, 1>> /\ a = WordAt(AddressOf(h)) -> Zero
             [] Command(h, Complete) /\ special /\ select = <<0, 1>> -> HostOrder(WordOf(h))
             [] Command(h, Complete) /\ OpcodeOf(h) = <<0, 1>> /\ a = WordAt(AddressOf(h)) -> WordOf(h)
             [] OTHER -> store[a]]

\* starlet_gpio1_latch_write calls the chip when one of its pins changes.
WriteLatch(pins) ==
  /\ pins # latch
  /\ latch' = pins
  /\ IF pins.cs = 0 THEN Deselect ELSE Selected(pins)
  /\ heard' = Hearing(pins)
  /\ IF heard' = heard THEN UNCHANGED <<enabled, store>> ELSE Meaning(heard')

Next == \E pins \in [cs : Bit, clk : Bit, di : Bit] : WriteLatch(pins)

Spec == Init /\ [][Next]_vars

-----------------------------------------------------------------------------
(* Properties.                                                              *)

\* The bit counter, unsigned in the code, never passes zero, and counts down
\* the field that is being shifted in.
SeepromTypeOK ==
  /\ ee.state \in {"dead", "start", "opcode", "address", "data"}
  /\ ee.count \in 1..FieldBits(ee.state)
  /\ ee.count + Len(ee.bits_in) = FieldBits(ee.state)
  /\ ee.clock \in Bit /\ ee.wren \in BOOLEAN /\ port \in Bit
  /\ data \in [Addr -> Word]

\* The words and the write enable are what the commands heard in full have made
\* of them: a command cut short by the chip select, an incomplete word, bits
\* after the end of a command and commands while writing is disabled do nothing.
StoredAsHeard == data = store /\ ee.wren = enabled

\* A read shows the bits of the addressed word in order, one at each rise of the
\* clock after the address.
ShownAsStored ==
  Len(heard) > 3 + AddrBits /\ heard[1] = 1 /\ OpcodeOf(heard) = <<1, 0>> =>
    port = store[WordAt(AddressOf(heard))][Len(heard) - 3 - AddrBits]
=============================================================================
