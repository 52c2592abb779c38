------------------------------ MODULE NandFlash ------------------------------
(***************************************************************************)
(* The large-block NAND chip (nandflash_largeblock.c) behind the Starlet's *)
(* controller (dev_nandflash_starlet.c).  One write of the guest to NFCMD  *)
(* sends a command, the address cycles it selects and the data, all within *)
(* the handler.  A byte is the set of its bits, so programming intersects; *)
(* in an address it is a number.  Error correction codes, the NAND         *)
(* interrupt (a device of StarletIrq) and the values read in any state but *)
(* DATAREAD are left out, and so are the chip enable and write protect     *)
(* pins, which never move once the controller is set up.                   *)
(***************************************************************************)
EXTENDS Naturals, Sequences

CONSTANTS
  Bits,           \* the bits of a byte
  Radix,          \* of an address byte: 256 in the code
  PageBytes,      \* pagedumpsize: bytes of a page, spare area included
  PageCount,      \* pages of the chip
  PagesPerBlock,  \* 64 in the code
  Pages           \* the pages the guest addresses

Byte == SUBSET Bits
Erased == Bits    \* 0xFF
Offsets == 0..(PageBytes - 1)
AllPages == 0..(PageCount - 1)
ChipBytes == PageCount * PageBytes     \* devicesize
Block(page) == page \div PagesPerBlock

\* Two bytes of address hold an offset, three hold a page number.
ASSUME NandAssumption ==
  /\ Radix \in Nat \ {0, 1}
  /\ PageBytes \in 1..(Radix * Radix)
  /\ PageCount \in 1..(Radix * Radix * Radix)
  /\ PagesPerBlock \in Nat \ {0}
  /\ Pages \subseteq AllPages

VARIABLES
  nf,          \* struct nandflash_lb_status: command, cycle, position, write buffer
  addrspace,   \* the dump file: the bytes of every page
  asked,       \* ghost: the operation the commands so far have built up
  flash        \* ghost: what the operations asked for have made of the chip

vars == <<nf, addrspace, asked, flash>>

Cycles == {"none", "1st", "2nd", "3rd", "4th", "5th", "finish", "status",
           "id1", "id2", "id3", "id4"}
Modes  == {"CMD", "ADDR", "DATAREAD", "DATAWRITE", "STATUSREAD", "IDREAD", "NONE"}
Blank  == [o \in Offsets |-> Erased]
Nothing == [kind |-> "none"]

\* A new dump file is all ones; poweron leaves the last command at READ0.
Init ==
  /\ nf = [cmd |-> "READ0", cmdstatus |-> "none", iostatus |-> "NONE",
           pagenum |-> 0, pageoffset |-> 0, writebuffer |-> Blank]
  /\ addrspace = [p \in AllPages |-> Blank]
  /\ asked = Nothing
  /\ flash = addrspace

-----------------------------------------------------------------------------
(* The chip, one operator per nandflash_lb_do...                            *)

Start(n, cmd, cycle) ==
  [n EXCEPT !.cmd = cmd, !.cmdstatus = cycle, !.iostatus = "ADDR", !.pagenum = 0, !.pageoffset = 0]

\* Slip: loading a page starts from what the last page left in the buffer.
SeqIn_KeepsBuffer(n) == Start(n, "SEQIN", "1st")
SeqIn(n)   == [Start(n, "SEQIN", "1st") EXCEPT !.writebuffer = Blank]
RandIn(n)  == [n EXCEPT !.cmd = "RANDIN", !.cmdstatus = "1st", !.iostatus = "ADDR"]
\* Slip: asking for the status also rewinds the position.
Status_Rewinds(n) ==
  [n EXCEPT !.cmd = "STATUS", !.cmdstatus = "status", !.iostatus = "STATUSREAD", !.pageoffset = 0]
Status(n)  == [n EXCEPT !.cmd = "STATUS", !.cmdstatus = "status", !.iostatus = "STATUSREAD"]
Restart(n) ==
  [n EXCEPT !.cmd = "READ0", !.cmdstatus = "none", !.iostatus = "NONE",
            !.pageoffset = 0, !.writebuffer = Blank]

Programs(n) == n.cmd \in {"SEQIN", "RANDIN"} /\ n.cmdstatus = "finish"
Erases(n)   == n.cmd = "ERASE1" /\ n.cmdstatus = "finish"

\* nandflash_lb_docmd: the command pin selects CMD, which stays where the
\* command does not select another mode.
DoCmd(n, cmd) ==
  LET c == [n EXCEPT !.iostatus = "CMD"]
  IN CASE cmd = "READ0"    -> Start(c, "READ0", "1st")
       [] cmd = "READ0b"   -> [c EXCEPT !.iostatus = "DATAREAD"]
       [] cmd = "RESET"    -> Restart(c)
       [] cmd = "SEQIN"    -> SeqIn(c)
       [] cmd = "RANDIN"   -> RandIn(c)
       [] cmd = "ERASE1"   -> Start(c, "ERASE1", "3rd")
       [] cmd = "ERASE2"   -> [c EXCEPT !.cmd = "none"]
       [] cmd = "STATUS"   -> Status(c)
       [] cmd = "READID"   -> Start(c, "READID", "5th")
       [] cmd = "PAGEPROG" -> IF Programs(c) THEN [c EXCEPT !.cmd = "PAGEPROG"] ELSE c

\* What docmd does to the contents: finishwrite ands the buffer in, doerase
\* fills the block.
Contents(n, cmd) ==
  [p \in AllPages |->
     IF cmd = "PAGEPROG" /\ Programs(n) /\ p = n.pagenum
     THEN [o \in Offsets |-> addrspace[p][o] \cap n.writebuffer[o]]
     ELSE IF cmd = "ERASE2" /\ Erases(n) /\ Block(p) = Block(n.pagenum)
     THEN Blank
     ELSE addrspace[p]]

\* nandflash_lb_doaddr: the fifth cycle of a read leaves the chip at that cycle.
\* The bits a cycle ors in are clear, since the command cleared both numbers
\* and a guest gives no more than five cycles: the sum is the disjunction.
DoAddr(n, byte) ==
  LET a == [n EXCEPT !.iostatus = "ADDR"]
      column(cycle, mode) ==
        [a EXCEPT !.pageoffset = @ + Radix * byte, !.cmdstatus = cycle, !.iostatus = mode]
      row(cycle, mode) ==
        [a EXCEPT !.pagenum = @ + Radix * Radix * byte, !.cmdstatus = cycle, !.iostatus = mode]
  IN CASE a.cmdstatus = "1st" -> [a EXCEPT !.pageoffset = byte, !.cmdstatus = "2nd"]
       [] a.cmdstatus = "2nd" /\ a.cmd = "RANDIN" -> column("finish", "DATAWRITE")
       [] a.cmdstatus = "2nd" /\ a.cmd # "RANDIN" -> column("3rd", "ADDR")
       [] a.cmdstatus = "3rd" -> [a EXCEPT !.pagenum = byte, !.cmdstatus = "4th"]
       [] a.cmdstatus = "4th" -> [a EXCEPT !.pagenum = @ + Radix * byte, !.cmdstatus = "5th"]
       [] a.cmdstatus = "5th" /\ a.cmd = "SEQIN"  -> row("finish", "DATAWRITE")
       [] a.cmdstatus = "5th" /\ a.cmd = "READID" -> row("id1", "IDREAD")
       [] a.cmdstatus = "5th" /\ a.cmd = "ERASE1" -> row("finish", "CMD")
       [] a.cmdstatus = "5th" /\ a.cmd = "READ0"  -> row("5th", "ADDR")
       [] OTHER -> a

DoDataWrite(n, byte) ==
  IF n.iostatus = "DATAWRITE"
  THEN [n EXCEPT !.writebuffer[n.pageoffset] = byte, !.pageoffset = @ + 1]
  ELSE n

\* Slip: the position runs on at the end of a page.
DoRead_NoWrap(n) == IF n.iostatus = "DATAREAD" THEN [n EXCEPT !.pageoffset = @ + 1] ELSE n
\* nandflash_lb_doread: the position moves on to the next page, and stays at
\* the end of the chip.  The last of the four identification bytes that
\* doreadid gives ends the mode.
DoRead(n) ==
  CASE n.iostatus = "DATAREAD" /\ n.pagenum * PageBytes + n.pageoffset < ChipBytes ->
         IF n.pageoffset + 1 = PageBytes
         THEN [n EXCEPT !.pagenum = @ + 1, !.pageoffset = 0]
         ELSE [n EXCEPT !.pageoffset = @ + 1]
    [] n.iostatus = "IDREAD" /\ n.cmdstatus = "id1" -> [n EXCEPT !.cmdstatus = "id2"]
    [] n.iostatus = "IDREAD" /\ n.cmdstatus = "id2" -> [n EXCEPT !.cmdstatus = "id3"]
    [] n.iostatus = "IDREAD" /\ n.cmdstatus = "id3" -> [n EXCEPT !.cmdstatus = "id4"]
    [] n.iostatus = "IDREAD" /\ n.cmdstatus = "id4" ->
         [n EXCEPT !.cmdstatus = "none", !.iostatus = "NONE"]
    [] OTHER -> n

-----------------------------------------------------------------------------
(* The controller: command, address cycles, data.                           *)

\* The five address bytes that NFADDR0 and NFADDR1 hold for a place in a page.
AddressBytes(page, offset) ==
  <<offset % Radix, offset \div Radix,
    page % Radix, (page \div Radix) % Radix, (page \div Radix) \div Radix>>

\* The chip after each address cycle, after each byte sent to it, and after each
\* of the first count bytes read from it.
Addressing(n, addr) ==
  LET after[i \in 0..Len(addr)] == IF i = 0 THEN n ELSE DoAddr(after[i - 1], addr[i])
  IN  after

Loading(n, data) ==
  LET after[i \in 0..Len(data)] == IF i = 0 THEN n ELSE DoDataWrite(after[i - 1], data[i])
  IN  after

Reading(n, count) ==
  LET after[i \in 0..count] == IF i = 0 THEN n ELSE DoRead(after[i - 1])
  IN  after

\* The write to NFCMD.
Command(cmd, addr, data, count) ==
  /\ LET addressed == Addressing(DoCmd(nf, cmd), addr)[Len(addr)]
         read == Reading(addressed, count)[count]
     IN  nf' = Loading(read, data)[Len(data)]
  /\ addrspace' = Contents(nf, cmd)

(***************************************************************************)
(* The guest.  It gives address cycles that may stop short, sends data only *)
(* to a page whose address is complete and within its end, adds to a page   *)
(* (RANDIN) only while loading it, and reads data (READ0b) only once it has *)
(* given READ0 a place and up to the end of the chip, since the chip checks *)
(* none of these.  The confirmations and everything else may come at any    *)
(* time.                                                                    *)
(***************************************************************************)
Data(offset) == UNION {[1..n -> Byte] : n \in 0..(PageBytes - offset)}

Loaded(buf, offset, data) ==
  [o \in Offsets |-> IF o \in offset..(offset + Len(data) - 1) THEN data[o - offset + 1] ELSE buf[o]]

Read0(page, offset, n) ==
  /\ Command("READ0", SubSeq(AddressBytes(page, offset), 1, n), <<>>, 0)
  /\ asked' = IF n = 5 THEN [kind |-> "read", at |-> page * PageBytes + offset] ELSE Nothing
  /\ UNCHANGED flash

Read0b(count) ==
  /\ asked.kind = "read"
  /\ asked.at + count <= ChipBytes
  /\ Command("READ0b", <<>>, <<>>, count)
  /\ asked' = [asked EXCEPT !.at = @ + count]
  /\ UNCHANGED flash

SeqInPage(page, offset, data, n) ==
  /\ n < 5 => data = <<>>
  /\ Command("SEQIN", SubSeq(AddressBytes(page, offset), 1, n), data, 0)
  /\ asked' = IF n = 5 THEN [kind |-> "program", page |-> page, buf |-> Loaded(Blank, offset, data)]
                       ELSE Nothing
  /\ UNCHANGED flash

RandInPage(offset, data) ==
  /\ asked.kind = "program"
  /\ Command("RANDIN", SubSeq(AddressBytes(0, offset), 1, 2), data, 0)
  /\ asked' = [asked EXCEPT !.buf = Loaded(@, offset, data)]
  /\ UNCHANGED flash

PageProg ==
  /\ Command("PAGEPROG", <<>>, <<>>, 0)
  /\ IF asked.kind = "program"
     THEN /\ flash' = [flash EXCEPT ![asked.page] = [o \in Offsets |-> @[o] \cap asked.buf[o]]]
          /\ asked' = Nothing
     ELSE UNCHANGED <<flash, asked>>

Erase1(page, n) ==
  /\ Command("ERASE1", SubSeq(AddressBytes(page, 0), 3, 2 + n), <<>>, 0)
  /\ asked' = IF n = 3 THEN [kind |-> "erase", block |-> Block(page)] ELSE Nothing
  /\ UNCHANGED flash

\* Out of place it is refused, and cancels a page that was being loaded.
Erase2 ==
  /\ Command("ERASE2", <<>>, <<>>, 0)
  /\ flash' = IF asked.kind = "erase"
              THEN [p \in AllPages |-> IF Block(p) = asked.block THEN Blank ELSE flash[p]]
              ELSE flash
  /\ asked' = IF asked.kind = "read" THEN asked ELSE Nothing

\* Looking at the status gives up a page or an erasure, but not a read.
PollStatus ==
  /\ Command("STATUS", <<>>, <<>>, 1)
  /\ asked' = IF asked.kind = "read" THEN asked ELSE Nothing
  /\ UNCHANGED flash

ReadId(n, count) ==
  /\ Command("READID", SubSeq(<<0>>, 1, n), <<>>, count)
  /\ asked' = Nothing
  /\ UNCHANGED flash

ResetChip ==
  /\ Command("RESET", <<>>, <<>>, 0)
  /\ asked' = Nothing
  /\ UNCHANGED flash

Next ==
  \/ \E page \in Pages, offset \in Offsets, n \in 0..5 : Read0(page, offset, n)
  \/ \E count \in 0..PageBytes : Read0b(count)
  \/ \E page \in Pages, offset \in Offsets, n \in 0..5 :
       \E data \in Data(offset) : SeqInPage(page, offset, data, n)
  \/ \E offset \in Offsets : \E data \in Data(offset) : RandInPage(offset, data)
  \/ \E page \in Pages, n \in 0..3 : Erase1(page, n)
  \/ \E n \in 0..1, count \in 0..4 : ReadId(n, count)
  \/ PageProg \/ Erase2 \/ PollStatus \/ ResetChip

Spec == Init /\ [][Next]_vars

-----------------------------------------------------------------------------
(* Properties.                                                              *)

\* The position stays within a page, however much is read or loaded.
NandTypeOK ==
  /\ nf.cmd \in {"READ0", "SEQIN", "RANDIN", "PAGEPROG", "ERASE1", "STATUS", "READID", "none"}
  /\ nf.cmdstatus \in Cycles /\ nf.iostatus \in Modes
  /\ nf.pagenum \in 0..PageCount /\ nf.pageoffset \in 0..PageBytes
  /\ nf.writebuffer \in [Offsets -> Byte]
  /\ addrspace \in [AllPages -> [Offsets -> Byte]]

\* The chip holds what was asked of it and nothing else: a page takes the bytes
\* given since its own SEQIN, an erasure fills its block, and a confirmation
\* that comes too early, twice, or after a command that gave the operation up
\* changes nothing.
StoredAsAsked == addrspace = flash

\* Reading goes on from the place that was asked for, over the end of the page
\* and past status polls and refused confirmations in between.
ReadAsAsked ==
  asked.kind = "read" =>
    LET at == Reading(DoCmd(nf, "READ0b"), PageBytes)
    IN  \A i \in 0..(PageBytes - 1) :
          asked.at + i < ChipBytes =>
            at[i].pagenum * PageBytes + at[i].pageoffset = asked.at + i
=============================================================================
