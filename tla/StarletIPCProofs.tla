-------------------------- MODULE StarletIPCProofs --------------------------
(***************************************************************************)
(* For any number of slots, requests, scripts, reboots and changes of the  *)
(* PowerPC's state: what the bridge, the mailbox, the guest's driver and   *)
(* the scripts can rely on, whatever the order of their steps.             *)
(***************************************************************************)
EXTENDS StarletIPC, FiniteSetTheorems, SequenceTheorems, TLAPS

-----------------------------------------------------------------------------
(* Types.                                                                   *)

Block == [what : {"none", "req", "res"}, id : Nat]
Message == [msg : {"MESSAGE", "ACK", "STATUS", "READ", "WRITE", "EXIT"}, arg : Nat, buf : Block]
ToBridge == {m \in Message : m.msg \in {"MESSAGE", "READ", "WRITE"} => m.arg \in Slots}
ToClient == {m \in Message : m.msg = "STATUS" => m.arg \in {0, 1}}

IoType ==
  [ppcctrl : SUBSET CtrlBits, armctrl : SUBSET CtrlBits, ppcmsg : Nat, armmsg : Nat,
   irq_active : SUBSET Nat, irq_active_ppc : SUBSET Nat, irq_enabled : SUBSET Nat,
   irqLow : BOOLEAN, ppc_running : {0, 1}]
BridgeType ==
  [ipcs : {"INIT", "ACCEPT", "IDLE", "SNDACK"}, bsock : 0..MaxConn, last : {0, 1},
   exited : BOOLEAN]
GuestType ==
  [pc : {"boot", "run", "irq", "eoi"}, ctrl : SUBSET CtrlBits,
   todo : SUBSET [slot : Slots, id : Nat]]
NetType ==
  [up : [Conns -> {"no", "up", "closed"}], c2s : [Conns -> Seq(ToBridge)],
   s2c : [Conns -> Seq(ToClient)]]
ClientType ==
  [conn : 0..MaxConn, phase : {"off", "init", "ready", "waitdead", "waitalive", "leaving"},
   requests : [Slots -> Nat], stack : Seq(Slots), acks : Nat, ppcstat : {0, 1}]
HistType ==
  [issued : Nat, taken : Seq(Block), results : [Ids -> Block], reloads : Nat,
   launched : Nat, flips : Nat, races : SUBSET {"resent", "reacked", "orphan", "nested"}]

IpcType ==
  /\ io \in IoType /\ mem \in [Slots -> Block] /\ bridge \in BridgeType
  /\ guest \in GuestType /\ net \in NetType /\ client \in ClientType /\ hist \in HistType

-----------------------------------------------------------------------------
(* What is on its way to a script.                                           *)

\* Messages to a script: none of them is a status; the last status is v; every
\* status says that the PowerPC is off; the places of the messages of a type.
Silent(s) == \A i \in 1..Len(s) : s[i].msg # "STATUS"
Reports(s, v) ==
  \E i \in 1..Len(s) : /\ s[i].msg = "STATUS" /\ s[i].arg = v
                       /\ \A j \in 1..Len(s) : j > i => s[j].msg # "STATUS"
SaysOff(s) == \A i \in 1..Len(s) : s[i].msg = "STATUS" => s[i].arg = 0
Knows(s, stat, v) == (Silent(s) /\ stat = v) \/ Reports(s, v)
Of(s, type) == {i \in 1..Len(s) : s[i].msg = type}

-----------------------------------------------------------------------------
(* The inductive invariant.                                                 *)

MirrorInv == Mirrored(io.ppcctrl, io.armctrl) /\ Mirrored(io.armctrl, io.ppcctrl)

\* The connections, oldest first: the script's is the last one, and the bridge
\* is not ahead of it.
LinkInv ==
  /\ bridge.bsock <= client.conn
  /\ \A k \in Conns :
       /\ net.up[k] = "no" <=> k > client.conn
       /\ net.up[k] = "up" <=> k = client.conn /\ client.phase # "off"
       /\ k > client.conn => net.c2s[k] = <<>>
       /\ k > bridge.bsock => net.s2c[k] = <<>>
  /\ bridge.ipcs \in {"IDLE", "SNDACK"} => bridge.bsock > 0
  /\ client.conn = 0 => client.phase = "off" /\ Outstanding = {}

\* Before the bridge's first pass nothing has happened to the mailbox.
InitInv ==
  IF bridge.ipcs = "INIT"
  THEN /\ io.ppcctrl = {} /\ io.armctrl \subseteq Irqs /\ ~io.irqLow
       /\ guest.pc \in {"boot", "run"} /\ guest.todo = {} /\ client.conn = 0
  ELSE Irqs \subseteq io.ppcctrl

\* Before the guest has booted no script has been told that it has.
BootInv ==
  guest.pc = "boot" =>
    /\ io.ppc_running = 0 /\ io.armctrl \cap {Sent, Acked} = {} /\ bridge.ipcs # "SNDACK"
    /\ client.phase \in {"off", "init"} /\ Outstanding = {}
    /\ \A k \in Conns : net.c2s[k] = <<>> /\ SaysOff(net.s2c[k])

\* The flags that the interrupt handler has read hold those that stand.
DriverInv == guest.pc = "irq" => io.armctrl \cap {Sent, Acked} \subseteq guest.ctrl

\* A message the guest can see has an address.
SlotInv ==
  PeerSent \in io.armctrl \/ (guest.pc = "irq" /\ PeerSent \in guest.ctrl) => io.ppcmsg \in Slots

ControlInv ==
  IpcType /\ MirrorInv /\ LinkInv /\ InitInv /\ BootInv /\ DriverInv /\ SlotInv /\ AckOwed

\* A message of the guest and an acknowledgement stand together only while the
\* bridge waits in SNDACK.
Reads(bits) == guest.pc = "irq" /\ bits \subseteq guest.ctrl
CrossInv ==
  ~bridge.exited =>
    /\ PeerSent \in io.armctrl => bridge.ipcs = "SNDACK"
    /\ {Sent, Acked} \subseteq io.armctrl => bridge.ipcs = "SNDACK" /\ io.armctrl \cap Latched = {}
    /\ Reads({Sent, Acked}) => guest.ctrl \cap Latched = {}
    /\ Reads({Sent, PeerSent}) =>
         /\ bridge.ipcs = "SNDACK" /\ PeerSent \in io.armctrl /\ Acked \notin io.armctrl
         /\ PeerAcked \in io.armctrl => PeerAcked \in guest.ctrl

\* Reboots the script knows of or will be told of.
Told ==
  hist.launched + client.acks
    + IF client.conn = 0 THEN 0 ELSE Cardinality(Of(net.s2c[client.conn], "ACK"))
Announced == IF Acked \in io.armctrl /\ bridge.ipcs # "SNDACK" THEN 1 ELSE 0
ReloadInv ==
  "reacked" \notin hist.races =>
    /\ Told <= hist.reloads
    /\ ~bridge.exited =>
         /\ Told + Announced <= hist.reloads
         /\ Reads({PeerSent}) /\ Acked \notin guest.ctrl =>
              bridge.ipcs = "SNDACK" /\ PeerSent \in io.armctrl /\ Acked \notin io.armctrl

\* The last status on its way to the script, or the one it knows, is the
\* bridge's.
StatusInv ==
  LET k == bridge.bsock
  IN bridge.ipcs \in {"IDLE", "SNDACK"} /\ client.conn = k /\ client.phase # "off" =>
       Knows(net.s2c[k], client.ppcstat, bridge.last)

Inv == ControlInv /\ StatusInv /\ (~SigPipeIgnored => CrossInv /\ ReloadInv)

-----------------------------------------------------------------------------
(* The registers.                                                           *)

Coherent(r) == Mirrored(r.ppcctrl, r.armctrl) /\ Mirrored(r.armctrl, r.ppcctrl)

\* Two states of the registers that differ in interrupts only.
SameMailbox(q, r) ==
  /\ q.ppcctrl = r.ppcctrl /\ q.armctrl = r.armctrl /\ q.ppcmsg = r.ppcmsg
  /\ q.armmsg = r.armmsg /\ q.ppc_running = r.ppc_running

LEMMA Bits ==
  /\ Sent \in CtrlBits /\ PeerAcked \in CtrlBits /\ PeerSent \in CtrlBits /\ Acked \in CtrlBits
  /\ MsgIrq \in CtrlBits /\ AckIrq \in CtrlBits /\ Irqs \subseteq CtrlBits /\ Latched \subseteq CtrlBits
  /\ Sent # PeerAcked /\ Sent # PeerSent /\ Sent # Acked /\ PeerAcked # PeerSent
  /\ PeerAcked # Acked /\ PeerSent # Acked /\ Latched = {PeerAcked, PeerSent}
  /\ Irqs = {MsgIrq, AckIrq} /\ Sent \notin Irqs /\ PeerAcked \notin Irqs
  /\ PeerSent \notin Irqs /\ Acked \notin Irqs
BY DEF CtrlBits, Irqs, Latched, Sent, PeerAcked, PeerSent, Acked, MsgIrq, AckIrq

\* The writer's register and the peer's, bit by bit.
LEMMA WriteBits ==
  ASSUME NEW own \in SUBSET CtrlBits, NEW peer \in SUBSET CtrlBits, NEW data \in SUBSET CtrlBits,
         NEW mine, mine = OwnAfterWrite(own, data), NEW its, its = PeerAfterWrite(peer, data)
  PROVE  /\ mine \in SUBSET CtrlBits /\ its \in SUBSET CtrlBits
         /\ Sent \in mine <=> Sent \in data
         /\ Acked \in mine <=> Acked \in data
         /\ PeerSent \in mine <=> PeerSent \in own /\ PeerSent \notin data
         /\ PeerAcked \in mine <=> PeerAcked \in own /\ PeerAcked \notin data
         /\ mine \cap Irqs = data \cap Irqs
         /\ Sent \in its <=> Sent \in peer /\ PeerSent \notin data
         /\ Acked \in its <=> Acked \in peer /\ PeerAcked \notin data
         /\ PeerSent \in its <=> Sent \in data
         /\ PeerAcked \in its <=> Acked \in data
         /\ its \cap Irqs = peer \cap Irqs
         /\ (Mirrored(own, peer) /\ Mirrored(peer, own)) => (Mirrored(mine, its) /\ Mirrored(its, mine))
<1>1. /\ mine \in SUBSET CtrlBits
      /\ Sent \in mine <=> Sent \in data
      /\ Acked \in mine <=> Acked \in data
      /\ PeerSent \in mine <=> PeerSent \in own /\ PeerSent \notin data
      /\ PeerAcked \in mine <=> PeerAcked \in own /\ PeerAcked \notin data
      /\ mine \cap Irqs = data \cap Irqs
  BY DEF OwnAfterWrite, CtrlBits, Irqs, Own, Latched, Sent, PeerAcked, PeerSent, Acked, MsgIrq, AckIrq
<1>2. /\ its \in SUBSET CtrlBits
      /\ Sent \in its <=> Sent \in peer /\ PeerSent \notin data
      /\ Acked \in its <=> Acked \in peer /\ PeerAcked \notin data
      /\ PeerSent \in its <=> Sent \in data
      /\ PeerAcked \in its <=> Acked \in data
      /\ its \cap Irqs = peer \cap Irqs
  BY DEF PeerAfterWrite, Signalled, Consumed, CtrlBits, Irqs, Own, Sent, PeerAcked, PeerSent, Acked,
         MsgIrq, AckIrq
<1> QED
  BY <1>1, <1>2 DEF Mirrored

\* What a write of the bridge does.
LEMMA BridgeWrite ==
  ASSUME NEW r \in IoType, Coherent(r), NEW bits \in SUBSET CtrlBits, NEW q, q = ipc_set(r, bits)
  PROVE  /\ q \in IoType /\ Coherent(q)
         /\ q.ppcmsg = r.ppcmsg /\ q.armmsg = r.armmsg /\ q.ppc_running = r.ppc_running
         /\ q.irq_active_ppc = r.irq_active_ppc
         /\ Sent \in q.ppcctrl <=> Sent \in bits
         /\ Acked \in q.ppcctrl <=> Acked \in r.ppcctrl \/ Acked \in bits
         /\ PeerSent \notin q.ppcctrl
         /\ PeerAcked \in q.ppcctrl <=> PeerAcked \in r.ppcctrl /\ PeerAcked \notin bits
         /\ Irqs \subseteq r.ppcctrl => Irqs \subseteq q.ppcctrl
         /\ q.armctrl \cap Irqs = r.armctrl \cap Irqs
<1> DEFINE data == (r.ppcctrl \cap {PeerSent, Acked, MsgIrq, AckIrq}) \cup bits
           mine == OwnAfterWrite(r.ppcctrl, data)
           its == PeerAfterWrite(r.armctrl, data)
<1>1. r.ppcctrl \in SUBSET CtrlBits /\ r.armctrl \in SUBSET CtrlBits /\ data \in SUBSET CtrlBits
  BY DEF IoType
<1>2. /\ Sent \in data <=> Sent \in bits
      /\ Acked \in data <=> Acked \in r.ppcctrl \/ Acked \in bits
      /\ PeerSent \in r.ppcctrl => PeerSent \in data
      /\ PeerAcked \in data <=> PeerAcked \in bits
      /\ Irqs \subseteq r.ppcctrl => Irqs \subseteq data
  BY DEF CtrlBits, Irqs, Sent, PeerAcked, PeerSent, Acked, MsgIrq, AckIrq
<1>3. q = [r EXCEPT !.ppcctrl = mine, !.armctrl = its]
  BY DEF ipc_set, PpcCtrlWrite
<1> HIDE DEF data, mine, its
<1>4. /\ mine \in SUBSET CtrlBits /\ its \in SUBSET CtrlBits
      /\ Sent \in mine <=> Sent \in data
      /\ Acked \in mine <=> Acked \in data
      /\ PeerSent \in mine <=> PeerSent \in r.ppcctrl /\ PeerSent \notin data
      /\ PeerAcked \in mine <=> PeerAcked \in r.ppcctrl /\ PeerAcked \notin data
      /\ mine \cap Irqs = data \cap Irqs
      /\ its \cap Irqs = r.armctrl \cap Irqs
      /\ Mirrored(mine, its) /\ Mirrored(its, mine)
  BY <1>1, WriteBits DEF Coherent, mine, its
<1>5. q \in IoType /\ q.ppcctrl = mine /\ q.armctrl = its /\ q.ppcmsg = r.ppcmsg
      /\ q.armmsg = r.armmsg /\ q.ppc_running = r.ppc_running /\ q.irq_active_ppc = r.irq_active_ppc
  BY <1>3, <1>4 DEF IoType
<1> QED
  BY <1>2, <1>4, <1>5 DEF Coherent

\* What a write of the guest does.
LEMMA GuestWrite ==
  ASSUME NEW r \in IoType, Coherent(r), NEW data \in SUBSET CtrlBits, NEW q, q = ArmCtrlWrite(r, data)
  PROVE  /\ q \in IoType /\ Coherent(q)
         /\ q.ppcmsg = r.ppcmsg /\ q.armmsg = r.armmsg /\ q.ppc_running = r.ppc_running
         /\ q.irqLow = r.irqLow
         /\ Sent \in q.armctrl <=> Sent \in data
         /\ Acked \in q.armctrl <=> Acked \in data
         /\ PeerSent \in q.armctrl <=> PeerSent \in r.armctrl /\ PeerSent \notin data
         /\ PeerAcked \in q.armctrl <=> PeerAcked \in r.armctrl /\ PeerAcked \notin data
         /\ q.ppcctrl \cap Irqs = r.ppcctrl \cap Irqs
<1> DEFINE mine == OwnAfterWrite(r.armctrl, data)
           its == PeerAfterWrite(r.ppcctrl, data)
<1>1. r.ppcctrl \in SUBSET CtrlBits /\ r.armctrl \in SUBSET CtrlBits
  BY DEF IoType
<1>2. q = [r EXCEPT !.armctrl = mine, !.ppcctrl = its]
  BY DEF ArmCtrlWrite
<1> HIDE DEF mine, its
<1>3. /\ mine \in SUBSET CtrlBits /\ its \in SUBSET CtrlBits
      /\ Sent \in mine <=> Sent \in data
      /\ Acked \in mine <=> Acked \in data
      /\ PeerSent \in mine <=> PeerSent \in r.armctrl /\ PeerSent \notin data
      /\ PeerAcked \in mine <=> PeerAcked \in r.armctrl /\ PeerAcked \notin data
      /\ its \cap Irqs = r.ppcctrl \cap Irqs
      /\ Mirrored(mine, its) /\ Mirrored(its, mine)
  BY <1>1, WriteBits DEF Coherent, mine, its
<1>4. /\ q \in IoType /\ q.ppcctrl = its /\ q.armctrl = mine /\ q.ppcmsg = r.ppcmsg
      /\ q.armmsg = r.armmsg /\ q.ppc_running = r.ppc_running /\ q.irqLow = r.irqLow
  BY <1>2, <1>3 DEF IoType
<1> QED
  BY <1>3, <1>4 DEF Coherent

\* Looking at the interrupts leaves the mailbox alone, and a flag that is
\* allowed to interrupt the bridge does.
LEMMA UpdateMailbox ==
  ASSUME NEW r \in IoType, NEW q, q = ipc_update_int(r)
  PROVE  /\ q \in IoType /\ SameMailbox(q, r)
         /\ Irqs \subseteq r.ppcctrl /\ (PeerSent \in r.ppcctrl \/ PeerAcked \in r.ppcctrl)
              => PpcIrq \in q.irq_active_ppc
<1> DEFINE raised(x, n) == update_int(set_intr(x, n))
           p == IF Flagged(r.ppcctrl)
                THEN update_int(IF PpcIrq \in r.irq_active_ppc THEN r ELSE set_intr(r, PpcIrq))
                ELSE r
<1>1. ASSUME NEW x \in IoType
      PROVE  /\ update_int(x) \in IoType /\ SameMailbox(update_int(x), x)
             /\ update_int(x).irq_active_ppc = x.irq_active_ppc
  BY DEF update_int, IoType, SameMailbox
<1>2. ASSUME NEW x \in IoType, NEW n \in Nat
      PROVE  /\ set_intr(x, n) \in IoType /\ SameMailbox(set_intr(x, n), x)
             /\ set_intr(x, n).irq_active_ppc = x.irq_active_ppc \cup {n}
  BY DEF set_intr, IoType, SameMailbox
<1>3. PpcIrq \in Nat /\ ArmIrq \in Nat
  BY DEF PpcIrq, ArmIrq
<1>4. p \in IoType /\ SameMailbox(p, r) /\ (Flagged(r.ppcctrl) => PpcIrq \in p.irq_active_ppc)
  <2>1. CASE ~Flagged(r.ppcctrl)
    BY <2>1 DEF SameMailbox
  <2>2. CASE Flagged(r.ppcctrl) /\ PpcIrq \in r.irq_active_ppc
    BY <1>1, <2>2
  <2>3. CASE Flagged(r.ppcctrl) /\ PpcIrq \notin r.irq_active_ppc
    <3> DEFINE y == set_intr(r, PpcIrq)
    <3>1. y \in IoType /\ SameMailbox(y, r) /\ PpcIrq \in y.irq_active_ppc /\ p = update_int(y)
      BY <1>2, <1>3, <2>3
    <3> HIDE DEF y, p
    <3> QED
      BY <1>1, <3>1 DEF SameMailbox
  <2> QED
    BY <2>1, <2>2, <2>3
<1>5. q = IF Flagged(p.armctrl) THEN update_int(IF ArmIrq \in p.irq_active THEN p ELSE set_intr(p, ArmIrq))
          ELSE p
  BY DEF ipc_update_int
<1> HIDE DEF p
<1>6. q \in IoType /\ SameMailbox(q, p) /\ p.irq_active_ppc \subseteq q.irq_active_ppc
  <2>1. CASE ~Flagged(p.armctrl)
    BY <1>4, <1>5, <2>1 DEF SameMailbox
  <2>2. CASE Flagged(p.armctrl) /\ ArmIrq \in p.irq_active
    BY <1>1, <1>4, <1>5, <2>2
  <2>3. CASE Flagged(p.armctrl) /\ ArmIrq \notin p.irq_active
    <3> DEFINE y == set_intr(p, ArmIrq)
    <3>1. y \in IoType /\ SameMailbox(y, p) /\ p.irq_active_ppc \subseteq y.irq_active_ppc /\ q = update_int(y)
      BY <1>2, <1>3, <1>4, <1>5, <2>3
    <3> HIDE DEF y
    <3> QED
      BY <1>1, <3>1 DEF SameMailbox
  <2> QED
    BY <2>1, <2>2, <2>3
<1>7. Irqs \subseteq r.ppcctrl /\ (PeerSent \in r.ppcctrl \/ PeerAcked \in r.ppcctrl) => Flagged(r.ppcctrl)
  BY DEF Flagged, Irqs
<1> QED
  BY <1>4, <1>6, <1>7 DEF SameMailbox

LEMMA ClearMailbox ==
  ASSUME NEW r \in IoType, NEW q, q = ClearPpcIrq(r)
  PROVE  q \in IoType /\ SameMailbox(q, r)
BY DEF ClearPpcIrq, IoType, SameMailbox

LEMMA SameCoherent ==
  ASSUME NEW q, NEW r, SameMailbox(q, r), Coherent(r)
  PROVE  Coherent(q)
BY DEF SameMailbox, Coherent

-----------------------------------------------------------------------------
(* The passes of the bridge.                                                *)

\* The registers as a pass finds them.
LEMMA EntryIs ==
  ASSUME IpcType, MirrorInv
  PROVE  /\ Entry \in IoType /\ SameMailbox(Entry, io) /\ Coherent(Entry)
         /\ Irqs \subseteq io.ppcctrl /\ (PeerSent \in io.ppcctrl \/ PeerAcked \in io.ppcctrl)
              => PpcIrq \in Entry.irq_active_ppc
<1>1. io \in IoType /\ Coherent(io)
  BY DEF IpcType, MirrorInv, Coherent
<1> QED
  BY <1>1, UpdateMailbox, SameCoherent DEF Entry

\* The registers as a pass leaves them.
LEMMA LeaveIs ==
  ASSUME NEW r \in IoType, Coherent(r), Leave(r)
  PROVE  io' \in IoType /\ SameMailbox(io', r) /\ MirrorInv'
<1>1. io' \in IoType /\ SameMailbox(io', r)
  BY UpdateMailbox DEF Leave
<1> QED
  BY <1>1, SameCoherent DEF Coherent, MirrorInv

\* An idle pass takes what the guest has sent: an acknowledgement first, and
\* then a message, which an acknowledgement taken withdraws.
LEMMA IdleTakes ==
  ASSUME IpcType, MirrorInv, Irqs \subseteq io.ppcctrl,
         NEW q, q = TakeMessage(Entry) \/ q = IdleRegs(Entry)
  PROVE  /\ q \in IoType /\ Coherent(q) /\ Irqs \subseteq q.ppcctrl
         /\ q.ppcmsg = io.ppcmsg /\ q.armmsg = io.armmsg /\ q.ppc_running = io.ppc_running
         /\ PeerSent \notin q.ppcctrl /\ PeerAcked \notin q.ppcctrl
         /\ Sent \in q.ppcctrl => Sent \in io.ppcctrl
         /\ ExtraAck(Entry) <=> PeerAcked \in io.ppcctrl
         /\ NewMessage(Entry) <=> PeerSent \in io.ppcctrl /\ PeerAcked \notin io.ppcctrl
<1> DEFINE e == Entry
           a == TakeAck(e)
           m == TakeMessage(e)
<1>1. /\ e \in IoType /\ SameMailbox(e, io) /\ Coherent(e) /\ Irqs \subseteq e.ppcctrl
      /\ PeerSent \in io.ppcctrl \/ PeerAcked \in io.ppcctrl => PpcIrq \in e.irq_active_ppc
  BY EntryIs DEF SameMailbox
<1> HIDE DEF e
<1>2. ExtraAck(e) <=> PeerAcked \in io.ppcctrl
  BY <1>1 DEF ExtraAck, SameMailbox
<1>3. /\ a \in IoType /\ Coherent(a) /\ Irqs \subseteq a.ppcctrl
      /\ a.ppcmsg = io.ppcmsg /\ a.armmsg = io.armmsg /\ a.ppc_running = io.ppc_running
      /\ PeerAcked \notin a.ppcctrl /\ (Sent \in a.ppcctrl => Sent \in io.ppcctrl)
      /\ PeerSent \in a.ppcctrl <=> PeerSent \in io.ppcctrl /\ PeerAcked \notin io.ppcctrl
  <2>1. CASE ~ExtraAck(e)
    BY <1>1, <1>2, <2>1 DEF TakeAck, SameMailbox
  <2>2. CASE ExtraAck(e)
    <3>1. a = ipc_set(e, {PeerAcked}) /\ {PeerAcked} \in SUBSET CtrlBits
      BY <2>2, Bits DEF TakeAck
    <3> HIDE DEF a
    <3>2. Sent \notin {PeerAcked} /\ PeerAcked \in {PeerAcked}
      BY Bits
    <3> QED
      BY <1>1, <1>2, <2>2, <3>1, <3>2, BridgeWrite DEF SameMailbox
  <2> QED
    BY <2>1, <2>2
<1>4. NewMessage(e) <=> PeerSent \in io.ppcctrl /\ PeerAcked \notin io.ppcctrl
  BY <1>1, <1>3 DEF NewMessage
<1> HIDE DEF a
<1>5. /\ m \in IoType /\ Coherent(m) /\ Irqs \subseteq m.ppcctrl
      /\ m.ppcmsg = io.ppcmsg /\ m.armmsg = io.armmsg /\ m.ppc_running = io.ppc_running
      /\ PeerSent \notin m.ppcctrl /\ PeerAcked \notin m.ppcctrl
      /\ Sent \in m.ppcctrl => Sent \in io.ppcctrl
  <2>1. CASE ~NewMessage(e)
    BY <1>3, <1>4, <2>1 DEF TakeMessage, a
  <2>2. CASE NewMessage(e)
    <3>1. m = ipc_set(a, {PeerSent, Acked}) /\ {PeerSent, Acked} \in SUBSET CtrlBits
      BY <2>2, Bits DEF TakeMessage, a
    <3> HIDE DEF m
    <3>2. Sent \notin {PeerSent, Acked}
      BY Bits
    <3> QED
      BY <1>3, <3>1, <3>2, BridgeWrite
  <2> QED
    BY <2>1, <2>2
<1> HIDE DEF m
<1>6. CASE q = m
  BY <1>2, <1>4, <1>5, <1>6 DEF e
<1>7. CASE q = ClearPpcIrq(m)
  <2>1. q \in IoType /\ SameMailbox(q, m) /\ Coherent(q)
    BY <1>5, <1>7, ClearMailbox, SameCoherent
  <2> QED
    BY <1>2, <1>4, <1>5, <2>1 DEF e, SameMailbox
<1> QED
  BY <1>6, <1>7 DEF m, e, IdleRegs

LEMMA InitPass ==
  ASSUME IpcType, MirrorInv, InitInv, PassInit
  PROVE  /\ io' \in IoType /\ MirrorInv' /\ Irqs \subseteq io'.ppcctrl
         /\ io'.ppcmsg = io.ppcmsg /\ io'.armmsg = io.armmsg /\ io'.ppc_running = io.ppc_running
         /\ Sent \notin io'.ppcctrl /\ Acked \notin io'.ppcctrl
         /\ PeerSent \notin io'.ppcctrl /\ PeerAcked \notin io'.ppcctrl
<1> DEFINE e == Entry
           data == {PeerAcked, PeerSent, MsgIrq, AckIrq}
           q == PpcCtrlWrite(e, data)
           mine == OwnAfterWrite(e.ppcctrl, data)
           its == PeerAfterWrite(e.armctrl, data)
<1>1. e \in IoType /\ SameMailbox(e, io) /\ Coherent(e)
  BY EntryIs
<1>2. q = [e EXCEPT !.ppcctrl = mine, !.armctrl = its] /\ Leave(q)
  BY DEF PassInit, InitRegs, PpcCtrlWrite
<1>3. e.ppcctrl \in SUBSET CtrlBits /\ e.armctrl \in SUBSET CtrlBits /\ data \in SUBSET CtrlBits
  BY <1>1, Bits DEF IoType
<1>4. Sent \notin data /\ Acked \notin data /\ PeerSent \in data /\ PeerAcked \in data /\ Irqs \subseteq data
  BY DEF Irqs, Sent, PeerAcked, PeerSent, Acked, MsgIrq, AckIrq
<1> HIDE DEF e, data, q, mine, its
<1>5. /\ mine \in SUBSET CtrlBits /\ its \in SUBSET CtrlBits
      /\ Sent \notin mine /\ Acked \notin mine /\ PeerSent \notin mine /\ PeerAcked \notin mine
      /\ Irqs \subseteq mine /\ Mirrored(mine, its) /\ Mirrored(its, mine)
  BY <1>1, <1>3, <1>4, WriteBits DEF Coherent, mine, its
<1>6. /\ q \in IoType /\ q.ppcctrl = mine /\ q.armctrl = its /\ q.ppcmsg = e.ppcmsg
      /\ q.armmsg = e.armmsg /\ q.ppc_running = e.ppc_running
  BY <1>1, <1>2, <1>5 DEF IoType
<1>7. io' \in IoType /\ SameMailbox(io', q) /\ MirrorInv'
  BY <1>2, <1>5, <1>6, LeaveIs DEF Coherent
<1> QED
  BY <1>1, <1>5, <1>6, <1>7 DEF SameMailbox

LEMMA AcceptPass ==
  ASSUME IpcType, MirrorInv, Leave(Entry)
  PROVE  io' \in IoType /\ SameMailbox(io', io) /\ MirrorInv'
<1>1. Entry \in IoType /\ SameMailbox(Entry, io) /\ Coherent(Entry)
  BY EntryIs
<1> QED
  BY <1>1, LeaveIs DEF SameMailbox

LEMMA IdlePass ==
  ASSUME IpcType, MirrorInv, Irqs \subseteq io.ppcctrl,
         Leave(TakeMessage(Entry)) \/ Leave(IdleRegs(Entry))
  PROVE  /\ io' \in IoType /\ MirrorInv' /\ Irqs \subseteq io'.ppcctrl
         /\ io'.ppcmsg = io.ppcmsg /\ io'.armmsg = io.armmsg /\ io'.ppc_running = io.ppc_running
         /\ PeerSent \notin io'.ppcctrl /\ PeerAcked \notin io'.ppcctrl
         /\ Sent \in io'.ppcctrl => Sent \in io.ppcctrl
<1>1. PICK q : (q = TakeMessage(Entry) \/ q = IdleRegs(Entry)) /\ Leave(q)
  OBVIOUS
<1>2. /\ q \in IoType /\ Coherent(q) /\ Irqs \subseteq q.ppcctrl
      /\ q.ppcmsg = io.ppcmsg /\ q.armmsg = io.armmsg /\ q.ppc_running = io.ppc_running
      /\ PeerSent \notin q.ppcctrl /\ PeerAcked \notin q.ppcctrl
      /\ Sent \in q.ppcctrl => Sent \in io.ppcctrl
  BY <1>1, IdleTakes
<1> QED
  BY <1>1, <1>2, LeaveIs DEF SameMailbox

LEMMA ServePass ==
  ASSUME IpcType, MirrorInv, Irqs \subseteq io.ppcctrl, NEW m \in ToBridge,
         Leave(Serve(IdleRegs(Entry), m))
  PROVE  /\ io' \in IoType /\ MirrorInv' /\ Irqs \subseteq io'.ppcctrl
         /\ io'.armmsg = io.armmsg /\ io'.ppc_running = io.ppc_running
         /\ PeerSent \notin io'.ppcctrl /\ PeerAcked \notin io'.ppcctrl
         /\ IF m.msg = "MESSAGE" THEN Sent \in io'.ppcctrl /\ io'.ppcmsg = m.arg
            ELSE io'.ppcmsg = io.ppcmsg /\ (Sent \in io'.ppcctrl => Sent \in io.ppcctrl)
<1> DEFINE p == IdleRegs(Entry)
           q == Serve(p, m)
           p1 == [p EXCEPT !.ppcmsg = m.arg]
<1>1. /\ p \in IoType /\ Coherent(p) /\ Irqs \subseteq p.ppcctrl
      /\ p.ppcmsg = io.ppcmsg /\ p.armmsg = io.armmsg /\ p.ppc_running = io.ppc_running
      /\ PeerSent \notin p.ppcctrl /\ PeerAcked \notin p.ppcctrl
      /\ Sent \in p.ppcctrl => Sent \in io.ppcctrl
  BY IdleTakes
<1>2. m.arg \in Nat
  BY DEF ToBridge, Message
<1> HIDE DEF p
<1>3. /\ q \in IoType /\ Coherent(q) /\ Irqs \subseteq q.ppcctrl
      /\ q.armmsg = io.armmsg /\ q.ppc_running = io.ppc_running
      /\ PeerSent \notin q.ppcctrl /\ PeerAcked \notin q.ppcctrl
      /\ IF m.msg = "MESSAGE" THEN Sent \in q.ppcctrl /\ q.ppcmsg = m.arg
         ELSE q.ppcmsg = io.ppcmsg /\ (Sent \in q.ppcctrl => Sent \in io.ppcctrl)
  <2>1. CASE m.msg = "MESSAGE"
    <3>1. q = ipc_set(p1, {Sent}) /\ {Sent} \in SUBSET CtrlBits /\ Sent \in {Sent}
      BY <2>1, Bits DEF Serve, SendMessage
    <3>2. /\ p1 \in IoType /\ p1.ppcctrl = p.ppcctrl /\ p1.armctrl = p.armctrl /\ p1.ppcmsg = m.arg
          /\ p1.armmsg = p.armmsg /\ p1.ppc_running = p.ppc_running
      BY <1>1, <1>2 DEF IoType
    <3> HIDE DEF p1, q
    <3>3. Coherent(p1)
      BY <1>1, <3>2 DEF Coherent
    <3> QED
      BY <1>1, <2>1, <3>1, <3>2, <3>3, BridgeWrite
  <2>2. CASE m.msg = "ACK"
    <3>1. q = ipc_set(p, {Acked}) /\ {Acked} \in SUBSET CtrlBits /\ Sent \notin {Acked}
      BY <2>2, Bits DEF Serve, SendAck
    <3> HIDE DEF q
    <3> QED
      BY <1>1, <2>2, <3>1, BridgeWrite
  <2>3. CASE m.msg # "MESSAGE" /\ m.msg # "ACK"
    BY <1>1, <2>3 DEF Serve
  <2> QED
    BY <2>1, <2>2, <2>3
<1>4. Leave(q)
  BY DEF p
<1> HIDE DEF q
<1> QED
  BY <1>3, <1>4, LeaveIs DEF SameMailbox

LEMMA SndAckPass ==
  ASSUME IpcType, MirrorInv, Irqs \subseteq io.ppcctrl, Leave(SndAckRegs(Entry))
  PROVE  /\ io' \in IoType /\ MirrorInv' /\ Irqs \subseteq io'.ppcctrl
         /\ GotAck(Entry) <=> PeerAcked \in io.ppcctrl
         /\ io'.ppcmsg = io.ppcmsg /\ io'.armmsg = io.armmsg /\ io'.ppc_running = io.ppc_running
         /\ IF PeerAcked \in io.ppcctrl
            THEN Sent \notin io'.ppcctrl /\ PeerSent \notin io'.ppcctrl /\ PeerAcked \notin io'.ppcctrl
            ELSE SameMailbox(io', io)
<1> DEFINE e == Entry
           p == IF GotAck(e) THEN ipc_set(e, {PeerAcked}) ELSE e
           q == ClearPpcIrq(p)
<1>1. /\ e \in IoType /\ SameMailbox(e, io) /\ Coherent(e)
      /\ PeerAcked \in io.ppcctrl => PpcIrq \in e.irq_active_ppc
  BY EntryIs
<1>2. Leave(q)
  BY DEF SndAckRegs
<1> HIDE DEF e
<1>3. GotAck(e) <=> PeerAcked \in io.ppcctrl
  BY <1>1 DEF GotAck, SameMailbox
<1>4. /\ p \in IoType /\ Coherent(p) /\ Irqs \subseteq p.ppcctrl
      /\ p.ppcmsg = io.ppcmsg /\ p.armmsg = io.armmsg /\ p.ppc_running = io.ppc_running
      /\ IF PeerAcked \in io.ppcctrl
         THEN Sent \notin p.ppcctrl /\ PeerSent \notin p.ppcctrl /\ PeerAcked \notin p.ppcctrl
         ELSE SameMailbox(p, io)
  <2>1. CASE ~GotAck(e)
    BY <1>1, <1>3, <2>1 DEF SameMailbox
  <2>2. CASE GotAck(e)
    <3>1. p = ipc_set(e, {PeerAcked}) /\ {PeerAcked} \in SUBSET CtrlBits
          /\ Sent \notin {PeerAcked} /\ PeerAcked \in {PeerAcked}
      BY <2>2, Bits
    <3> HIDE DEF p
    <3> QED
      BY <1>1, <1>3, <2>2, <3>1, BridgeWrite DEF SameMailbox
  <2> QED
    BY <2>1, <2>2
<1> HIDE DEF p
<1>5. q \in IoType /\ SameMailbox(q, p) /\ Coherent(q)
  BY <1>4, ClearMailbox, SameCoherent
<1> HIDE DEF q
<1>6. io' \in IoType /\ SameMailbox(io', q) /\ MirrorInv'
  BY <1>2, <1>5, LeaveIs
<1> QED
  BY <1>3, <1>4, <1>5, <1>6 DEF SameMailbox, e

-----------------------------------------------------------------------------
(* The socket.                                                              *)

\* What the parties send.
LEMMA Messages ==
  /\ Nothing \in Block /\ \A i \in Nat : Request(i) \in Block /\ Result(i) \in Block
  /\ ACK \in ToBridge /\ ACK \in ToClient /\ EXIT \in ToBridge
  /\ ACK.msg = "ACK" /\ EXIT.msg = "EXIT"
  /\ \A s \in Slots : MESSAGE(s) \in ToBridge /\ MESSAGE(s).msg = "MESSAGE"
  /\ \A s \in Slots, b \in Block : /\ READ(s, b) \in ToBridge /\ READ(s, b).msg = "READ"
                                   /\ READ(s, b) \in ToClient
                                   /\ WRITE(s, b) \in ToBridge /\ WRITE(s, b).msg = "WRITE"
  /\ \A n \in Nat : MESSAGE(n) \in ToClient /\ MESSAGE(n).msg = "MESSAGE"
  /\ \A v \in {0, 1} : STATUS(v) \in ToClient /\ STATUS(v).msg = "STATUS" /\ STATUS(v).arg = v
<1>1. \A s \in Slots : s \in Nat
  BY SlotsAssumption
<1>2. Nothing \in Block /\ \A i \in Nat : Request(i) \in Block /\ Result(i) \in Block
  BY DEF Nothing, Request, Result, Block
<1>3. ASSUME NEW t \in {"MESSAGE", "ACK", "STATUS", "READ", "WRITE", "EXIT"}, NEW a \in Nat, NEW b \in Block
      PROVE  Msg(t, a, b) \in Message /\ Msg(t, a, b).msg = t /\ Msg(t, a, b).arg = a
  BY DEF Msg, Message
<1> QED
  BY <1>1, <1>2, <1>3 DEF ToBridge, ToClient, ACK, EXIT, MESSAGE, READ, WRITE, STATUS

LEMMA NetIs ==
  ASSUME NEW u \in [Conns -> {"no", "up", "closed"}], NEW c \in [Conns -> Seq(ToBridge)],
         NEW d \in [Conns -> Seq(ToClient)]
  PROVE  [up |-> u, c2s |-> c, s2c |-> d] \in NetType
BY DEF NetType

\* Messages to the script on connection k.
Delivers(n, q, k, out) ==
  /\ q \in NetType /\ q.up = n.up /\ q.c2s = n.c2s
  /\ q.s2c[k] = n.s2c[k] \o out
  /\ \A j \in Conns : j # k => q.s2c[j] = n.s2c[j]

LEMMA EnqueueIs ==
  ASSUME NEW n \in NetType, NEW k \in Conns, NEW out \in Seq(ToClient)
  PROVE  Delivers(n, Enqueue(n, k, out), k, out)
<1> DEFINE q == Enqueue(n, k, out)
<1>1. n.s2c \in [Conns -> Seq(ToClient)] /\ n.c2s \in [Conns -> Seq(ToBridge)]
      /\ n.up \in [Conns -> {"no", "up", "closed"}]
  BY DEF NetType
<1> DEFINE c == [n.s2c EXCEPT ![k] = @ \o out]
<1>2. q = [n EXCEPT !.s2c = c]
  BY DEF Enqueue, NetType
<1>3. c[k] = n.s2c[k] \o out /\ \A j \in Conns : j # k => c[j] = n.s2c[j]
  BY <1>1
<1>4. c \in [Conns -> Seq(ToClient)]
  <2>1. n.s2c[k] \o out \in Seq(ToClient)
    BY <1>1
  <2> QED
    BY <1>1, <2>1
<1> HIDE DEF c, q
<1>5. q = [up |-> n.up, c2s |-> n.c2s, s2c |-> c]
  BY <1>2 DEF NetType
<1>6. q.up = n.up /\ q.c2s = n.c2s /\ q.s2c = c
  BY <1>5
<1>7. q \in NetType
  BY <1>1, <1>4, <1>5 DEF NetType
<1>8. Delivers(n, q, k, out)
  BY <1>3, <1>6, <1>7 DEF Delivers
<1> QED
  BY <1>8 DEF q

\* A change of what the script on connection k has sent.
Uplink(n, k, s) == [n EXCEPT !.c2s[k] = s]
Uplinks(n, q, k, s) ==
  /\ q \in NetType /\ q.up = n.up /\ q.s2c = n.s2c
  /\ q.c2s[k] = s
  /\ \A j \in Conns : j # k => q.c2s[j] = n.c2s[j]

LEMMA UplinkIs ==
  ASSUME NEW n \in NetType, NEW k \in Conns, NEW s \in Seq(ToBridge)
  PROVE  Uplinks(n, Uplink(n, k, s), k, s)
<1> DEFINE q == Uplink(n, k, s)
<1>1. n.s2c \in [Conns -> Seq(ToClient)] /\ n.c2s \in [Conns -> Seq(ToBridge)]
      /\ n.up \in [Conns -> {"no", "up", "closed"}]
  BY DEF NetType
<1> DEFINE c == [n.c2s EXCEPT ![k] = s]
<1>2. q = [n EXCEPT !.c2s = c]
  BY DEF Uplink, NetType
<1>3. c[k] = s /\ (\A j \in Conns : j # k => c[j] = n.c2s[j]) /\ c \in [Conns -> Seq(ToBridge)]
  BY <1>1
<1> HIDE DEF c, q
<1>5. q = [up |-> n.up, c2s |-> c, s2c |-> n.s2c]
  BY <1>2 DEF NetType
<1>6. q.up = n.up /\ q.s2c = n.s2c /\ q.c2s = c
  BY <1>5
<1>7. q \in NetType
  <2>1. \A u, x, y : u \in [Conns -> {"no", "up", "closed"}] /\ x \in [Conns -> Seq(ToBridge)]
                      /\ y \in [Conns -> Seq(ToClient)] => [up |-> u, c2s |-> x, s2c |-> y] \in NetType
    BY NetIs
  <2>2. [up |-> n.up, c2s |-> c, s2c |-> n.s2c] \in NetType
    BY <1>1, <1>3, <2>1
  <2> QED
    BY <1>5, <2>2
<1>8. Uplinks(n, q, k, s)
  BY <1>3, <1>6, <1>7 DEF Uplinks
<1> QED
  BY <1>8 DEF q

\* A change of what is on its way to the script on connection k.
Downlink(n, k, s) == [n EXCEPT !.s2c[k] = s]
Downlinks(n, q, k, s) ==
  /\ q \in NetType /\ q.up = n.up /\ q.c2s = n.c2s
  /\ q.s2c[k] = s
  /\ \A j \in Conns : j # k => q.s2c[j] = n.s2c[j]

LEMMA DownlinkIs ==
  ASSUME NEW n \in NetType, NEW k \in Conns, NEW s \in Seq(ToClient)
  PROVE  Downlinks(n, Downlink(n, k, s), k, s)
<1> DEFINE q == Downlink(n, k, s)
<1>1. n.s2c \in [Conns -> Seq(ToClient)] /\ n.c2s \in [Conns -> Seq(ToBridge)]
      /\ n.up \in [Conns -> {"no", "up", "closed"}]
  BY DEF NetType
<1> DEFINE c == [n.s2c EXCEPT ![k] = s]
<1>2. q = [n EXCEPT !.s2c = c]
  BY DEF Downlink, NetType
<1>3. c[k] = s /\ (\A j \in Conns : j # k => c[j] = n.s2c[j]) /\ c \in [Conns -> Seq(ToClient)]
  BY <1>1
<1> HIDE DEF c, q
<1>5. q = [up |-> n.up, c2s |-> n.c2s, s2c |-> c]
  BY <1>2 DEF NetType
<1>6. q.up = n.up /\ q.c2s = n.c2s /\ q.s2c = c
  BY <1>5
<1>7. q \in NetType
  <2>1. \A u, x, y : u \in [Conns -> {"no", "up", "closed"}] /\ x \in [Conns -> Seq(ToBridge)]
                      /\ y \in [Conns -> Seq(ToClient)] => [up |-> u, c2s |-> x, s2c |-> y] \in NetType
    BY NetIs
  <2>2. [up |-> n.up, c2s |-> n.c2s, s2c |-> c] \in NetType
    BY <1>1, <1>3, <2>1
  <2> QED
    BY <1>5, <2>2
<1>8. Downlinks(n, q, k, s)
  BY <1>3, <1>6, <1>7 DEF Downlinks
<1> QED
  BY <1>8 DEF q

LEMMA TailIs ==
  ASSUME NEW S, NEW s \in Seq(S), s # <<>>
  PROVE  /\ Tail(s) \in Seq(S) /\ Head(s) \in S /\ Head(s) = s[1] /\ Len(s) \in Nat \ {0}
         /\ Len(Tail(s)) = Len(s) - 1 /\ \A i \in 1..Len(s) - 1 : Tail(s)[i] = s[i + 1]
OBVIOUS

LEMMA Concatenate ==
  ASSUME NEW S, NEW a \in Seq(S), NEW b \in Seq(S)
  PROVE  /\ a \o b \in Seq(S) /\ Len(a \o b) = Len(a) + Len(b) /\ Len(a) \in Nat /\ Len(b) \in Nat
         /\ \A i \in 1..Len(a) : (a \o b)[i] = a[i]
         /\ \A i \in 1..Len(b) : (a \o b)[Len(a) + i] = b[i]
OBVIOUS

LEMMA StatusAppended ==
  ASSUME NEW S, NEW a \in Seq(S), NEW b \in Seq(S), NEW c, c = a \o b, NEW v
  PROVE  /\ Silent(a) /\ Silent(b) => Silent(c)
         /\ Reports(b, v) => Reports(c, v)
         /\ Reports(a, v) /\ Silent(b) => Reports(c, v)
         /\ SaysOff(a) /\ SaysOff(b) => SaysOff(c)
<1> DEFINE m == Len(a)
           n == Len(b)
<1>1. /\ Len(c) = m + n /\ m \in Nat /\ n \in Nat
      /\ \A i \in 1..m : c[i] = a[i]
      /\ \A i \in 1..n : c[m + i] = b[i]
  BY Concatenate
<1>2. \A i \in 1..m + n : i \in 1..m \/ \E j \in 1..n : i = m + j
  <2> SUFFICES ASSUME NEW i \in 1..m + n, i \notin 1..m PROVE \E j \in 1..n : i = m + j
    OBVIOUS
  <2>1. i - m \in 1..n /\ i = m + (i - m)
    BY <1>1
  <2> QED
    BY <2>1
<1> HIDE DEF m, n
<1>3. Silent(a) /\ Silent(b) => Silent(c)
  BY <1>1, <1>2 DEF Silent, m, n
<1>4. SaysOff(a) /\ SaysOff(b) => SaysOff(c)
  BY <1>1, <1>2 DEF SaysOff, m, n
<1>5. ASSUME Reports(b, v) PROVE Reports(c, v)
  <2>1. PICK i \in 1..n : /\ b[i].msg = "STATUS" /\ b[i].arg = v
                          /\ \A j \in 1..n : j > i => b[j].msg # "STATUS"
    BY <1>5 DEF Reports, n
  <2>2. m + i \in 1..m + n /\ c[m + i] = b[i]
    BY <1>1, <2>1
  <2>3. ASSUME NEW j \in 1..m + n, j > m + i PROVE c[j].msg # "STATUS"
    <3>1. j - m \in 1..n /\ j - m > i /\ j = m + (j - m)
      BY <1>1, <2>3
    <3> QED
      BY <1>1, <2>1, <3>1
  <2> QED
    BY <1>1, <2>1, <2>2, <2>3 DEF Reports
<1>6. ASSUME Reports(a, v), Silent(b) PROVE Reports(c, v)
  <2>1. PICK i \in 1..m : /\ a[i].msg = "STATUS" /\ a[i].arg = v
                          /\ \A j \in 1..m : j > i => a[j].msg # "STATUS"
    BY <1>6 DEF Reports, m
  <2>2. i \in 1..m + n /\ c[i] = a[i]
    BY <1>1, <2>1
  <2>3. ASSUME NEW j \in 1..m + n, j > i PROVE c[j].msg # "STATUS"
    BY <1>1, <1>2, <1>6, <2>1, <2>3 DEF Silent, n
  <2> QED
    BY <1>1, <2>1, <2>2, <2>3 DEF Reports
<1> QED
  BY <1>3, <1>4, <1>5, <1>6

\* Receiving a message of any other kind leaves the last status what it was, and
\* receiving a status leaves the script knowing it.
LEMMA StatusReceived ==
  ASSUME NEW s \in Seq(ToClient), s # <<>>, NEW stat, NEW v, Knows(s, stat, v), NEW t, t = Tail(s)
  PROVE  Knows(t, IF Head(s).msg = "STATUS" THEN Head(s).arg ELSE stat, v)
<1>1. /\ t \in Seq(ToClient) /\ Head(s) = s[1] /\ Len(s) \in Nat /\ Len(s) > 0
      /\ Len(t) = Len(s) - 1 /\ \A i \in 1..Len(s) - 1 : t[i] = s[i + 1]
  BY TailIs
<1>2. CASE Silent(s)
  <2>1. (Silent(t) /\ s[1].msg # "STATUS" /\ stat = v) \/ Reports(s, v)
    BY <1>1, <1>2 DEF Silent, Knows
  <2>2. ~Reports(s, v)
    BY <1>2 DEF Silent, Reports
  <2> QED
    BY <1>1, <2>1, <2>2 DEF Knows
<1>3. CASE Reports(s, v)
  <2>1. PICK i \in 1..Len(s) : /\ s[i].msg = "STATUS" /\ s[i].arg = v
                               /\ \A j \in 1..Len(s) : j > i => s[j].msg # "STATUS"
    BY <1>3 DEF Reports
  <2>2. CASE i = 1
    <3>1. Silent(t)
      BY <1>1, <2>1, <2>2 DEF Silent
    <3> QED
      BY <1>1, <2>1, <2>2, <3>1 DEF Knows
  <2>3. CASE i # 1
    <3>1. i - 1 \in 1..Len(t) /\ t[i - 1] = s[i]
      BY <1>1, <2>3
    <3>2. \A j \in 1..Len(t) : j > i - 1 => t[j].msg # "STATUS"
      BY <1>1, <2>1
    <3>3. Reports(t, v)
      BY <2>1, <3>1, <3>2 DEF Reports
    <3> QED
      BY <3>3 DEF Knows
  <2> QED
    BY <2>2, <2>3
<1> QED
  BY <1>2, <1>3 DEF Knows

LEMMA OffReceived ==
  ASSUME NEW s \in Seq(ToClient), s # <<>>, SaysOff(s)
  PROVE  SaysOff(Tail(s)) /\ (Head(s).msg = "STATUS" => Head(s).arg = 0)
BY TailIs DEF SaysOff

LEMMA OfFinite ==
  ASSUME NEW S, NEW s \in Seq(S), NEW type
  PROVE  IsFiniteSet(Of(s, type)) /\ Cardinality(Of(s, type)) \in Nat
<1>1. Of(s, type) \subseteq 1..Len(s) /\ IsFiniteSet(1..Len(s))
  BY FS_Interval DEF Of
<1>2. IsFiniteSet(Of(s, type))
  BY <1>1, FS_Subset
<1> QED
  BY <1>2, FS_CardinalityType

LEMMA OfSplit ==
  ASSUME NEW S, NEW a \in Seq(S), NEW b \in Seq(S), NEW type
  PROVE  /\ Of(a, type) \subseteq Of(a \o b, type)
         /\ \A i \in Of(b, type) : Len(a) + i \in Of(a \o b, type) /\ Len(a) + i \notin Of(a, type)
         /\ \A j \in Of(a \o b, type) : j \in Of(a, type) \/ \E i \in Of(b, type) : j = Len(a) + i
<1> DEFINE m == Len(a)
           n == Len(b)
           c == a \o b
<1>1. /\ Len(c) = m + n /\ m \in Nat /\ n \in Nat
      /\ \A i \in 1..m : c[i] = a[i]
      /\ \A i \in 1..n : c[m + i] = b[i]
  BY Concatenate
<1>2. \A i \in 1..m + n : i \in 1..m \/ \E j \in 1..n : i = m + j
  <2> SUFFICES ASSUME NEW i \in 1..m + n, i \notin 1..m PROVE \E j \in 1..n : i = m + j
    OBVIOUS
  <2>1. i - m \in 1..n /\ i = m + (i - m)
    BY <1>1
  <2> QED
    BY <2>1
<1> HIDE DEF m, n, c
<1>3. Of(a, type) \subseteq Of(c, type)
  BY <1>1 DEF Of, m
<1>4. \A j \in Of(c, type) : j \in Of(a, type) \/ \E i \in Of(b, type) : j = m + i
  <2> SUFFICES ASSUME NEW j \in Of(c, type), j \notin Of(a, type) PROVE \E i \in Of(b, type) : j = m + i
    OBVIOUS
  <2>1. j \in 1..m + n /\ c[j].msg = type
    BY <1>1 DEF Of
  <2>2. j \notin 1..m
    BY <1>1, <2>1 DEF Of, m
  <2>3. PICK i \in 1..n : j = m + i
    BY <1>2, <2>1, <2>2
  <2>4. i \in Of(b, type)
    BY <1>1, <2>1, <2>3 DEF Of, n
  <2> QED
    BY <2>3, <2>4
<1>5. \A i \in Of(b, type) : m + i \in Of(c, type) /\ m + i \notin Of(a, type)
  BY <1>1 DEF Of, m, n
<1> QED
  BY <1>3, <1>4, <1>5 DEF m, c

LEMMA OfSame ==
  ASSUME NEW S, NEW a \in Seq(S), NEW b \in Seq(S), NEW type, Of(b, type) = {}
  PROVE  Of(a \o b, type) = Of(a, type)
<1> DEFINE c == a \o b
<1>1. /\ Of(a, type) \subseteq Of(c, type)
      /\ \A j \in Of(c, type) : j \in Of(a, type) \/ \E i \in Of(b, type) : j = Len(a) + i
  BY OfSplit, Zenon
<1> HIDE DEF c
<1>2. Of(c, type) = Of(a, type)
  BY <1>1
<1> QED
  BY <1>2 DEF c

LEMMA OfAppended ==
  ASSUME NEW S, NEW a \in Seq(S), NEW b \in Seq(S), NEW c, c = a \o b, NEW type
  PROVE  /\ Of(b, type) \subseteq {1} => Cardinality(Of(c, type)) <= Cardinality(Of(a, type)) + 1
         /\ Of(b, type) # {} => Cardinality(Of(c, type)) > Cardinality(Of(a, type))
<1> DEFINE m == Len(a)
<1>1. c \in Seq(S)
  BY Concatenate
<1>2. /\ Of(a, type) \subseteq Of(c, type)
      /\ \A i \in Of(b, type) : m + i \in Of(c, type) /\ m + i \notin Of(a, type)
      /\ \A j \in Of(c, type) : j \in Of(a, type) \/ \E i \in Of(b, type) : j = m + i
  BY OfSplit, Zenon
<1>3. IsFiniteSet(Of(a, type)) /\ IsFiniteSet(Of(c, type))
      /\ Cardinality(Of(a, type)) \in Nat /\ Cardinality(Of(c, type)) \in Nat
  BY <1>1, OfFinite
<1> HIDE DEF m
<1>4. ASSUME Of(b, type) \subseteq {1} PROVE Cardinality(Of(c, type)) <= Cardinality(Of(a, type)) + 1
  <2> DEFINE more == Of(a, type) \cup {m + 1}
  <2>1. Of(c, type) \subseteq more
    BY <1>2, <1>4
  <2>2. IsFiniteSet(more) /\ Cardinality(more) <= Cardinality(Of(a, type)) + 1
    <3>1. /\ IsFiniteSet(more)
          /\ Cardinality(more) = IF m + 1 \in Of(a, type) THEN Cardinality(Of(a, type))
                                 ELSE Cardinality(Of(a, type)) + 1
      BY <1>3, FS_AddElement, Zenon
    <3> HIDE DEF more
    <3> QED
      BY <1>3, <3>1
  <2>3. Cardinality(Of(c, type)) <= Cardinality(more) /\ Cardinality(more) \in Nat
    BY <2>1, <2>2, FS_Subset, FS_CardinalityType
  <2> QED
    BY <1>3, <2>2, <2>3
<1>5. ASSUME Of(b, type) # {} PROVE Cardinality(Of(c, type)) > Cardinality(Of(a, type))
  <2>1. Of(a, type) # Of(c, type)
    BY <1>2, <1>5
  <2>2. Cardinality(Of(a, type)) <= Cardinality(Of(c, type))
        /\ Cardinality(Of(c, type)) # Cardinality(Of(a, type))
    BY <1>2, <1>3, <2>1, FS_Subset
  <2> QED
    BY <1>3, <2>2
<1> QED
  BY <1>4, <1>5

LEMMA OfReceived ==
  ASSUME NEW s \in Seq(ToClient), s # <<>>, NEW type, NEW t, t = Tail(s)
  PROVE  Cardinality(Of(t, type)) + (IF Head(s).msg = type THEN 1 ELSE 0) <= Cardinality(Of(s, type))
<1>1. /\ t \in Seq(ToClient) /\ Head(s) = s[1] /\ Len(s) \in Nat /\ Len(s) > 0
      /\ Len(t) = Len(s) - 1 /\ \A i \in 1..Len(s) - 1 : t[i] = s[i + 1]
  BY TailIs
<1> DEFINE later == Of(s, type) \ {1}
           f == [i \in Of(t, type) |-> i + 1]
<1>2. IsFiniteSet(Of(s, type)) /\ Cardinality(Of(s, type)) \in Nat
      /\ IsFiniteSet(Of(t, type)) /\ Cardinality(Of(t, type)) \in Nat
  BY <1>1, OfFinite
<1>3. \A i \in Of(t, type) : i \in Int /\ i + 1 \in later
  BY <1>1 DEF Of
<1>4. f \in Injection(Of(t, type), later)
  <2>1. f \in [Of(t, type) -> later]
    BY <1>3
  <2>2. \A i, j \in Of(t, type) : f[i] = f[j] => i = j
    BY <1>3
  <2> QED
    BY <2>1, <2>2 DEF Injection, IsInjective
<1>5. /\ IsFiniteSet(later) /\ Cardinality(later) \in Nat
      /\ Cardinality(later) = IF Head(s).msg = type THEN Cardinality(Of(s, type)) - 1 ELSE Cardinality(Of(s, type))
  <2>1. 1 \in Of(s, type) <=> Head(s).msg = type
    BY <1>1 DEF Of
  <2> QED
    BY <1>2, <2>1, FS_RemoveElement, FS_CardinalityType
<1> HIDE DEF f
<1>6. Cardinality(Of(t, type)) <= Cardinality(later)
  BY <1>4, <1>5, FS_Injection
<1> HIDE DEF later
<1> QED
  BY <1>2, <1>5, <1>6

-----------------------------------------------------------------------------
(* What a pass sends.                                                       *)

LEMMA One ==
  ASSUME NEW m \in ToClient, NEW s, s = <<m>>
  PROVE  /\ s \in Seq(ToClient) /\ Len(s) = 1 /\ s[1] = m /\ s # <<>>
         /\ m.msg # "STATUS" => Silent(s) /\ SaysOff(s)
         /\ m.msg = "STATUS" => Reports(s, m.arg) /\ (m.arg = 0 => SaysOff(s))
         /\ \A type : Of(s, type) = IF m.msg = type THEN {1} ELSE {}
<1>1. s \in Seq(ToClient) /\ Len(s) = 1 /\ s[1] = m /\ s # <<>>
  OBVIOUS
<1> QED
  BY <1>1 DEF Silent, SaysOff, Reports, Of

LEMMA None ==
  <<>> \in Seq(ToClient) /\ Silent(<<>>) /\ SaysOff(<<>>) /\ \A type : Of(<<>>, type) = {}
BY DEF Silent, SaysOff, Of

\* An acknowledgement is forwarded before a message, and withdraws it.
LEMMA Forwards ==
  ASSUME IpcType, MirrorInv, Irqs \subseteq io.ppcctrl, NEW f, f = Forwarded(Entry)
  PROVE  /\ f \in Seq(ToClient) /\ Silent(f) /\ SaysOff(f) /\ Of(f, "ACK") \subseteq {1}
         /\ PeerAcked \notin io.ppcctrl => Of(f, "ACK") = {}
         /\ PeerSent \in io.ppcctrl /\ PeerAcked \notin io.ppcctrl => Of(f, "MESSAGE") # {}
         /\ PeerSent \in io.ppcctrl \/ PeerAcked \in io.ppcctrl <=> f # <<>>
<1> DEFINE e == Entry
<1>1. /\ ExtraAck(e) <=> PeerAcked \in io.ppcctrl
      /\ NewMessage(e) <=> PeerSent \in io.ppcctrl /\ PeerAcked \notin io.ppcctrl
  BY IdleTakes
<1>2. e.armmsg \in Nat
  BY EntryIs DEF IoType
<1>3. f = (IF ExtraAck(e) THEN <<ACK>> ELSE <<>>) \o (IF NewMessage(e) THEN <<MESSAGE(e.armmsg)>> ELSE <<>>)
  BY DEF Forwarded
<1> HIDE DEF e
<1>4. CASE PeerAcked \in io.ppcctrl
  <2>2. ACK \in ToClient /\ ACK.msg = "ACK"
    BY Messages
  <2>1. f = <<ACK>>
    <3>1. f = <<ACK>> \o <<>>
      BY <1>1, <1>3, <1>4, Zenon
    <3>2. <<ACK>> \in Seq(ToClient)
      BY <2>2
    <3>3. <<ACK>> \o <<>> = <<ACK>>
      BY <3>2, ConcatEmptySeq
    <3> QED
      BY <3>1, <3>3, Zenon
  <2>3. /\ f \in Seq(ToClient) /\ f # <<>> /\ Silent(f) /\ SaysOff(f)
        /\ \A type : Of(f, type) = IF ACK.msg = type THEN {1} ELSE {}
    BY <2>1, <2>2, One, Zenon
  <2> QED
    BY <1>4, <2>2, <2>3
<1>5. CASE PeerAcked \notin io.ppcctrl /\ PeerSent \in io.ppcctrl
  <2>2. MESSAGE(e.armmsg) \in ToClient /\ MESSAGE(e.armmsg).msg = "MESSAGE"
    BY <1>2, Messages
  <2>1. f = <<MESSAGE(e.armmsg)>>
    <3>1. f = <<>> \o <<MESSAGE(e.armmsg)>>
      BY <1>1, <1>3, <1>5, Zenon
    <3>2. <<MESSAGE(e.armmsg)>> \in Seq(ToClient)
      BY <2>2
    <3>3. <<>> \o <<MESSAGE(e.armmsg)>> = <<MESSAGE(e.armmsg)>>
      BY <3>2, ConcatEmptySeq
    <3> QED
      BY <3>1, <3>3, Zenon
  <2>3. /\ f \in Seq(ToClient) /\ f # <<>> /\ Silent(f) /\ SaysOff(f)
        /\ \A type : Of(f, type) = IF MESSAGE(e.armmsg).msg = type THEN {1} ELSE {}
    BY <2>1, <2>2, One, Zenon
  <2> QED
    BY <1>5, <2>2, <2>3
<1>6. CASE PeerAcked \notin io.ppcctrl /\ PeerSent \notin io.ppcctrl
  <2>1. f = <<>>
    BY <1>1, <1>3, <1>6
  <2> QED
    BY <1>6, <2>1, None
<1> QED
  BY <1>4, <1>5, <1>6

\* The answer to a message of the script, and the report that follows it.
LEMMA Replies ==
  ASSUME IpcType, NEW m \in ToBridge, NEW out,
         \/ out = <<>> /\ m.msg = "EXIT"
         \/ out = StatusChange
         \/ out = Answer(m) \o StatusChange
  PROVE  /\ out \in Seq(ToClient) /\ Of(out, "ACK") = {}
         /\ io.ppc_running = 0 => SaysOff(out)
         /\ m.msg # "EXIT" =>
              IF io.ppc_running = bridge.last THEN Silent(out) ELSE Reports(out, io.ppc_running)
<1> DEFINE a == Answer(m)
           c == StatusChange
<1>1. /\ c \in Seq(ToClient) /\ Of(c, "ACK") = {} /\ (io.ppc_running = 0 => SaysOff(c))
      /\ IF io.ppc_running = bridge.last THEN Silent(c) ELSE Reports(c, io.ppc_running)
  <2>1. CASE io.ppc_running = bridge.last
    <3>1. c = <<>>
      BY <2>1 DEF StatusChange
    <3> QED
      BY <2>1, <3>1, None
  <2>2. CASE io.ppc_running # bridge.last
    <3> DEFINE s == STATUS(io.ppc_running)
    <3>1. c = <<s>>
      BY <2>2 DEF StatusChange
    <3>2. s \in ToClient /\ s.msg = "STATUS" /\ s.arg = io.ppc_running
      BY Messages DEF IpcType, IoType
    <3> HIDE DEF s, c
    <3> QED
      BY <2>2, <3>1, <3>2, One
  <2> QED
    BY <2>1, <2>2
<1>2. a \in Seq(ToClient) /\ Of(a, "ACK") = {} /\ Silent(a) /\ SaysOff(a)
  <2>1. CASE m.msg = "READ"
    <3> DEFINE s == READ(m.arg, mem[m.arg])
    <3>1. a = <<s>>
      BY <2>1 DEF Answer
    <3>2. m.arg \in Slots /\ mem[m.arg] \in Block
      BY <2>1 DEF ToBridge, IpcType
    <3>3. s \in ToClient /\ s.msg = "READ"
      BY <3>2, Messages
    <3> HIDE DEF s, a
    <3> QED
      BY <3>1, <3>3, One
  <2>2. CASE m.msg # "READ"
    BY <2>2, None DEF Answer
  <2> QED
    BY <2>1, <2>2
<1> HIDE DEF a, c
<1>3. CASE out = <<>> /\ m.msg = "EXIT"
  BY <1>3, None
<1>4. CASE out = c
  BY <1>1, <1>4
<1>5. CASE out = a \o c
  <2>1. out \in Seq(ToClient)
    BY <1>1, <1>2, <1>5, Concatenate
  <2>2. Of(out, "ACK") = {}
    <3>1. a \in Seq(ToClient) /\ c \in Seq(ToClient)
      BY <1>1, <1>2
    <3>2. Of(c, "ACK") = {} => Of(out, "ACK") = Of(a, "ACK")
      BY <1>5, <3>1, OfSame
    <3> QED
      BY <1>1, <1>2, <3>2
  <2>3. /\ io.ppc_running = 0 => SaysOff(out)
        /\ IF io.ppc_running = bridge.last THEN Silent(out) ELSE Reports(out, io.ppc_running)
    BY <1>1, <1>2, <1>5, StatusAppended
  <2> QED
    BY <2>1, <2>2, <2>3
<1> QED
  BY <1>3, <1>4, <1>5 DEF a, c

LEMMA PassSends ==
  ASSUME IpcType, MirrorInv, Irqs \subseteq io.ppcctrl, NEW rest \in Seq(ToClient),
         Of(rest, "ACK") = {}, NEW out, out = Forwarded(Entry) \o rest
  PROVE  /\ out \in Seq(ToClient) /\ Of(out, "ACK") \subseteq {1}
         /\ PeerAcked \notin io.ppcctrl => Of(out, "ACK") = {}
         /\ PeerSent \in io.ppcctrl /\ PeerAcked \notin io.ppcctrl => Of(out, "MESSAGE") # {}
         /\ SaysOff(rest) => SaysOff(out)
         /\ Silent(rest) => Silent(out)
         /\ \A v : Reports(rest, v) => Reports(out, v)
<1> DEFINE f == Forwarded(Entry)
<1>1. /\ f \in Seq(ToClient) /\ Silent(f) /\ SaysOff(f) /\ Of(f, "ACK") \subseteq {1}
      /\ PeerAcked \notin io.ppcctrl => Of(f, "ACK") = {}
      /\ PeerSent \in io.ppcctrl /\ PeerAcked \notin io.ppcctrl => Of(f, "MESSAGE") # {}
  BY Forwards
<1> HIDE DEF f
<1>2. out = f \o rest
  BY DEF f
<1>3. /\ out \in Seq(ToClient) /\ Len(out) = Len(f) + Len(rest) /\ Len(f) \in Nat
      /\ \A i \in 1..Len(f) : out[i] = f[i]
  BY <1>1, <1>2, Concatenate
<1>4. Of(out, "ACK") = Of(f, "ACK")
  <2>1. f \in Seq(ToClient)
    BY <1>1
  <2> QED
    BY <1>2, <2>1, OfSame
<1>5. Of(f, "MESSAGE") \subseteq Of(out, "MESSAGE")
  <2> SUFFICES ASSUME NEW i \in Of(f, "MESSAGE") PROVE i \in Of(out, "MESSAGE")
    OBVIOUS
  <2>1. i \in 1..Len(f) /\ f[i].msg = "MESSAGE" /\ Len(rest) \in Nat
    BY DEF Of
  <2> QED
    BY <1>3, <2>1 DEF Of
<1>6. /\ SaysOff(rest) => SaysOff(out)
      /\ Silent(rest) => Silent(out)
      /\ \A v : Reports(rest, v) => Reports(out, v)
  <2>1. ASSUME NEW v
        PROVE  /\ SaysOff(rest) => SaysOff(out)
               /\ Silent(rest) => Silent(out)
               /\ Reports(rest, v) => Reports(out, v)
    BY <1>1, <1>2, StatusAppended
  <2> QED
    BY <2>1
<1> QED
  BY <1>1, <1>3, <1>4, <1>5, <1>6

-----------------------------------------------------------------------------
(* The steps of the bridge.                                                 *)

\* After a pass that has taken what the guest sent, or has left the mailbox
\* alone, what the driver has read still holds what stands, and a message that
\* it sees has an address.
LEMMA PassDriver ==
  ASSUME Inv, io' \in IoType, MirrorInv', guest' = guest,
         \/ PeerSent \notin io'.ppcctrl /\ PeerAcked \notin io'.ppcctrl
         \/ io'.ppcctrl = io.ppcctrl /\ io'.armctrl = io.armctrl,
         \/ io'.ppcmsg \in Slots
         \/ io'.ppcmsg = io.ppcmsg /\ (Sent \in io'.ppcctrl => Sent \in io.ppcctrl)
  PROVE  /\ DriverInv' /\ SlotInv'
         /\ guest.pc = "boot" => io'.armctrl \cap {Sent, Acked} = {}
<1>1. MirrorInv /\ DriverInv /\ SlotInv /\ BootInv
  BY DEF Inv, ControlInv
<1>2. /\ Sent \in io'.armctrl => Sent \in io.armctrl
      /\ Acked \in io'.armctrl => Acked \in io.armctrl
  BY <1>1 DEF MirrorInv, Mirrored
<1>3. DriverInv'
  BY <1>1, <1>2 DEF DriverInv
<1>4. SlotInv'
  BY <1>1 DEF SlotInv, MirrorInv, Mirrored
<1> QED
  BY <1>1, <1>2, <1>3, <1>4 DEF BootInv, Outstanding

LEMMA Fields ==
  ASSUME IpcType
  PROVE  /\ bridge.bsock \in Nat /\ client.conn \in Nat /\ bridge.bsock <= MaxConn /\ client.conn <= MaxConn
         /\ bridge.bsock > 0 => bridge.bsock \in Conns
         /\ client.conn > 0 => client.conn \in Conns
         /\ Told \in Nat /\ Announced \in {0, 1} /\ hist.reloads \in Nat
         /\ io.ppc_running \in {0, 1} /\ bridge.last \in {0, 1} /\ client.ppcstat \in {0, 1}
         /\ \A k \in Conns : net.s2c[k] \in Seq(ToClient) /\ net.c2s[k] \in Seq(ToBridge)
<1>1. /\ client.conn \in 0..MaxConn /\ bridge.bsock \in 0..MaxConn /\ client.acks \in Nat
      /\ hist.launched \in Nat /\ hist.reloads \in Nat
      /\ io.ppc_running \in {0, 1} /\ bridge.last \in {0, 1} /\ client.ppcstat \in {0, 1}
  BY DEF IpcType, ClientType, HistType, BridgeType, IoType
<1>2. /\ bridge.bsock > 0 => bridge.bsock \in Conns
      /\ client.conn > 0 => client.conn \in Conns
  BY <1>1, BoundsAssumption DEF Conns
<1>3. \A k \in Conns : net.s2c[k] \in Seq(ToClient) /\ net.c2s[k] \in Seq(ToBridge)
  BY DEF IpcType, NetType
<1>4. Told \in Nat
  BY <1>1, <1>2, <1>3, OfFinite DEF Told
<1> QED
  BY <1>1, <1>2, <1>3, <1>4, BoundsAssumption DEF Announced

LEMMA PassInitInv ==
  ASSUME Inv, ~bridge.exited, PassInit
  PROVE  Inv'
<1>1. IpcType /\ MirrorInv /\ LinkInv /\ InitInv /\ BootInv /\ DriverInv /\ SlotInv /\ AckOwed
  BY DEF Inv, ControlInv
<1>2. /\ io' \in IoType /\ MirrorInv' /\ Irqs \subseteq io'.ppcctrl
      /\ io'.ppcmsg = io.ppcmsg /\ io'.armmsg = io.armmsg /\ io'.ppc_running = io.ppc_running
      /\ Sent \notin io'.ppcctrl /\ Acked \notin io'.ppcctrl
      /\ PeerSent \notin io'.ppcctrl /\ PeerAcked \notin io'.ppcctrl
  BY <1>1, InitPass
<1>3. /\ bridge.ipcs = "INIT" /\ bridge' \in BridgeType /\ bridge'.ipcs = "ACCEPT" /\ bridge'.bsock = bridge.bsock
      /\ mem' = mem /\ guest' = guest /\ net' = net /\ client' = client /\ hist' = hist
  BY <1>1 DEF PassInit, IpcType, BridgeType
<1>4. bridge'.exited = bridge.exited
  BY <1>1 DEF PassInit, IpcType, BridgeType
<1>5. IpcType'
  BY <1>1, <1>2, <1>3 DEF IpcType
<1>6. LinkInv'
  BY <1>1, <1>3 DEF LinkInv, Outstanding
<1>7. InitInv'
  BY <1>2, <1>3 DEF InitInv
<1>8. DriverInv' /\ SlotInv' /\ (guest.pc = "boot" => io'.armctrl \cap {Sent, Acked} = {})
  BY <1>2, <1>3, PassDriver
<1>9. BootInv'
  BY <1>1, <1>2, <1>3, <1>8 DEF BootInv, Outstanding
<1>10. AckOwed' /\ StatusInv'
  BY <1>3 DEF AckOwed, StatusInv
<1>11. Sent \notin io'.armctrl /\ Acked \notin io'.armctrl /\ PeerSent \notin io'.armctrl
  BY <1>2 DEF MirrorInv, Mirrored
<1>12. ASSUME ~SigPipeIgnored PROVE CrossInv' /\ ReloadInv'
  <2>1. guest.pc \in {"boot", "run"}
    BY <1>1, <1>3 DEF InitInv
  <2>2. CrossInv'
    BY <1>3, <1>11, <2>1 DEF CrossInv, Reads
  <2>3. ReloadInv
    BY <1>12 DEF Inv
  <2>4. Told' = Told /\ Announced' = 0
    BY <1>3, <1>11 DEF Told, Announced
  <2>5. Told \in Nat /\ hist.reloads \in Nat
    BY <1>1, Fields
  <2> QED
    BY <1>3, <2>1, <2>2, <2>3, <2>4, <2>5 DEF ReloadInv, Reads
<1> QED
  BY <1>1, <1>2, <1>5, <1>6, <1>7, <1>8, <1>9, <1>10, <1>12 DEF Inv, ControlInv

LEMMA AcceptNoneInv ==
  ASSUME Inv, ~bridge.exited, AcceptNone
  PROVE  Inv'
<1>1. IpcType /\ MirrorInv /\ LinkInv /\ InitInv /\ BootInv /\ DriverInv /\ SlotInv /\ AckOwed /\ StatusInv
  BY DEF Inv, ControlInv
<1>2. io' \in IoType /\ SameMailbox(io', io) /\ MirrorInv'
  BY <1>1, AcceptPass DEF AcceptNone
<1>3. /\ bridge.ipcs = "ACCEPT" /\ bridge' = bridge
      /\ mem' = mem /\ guest' = guest /\ net' = net /\ client' = client /\ hist' = hist
  BY DEF AcceptNone
<1>4. IpcType'
  BY <1>1, <1>2, <1>3 DEF IpcType
<1>5. LinkInv' /\ InitInv' /\ BootInv' /\ AckOwed' /\ StatusInv'
  BY <1>1, <1>2, <1>3 DEF LinkInv, Outstanding, InitInv, BootInv, AckOwed, StatusInv, SameMailbox
<1>6. DriverInv' /\ SlotInv'
  BY <1>1, <1>2, <1>3 DEF DriverInv, SlotInv, SameMailbox
<1>7. ASSUME ~SigPipeIgnored PROVE CrossInv' /\ ReloadInv'
  <2>1. CrossInv /\ ReloadInv
    BY <1>7 DEF Inv
  <2>2. CrossInv'
    BY <1>2, <1>3, <2>1 DEF CrossInv, Reads, SameMailbox
  <2>3. Told' = Told /\ Announced' = Announced
    BY <1>2, <1>3 DEF Told, Announced, SameMailbox
  <2>4. ReloadInv'
    BY <1>2, <1>3, <2>1, <2>3 DEF ReloadInv, Reads, SameMailbox
  <2> QED
    BY <2>2, <2>4
<1> QED
  BY <1>2, <1>4, <1>5, <1>6, <1>7 DEF Inv, ControlInv

LEMMA AcceptClientInv ==
  ASSUME Inv, ~bridge.exited, NEW k \in Conns, AcceptClient(k)
  PROVE  Inv'
<1>1. IpcType /\ MirrorInv /\ LinkInv /\ InitInv /\ BootInv /\ DriverInv /\ SlotInv /\ AckOwed /\ StatusInv
  BY DEF Inv, ControlInv
<1>2. io' \in IoType /\ SameMailbox(io', io) /\ MirrorInv'
  BY <1>1, AcceptPass DEF AcceptClient
<1>3. /\ bridge.ipcs = "ACCEPT" /\ k = bridge.bsock + 1 /\ net.up[k] # "no"
      /\ mem' = mem /\ guest' = guest /\ client' = client /\ hist' = hist
  BY DEF AcceptClient
<1>4. /\ k \in Nat /\ bridge.bsock \in Nat /\ client.conn \in Nat /\ k <= client.conn /\ k <= MaxConn
      /\ client.conn \in Conns /\ net \in NetType /\ bridge \in BridgeType /\ io.ppc_running \in {0, 1}
      /\ net.s2c[k] = <<>>
  BY <1>1, <1>3, Fields DEF Conns, LinkInv, IpcType
<1> DEFINE status == STATUS(io.ppc_running)
<1>5. /\ status \in ToClient /\ status.msg = "STATUS" /\ status.arg = io.ppc_running
  BY <1>4, Messages
<1>6. \/ /\ Up(k) /\ net' = Enqueue(net, k, <<status>>)
         /\ bridge' = [bridge EXCEPT !.ipcs = "IDLE", !.bsock = k, !.last = io.ppc_running]
      \/ /\ ~Up(k) /\ bridge' = [SendFailed EXCEPT !.bsock = k] /\ net' = net
  BY DEF AcceptClient
<1> HIDE DEF status
<1>7. /\ bridge' \in BridgeType /\ bridge'.bsock = k /\ bridge'.ipcs \in {"IDLE", "ACCEPT"}
      /\ bridge'.ipcs = "IDLE" => Up(k) /\ bridge'.last = io.ppc_running
  <2>1. k \in 0..MaxConn
    BY <1>4, BoundsAssumption
  <2>2. CASE Up(k)
    BY <1>4, <1>6, <2>1, <2>2 DEF BridgeType
  <2>3. CASE ~Up(k) /\ SigPipeIgnored
    BY <1>4, <1>6, <2>1, <2>3 DEF SendFailed, CloseBsock, BridgeType
  <2>4. CASE ~Up(k) /\ ~SigPipeIgnored
    BY <1>3, <1>4, <1>6, <2>1, <2>4 DEF SendFailed, BridgeType
  <2> QED
    BY <2>2, <2>3, <2>4
<1>8. /\ net' \in NetType /\ net'.up = net.up /\ net'.c2s = net.c2s
      /\ \A j \in Conns : j # k => net'.s2c[j] = net.s2c[j]
      /\ Of(net'.s2c[k], "ACK") = {}
      /\ io.ppc_running = 0 => SaysOff(net'.s2c[k])
      /\ Up(k) => Reports(net'.s2c[k], io.ppc_running)
  <2>1. CASE ~Up(k)
    BY <1>4, <1>6, <2>1, None
  <2>2. CASE Up(k)
    <3> DEFINE s == <<status>>
    <3>1. /\ s \in Seq(ToClient) /\ (status.arg = 0 => SaysOff(s)) /\ Reports(s, status.arg)
          /\ \A type : Of(s, type) = IF status.msg = type THEN {1} ELSE {}
      BY <1>5, One, Zenon
    <3>2. net' = Enqueue(net, k, s)
      BY <1>6, <2>2
    <3> HIDE DEF s
    <3>0. net \in NetType /\ s \in Seq(ToClient)
      BY <1>4, <3>1
    <3>3. /\ net' \in NetType /\ net'.up = net.up /\ net'.c2s = net.c2s
          /\ net'.s2c[k] = net.s2c[k] \o s
          /\ \A j \in Conns : j # k => net'.s2c[j] = net.s2c[j]
      <4>1. Delivers(net, net', k, s)
        BY <3>0, <3>2, EnqueueIs
      <4> QED
        BY <4>1, Zenon DEF Delivers
    <3>4. <<>> \o s = s
      BY <3>1, ConcatEmptySeq
    <3>5. net'.s2c[k] = s
      BY <1>4, <3>3, <3>4, Zenon
    <3> QED
      BY <1>5, <3>1, <3>3, <3>5
  <2> QED
    BY <2>1, <2>2
<1>9. IpcType'
  BY <1>1, <1>2, <1>3, <1>7, <1>8 DEF IpcType
<1>10. LinkInv'
  BY <1>1, <1>3, <1>4, <1>7, <1>8 DEF LinkInv, Outstanding, Conns
<1>11. InitInv' /\ AckOwed'
  BY <1>1, <1>2, <1>3, <1>7 DEF InitInv, AckOwed, SameMailbox
<1>12. DriverInv' /\ SlotInv'
  BY <1>1, <1>2, <1>3 DEF DriverInv, SlotInv, SameMailbox
<1>13. BootInv'
  BY <1>1, <1>2, <1>3, <1>7, <1>8 DEF BootInv, Outstanding, SameMailbox
<1>14. StatusInv'
  BY <1>7, <1>8 DEF StatusInv, Knows
<1>15. ASSUME ~SigPipeIgnored PROVE CrossInv' /\ ReloadInv'
  <2>1. CrossInv /\ ReloadInv
    BY <1>15 DEF Inv
  <2>2. CrossInv'
    BY <1>2, <1>3, <1>7, <2>1 DEF CrossInv, Reads, SameMailbox
  <2>3. Announced' = Announced
    BY <1>2, <1>3, <1>7 DEF Announced, SameMailbox
  <2>4. Told' = Told
    <3>1. Of(net.s2c[k], "ACK") = {}
      BY <1>4, None
    <3> QED
      BY <1>3, <1>4, <1>8, <3>1 DEF Told
  <2>5. ReloadInv'
    BY <1>2, <1>3, <1>7, <2>1, <2>3, <2>4 DEF ReloadInv, Reads, SameMailbox
  <2> QED
    BY <2>2, <2>5
<1> QED
  BY <1>2, <1>9, <1>10, <1>11, <1>12, <1>13, <1>14, <1>15 DEF Inv, ControlInv

\* What a pass with a connection leaves as it was, whatever it takes and sends.
LEMMA PassControl ==
  ASSUME Inv, bridge.ipcs \in {"IDLE", "SNDACK"}, NEW k, k = bridge.bsock,
         io' \in IoType, MirrorInv', Irqs \subseteq io'.ppcctrl, io'.ppc_running = io.ppc_running,
         \/ PeerSent \notin io'.ppcctrl /\ PeerAcked \notin io'.ppcctrl
         \/ io'.ppcctrl = io.ppcctrl /\ io'.armctrl = io.armctrl,
         \/ io'.ppcmsg \in Slots
         \/ io'.ppcmsg = io.ppcmsg /\ (Sent \in io'.ppcctrl => Sent \in io.ppcctrl),
         bridge' \in BridgeType, bridge'.bsock = k, bridge'.ipcs # "INIT",
         mem' \in [Slots -> Block], guest' = guest, client' = client, hist' = hist,
         net' \in NetType, net'.up = net.up,
         \A j \in Conns : j # k => net'.s2c[j] = net.s2c[j] /\ net'.c2s[j] = net.c2s[j],
         guest.pc = "boot" =>
           bridge'.ipcs # "SNDACK" /\ net'.c2s[k] = <<>> /\ SaysOff(net'.s2c[k])
  PROVE  IpcType' /\ MirrorInv' /\ LinkInv' /\ InitInv' /\ BootInv' /\ DriverInv' /\ SlotInv'
<1>1. IpcType /\ MirrorInv /\ LinkInv /\ InitInv /\ BootInv
  BY DEF Inv, ControlInv
<1>2. IpcType'
  BY <1>1 DEF IpcType
<1>3. DriverInv' /\ SlotInv' /\ (guest.pc = "boot" => io'.armctrl \cap {Sent, Acked} = {})
  BY PassDriver
<1>4. bridge.bsock \in Nat /\ client.conn \in Nat /\ bridge.bsock \in Conns /\ Conns \subseteq Nat
  BY <1>1, Fields DEF LinkInv, Conns
<1>5. LinkInv'
  <2>1. ASSUME NEW j \in Conns
        PROVE  /\ net'.up[j] = "no" <=> j > client.conn
               /\ net'.up[j] = "up" <=> j = client.conn /\ client.phase # "off"
               /\ j > client.conn => net'.c2s[j] = <<>>
               /\ j > bridge.bsock => net'.s2c[j] = <<>>
    <3>1. (j > client.conn => j # k) /\ (j > bridge.bsock => j # k)
      BY <1>1, <1>4 DEF LinkInv
    <3> QED
      BY <1>1, <3>1 DEF LinkInv
  <2> QED
    BY <1>1, <2>1 DEF LinkInv, Outstanding
<1>6. InitInv'
  BY <1>1 DEF InitInv
<1>7. BootInv'
  BY <1>1, <1>3 DEF BootInv, Outstanding
<1> QED
  BY <1>2, <1>3, <1>5, <1>6, <1>7

\* What the failure of a send makes of the bridge.
LEMMA FailedIs ==
  ASSUME bridge \in BridgeType, ~bridge.exited, NEW b, b = SendFailed
  PROVE  /\ b \in BridgeType /\ b.bsock = bridge.bsock /\ b.last = bridge.last
         /\ b.ipcs \in {"ACCEPT", bridge.ipcs}
         /\ SigPipeIgnored => b.ipcs = "ACCEPT"
         /\ ~SigPipeIgnored => b.exited /\ b.ipcs = bridge.ipcs
<1>1. CASE SigPipeIgnored
  BY <1>1 DEF SendFailed, CloseBsock, BridgeType
<1>2. CASE ~SigPipeIgnored
  <2>1. b = [bridge EXCEPT !.exited = TRUE]
    BY <1>2 DEF SendFailed
  <2>2. b.exited = TRUE /\ b.ipcs = bridge.ipcs /\ b.bsock = bridge.bsock /\ b.last = bridge.last /\ b \in BridgeType
    BY <2>1 DEF BridgeType
  <2> QED
    BY <1>2, <2>2, Zenon
<1> QED
  BY <1>1, <1>2

LEMMA IdleForwardFailsInv ==
  ASSUME Inv, ~bridge.exited, IdleForwardFails
  PROVE  Inv'
<1>1. IpcType /\ MirrorInv /\ LinkInv /\ InitInv /\ BootInv /\ DriverInv /\ SlotInv /\ AckOwed /\ StatusInv
  BY DEF Inv, ControlInv
<1>2. /\ bridge.ipcs = "IDLE" /\ ~Up(bridge.bsock) /\ bridge' = SendFailed
      /\ mem' = mem /\ guest' = guest /\ net' = net /\ client' = client /\ hist' = hist
  BY DEF IdleForwardFails
<1>3. /\ io' \in IoType /\ MirrorInv' /\ Irqs \subseteq io'.ppcctrl
      /\ io'.ppcmsg = io.ppcmsg /\ io'.ppc_running = io.ppc_running
      /\ PeerSent \notin io'.ppcctrl /\ PeerAcked \notin io'.ppcctrl
      /\ Sent \in io'.ppcctrl => Sent \in io.ppcctrl
  BY <1>1, <1>2, IdlePass DEF IdleForwardFails, InitInv
<1>4. /\ bridge' \in BridgeType /\ bridge'.bsock = bridge.bsock /\ bridge'.ipcs \in {"ACCEPT", "IDLE"}
      /\ SigPipeIgnored => bridge'.ipcs = "ACCEPT"
      /\ ~SigPipeIgnored => bridge'.exited
  BY <1>1, <1>2, FailedIs DEF IpcType
<1>5. bridge.bsock \in Conns
  BY <1>1, <1>2, Fields DEF LinkInv
<1>6. IpcType' /\ MirrorInv' /\ LinkInv' /\ InitInv' /\ BootInv' /\ DriverInv' /\ SlotInv'
  BY <1>1, <1>2, <1>3, <1>4, <1>5, PassControl DEF BootInv, Outstanding, IpcType
<1>7. AckOwed'
  BY <1>4 DEF AckOwed
<1>8. StatusInv'
  BY <1>1, <1>2, <1>4, <1>5 DEF StatusInv, LinkInv, Up
<1>9. ASSUME ~SigPipeIgnored PROVE CrossInv' /\ ReloadInv'
  <2>1. ReloadInv /\ Told' = Told
    BY <1>2, <1>9 DEF Inv, Told
  <2> QED
    BY <1>2, <1>4, <1>9, <2>1 DEF CrossInv, ReloadInv
<1> QED
  BY <1>6, <1>7, <1>8, <1>9 DEF Inv, ControlInv

LEMMA IdleHangupInv ==
  ASSUME Inv, ~bridge.exited, IdleHangup
  PROVE  Inv'
<1>1. IpcType /\ MirrorInv /\ LinkInv /\ InitInv /\ BootInv /\ DriverInv /\ SlotInv /\ AckOwed /\ StatusInv
  BY DEF Inv, ControlInv
<1>2. /\ bridge.ipcs = "IDLE" /\ ~Up(bridge.bsock) /\ Forwarded(Entry) = <<>>
      /\ mem' = mem /\ guest' = guest /\ net' = net /\ client' = client /\ hist' = hist
  BY DEF IdleHangup
<1>3. /\ io' \in IoType /\ MirrorInv' /\ Irqs \subseteq io'.ppcctrl
      /\ io'.ppcmsg = io.ppcmsg /\ io'.ppc_running = io.ppc_running
      /\ PeerSent \notin io'.ppcctrl /\ PeerAcked \notin io'.ppcctrl
      /\ Sent \in io'.ppcctrl => Sent \in io.ppcctrl
  BY <1>1, <1>2, IdlePass DEF IdleHangup, InitInv
<1>4. bridge' \in BridgeType /\ bridge'.bsock = bridge.bsock /\ bridge'.ipcs = "ACCEPT"
  BY <1>1 DEF IdleHangup, CloseBsock, IpcType, BridgeType
<1>5. bridge.bsock \in Conns
  BY <1>1, <1>2, Fields DEF LinkInv
<1>6. IpcType' /\ MirrorInv' /\ LinkInv' /\ InitInv' /\ BootInv' /\ DriverInv' /\ SlotInv'
  BY <1>1, <1>2, <1>3, <1>4, <1>5, PassControl DEF BootInv, Outstanding, IpcType
<1>7. AckOwed' /\ StatusInv'
  BY <1>4 DEF AckOwed, StatusInv
<1>8. ASSUME ~SigPipeIgnored PROVE CrossInv' /\ ReloadInv'
  <2>1. CrossInv /\ ReloadInv /\ Told' = Told
    BY <1>2, <1>8 DEF Inv, Told
  <2>2. Sent \notin io'.armctrl /\ Acked \notin io'.armctrl /\ (PeerSent \in io'.armctrl => PeerSent \in io.armctrl)
    BY <1>1, <1>3 DEF MirrorInv, Mirrored
  <2>3. CrossInv'
    BY <1>2, <1>4, <2>1, <2>2 DEF CrossInv, Reads
  <2>4. Announced' = 0 /\ Told \in Nat /\ hist.reloads \in Nat
    BY <1>1, <2>2, Fields DEF Announced
  <2>5. ReloadInv'
    BY <1>2, <1>4, <2>1, <2>2, <2>4 DEF ReloadInv, Reads
  <2> QED
    BY <2>3, <2>5
<1> QED
  BY <1>6, <1>7, <1>8 DEF Inv, ControlInv

\* A pass tells the script of at most one acknowledgement, and only of one that
\* stands.
LEMMA PassTells ==
  ASSUME IpcType, client' = client, hist' = hist, NEW k \in Conns, NEW out \in Seq(ToClient),
         net'.s2c[k] = net.s2c[k] \o out, \A j \in Conns : j # k => net'.s2c[j] = net.s2c[j],
         Of(out, "ACK") \subseteq {1}, PeerAcked \notin io.ppcctrl => Of(out, "ACK") = {}
  PROVE  /\ Told' \in Nat
         /\ Told' <= Told + (IF PeerAcked \in io.ppcctrl THEN 1 ELSE 0)
<1> DEFINE s == net.s2c[k]
           t == net'.s2c[k]
<1>1. s \in Seq(ToClient) /\ t = s \o out /\ client.conn \in Nat /\ Told \in Nat
      /\ hist.launched \in Nat /\ client.acks \in Nat
  BY Fields DEF IpcType, ClientType, HistType
<1> HIDE DEF s, t
<1>2. t \in Seq(ToClient)
  BY <1>1, Concatenate
<1>3. Cardinality(Of(s, "ACK")) \in Nat /\ Cardinality(Of(t, "ACK")) \in Nat
  BY <1>1, <1>2, OfFinite
<1>4. Cardinality(Of(t, "ACK")) <= Cardinality(Of(s, "ACK")) + (IF PeerAcked \in io.ppcctrl THEN 1 ELSE 0)
  <2>1. CASE PeerAcked \in io.ppcctrl
    <3>1. \A type : Of(out, type) \subseteq {1} => Cardinality(Of(t, type)) <= Cardinality(Of(s, type)) + 1
      BY <1>1, OfAppended
    <3> QED
      BY <2>1, <3>1
  <2>2. CASE PeerAcked \notin io.ppcctrl
    <3>1. Of(t, "ACK") = Of(s, "ACK")
      BY <1>1, <2>2, OfSame
    <3> QED
      BY <1>3, <2>2, <3>1
  <2> QED
    BY <2>1, <2>2
<1>5. CASE client.conn = k
  <2>1. k # 0
    BY DEF Conns
  <2>2. Told = hist.launched + client.acks + Cardinality(Of(s, "ACK"))
    BY <1>5, <2>1 DEF Told, s
  <2>3. Told' = hist.launched + client.acks + Cardinality(Of(t, "ACK"))
    BY <1>5, <2>1 DEF Told, t
  <2>4. hist.launched \in Nat /\ client.acks \in Nat
    BY <1>1
  <2> QED
    BY <1>3, <1>4, <2>2, <2>3, <2>4
<1>6. CASE client.conn # k
  <2>1. Told' = Told
    BY <1>6, Fields DEF Told
  <2> QED
    BY <1>1, <2>1
<1> QED
  BY <1>5, <1>6

LEMMA IdleQuietInv ==
  ASSUME Inv, ~bridge.exited, IdleQuiet
  PROVE  Inv'
<1> DEFINE k == bridge.bsock
           rest == StatusChange
           out == Forwarded(Entry) \o rest
<1>1. IpcType /\ MirrorInv /\ LinkInv /\ InitInv /\ BootInv /\ DriverInv /\ SlotInv /\ AckOwed /\ StatusInv
  BY DEF Inv, ControlInv
<1>2. /\ bridge.ipcs = "IDLE" /\ Up(k) /\ net' = Enqueue(net, k, out) /\ net \in NetType
      /\ mem' = mem /\ guest' = guest /\ client' = client /\ hist' = hist
  BY <1>1 DEF IdleQuiet, IpcType
<1>3. Irqs \subseteq io.ppcctrl
  BY <1>1, <1>2 DEF InitInv
<1>4. /\ io' \in IoType /\ MirrorInv' /\ Irqs \subseteq io'.ppcctrl
      /\ io'.ppcmsg = io.ppcmsg /\ io'.ppc_running = io.ppc_running
      /\ PeerSent \notin io'.ppcctrl /\ PeerAcked \notin io'.ppcctrl
      /\ Sent \in io'.ppcctrl => Sent \in io.ppcctrl
  BY <1>1, <1>3, IdlePass DEF IdleQuiet
<1>5. bridge' \in BridgeType /\ bridge'.bsock = k /\ bridge'.ipcs = "IDLE" /\ bridge'.last = io.ppc_running
  BY <1>1, <1>2, Fields DEF IdleQuiet, IpcType, BridgeType
<1>6. k \in Conns /\ net.s2c[k] \in Seq(ToClient)
  BY <1>1, <1>2, Fields DEF LinkInv
<1>7. /\ rest \in Seq(ToClient) /\ Of(rest, "ACK") = {} /\ (io.ppc_running = 0 => SaysOff(rest))
      /\ IF io.ppc_running = bridge.last THEN Silent(rest) ELSE Reports(rest, io.ppc_running)
  <2>1. ACK \in ToBridge /\ ACK.msg # "EXIT"
    BY Messages
  <2> QED
    BY <1>1, <2>1, Replies
<1> HIDE DEF rest
<1>8. /\ out \in Seq(ToClient) /\ Of(out, "ACK") \subseteq {1}
      /\ PeerAcked \notin io.ppcctrl => Of(out, "ACK") = {}
      /\ io.ppc_running = 0 => SaysOff(out)
      /\ IF io.ppc_running = bridge.last THEN Silent(out) ELSE Reports(out, io.ppc_running)
  BY <1>1, <1>3, <1>7, PassSends
<1> HIDE DEF out, k
<1>9. /\ net' \in NetType /\ net'.up = net.up /\ net'.c2s = net.c2s
      /\ net'.s2c[k] = net.s2c[k] \o out
      /\ \A j \in Conns : j # k => net'.s2c[j] = net.s2c[j]
  <2>1. Delivers(net, net', k, out)
    BY <1>2, <1>6, <1>8, EnqueueIs
  <2> QED
    BY <2>1, Zenon DEF Delivers
<1>10. /\ SaysOff(net.s2c[k]) /\ io.ppc_running = 0 => SaysOff(net'.s2c[k])
       /\ Knows(net.s2c[k], client.ppcstat, bridge.last) => Knows(net'.s2c[k], client.ppcstat, io.ppc_running)
  <2> DEFINE t == net'.s2c[k]
             s == net.s2c[k]
  <2>1. t = s \o out /\ s \in Seq(ToClient)
    BY <1>6, <1>9
  <2> HIDE DEF s, t
  <2>2. /\ Silent(s) /\ Silent(out) => Silent(t)
        /\ Reports(out, io.ppc_running) => Reports(t, io.ppc_running)
        /\ Reports(s, io.ppc_running) /\ Silent(out) => Reports(t, io.ppc_running)
        /\ SaysOff(s) /\ SaysOff(out) => SaysOff(t)
    BY <1>8, <2>1, StatusAppended
  <2> QED
    BY <1>8, <2>2 DEF Knows, s, t
<1>11. IpcType' /\ MirrorInv' /\ LinkInv' /\ InitInv' /\ BootInv' /\ DriverInv' /\ SlotInv'
  <2>1. guest.pc = "boot" => bridge'.ipcs # "SNDACK" /\ net'.c2s[k] = <<>> /\ SaysOff(net'.s2c[k])
    BY <1>1, <1>5, <1>6, <1>9, <1>10 DEF BootInv, Outstanding
  <2>2. mem' \in [Slots -> Block] /\ k = bridge.bsock /\ bridge'.ipcs # "INIT"
        /\ \A j \in Conns : j # k => net'.s2c[j] = net.s2c[j] /\ net'.c2s[j] = net.c2s[j]
    BY <1>1, <1>2, <1>5, <1>9 DEF IpcType, k
  <2> QED
    BY <1>2, <1>4, <1>5, <1>9, <2>1, <2>2, PassControl
<1>12. AckOwed'
  BY <1>5 DEF AckOwed
<1>13. StatusInv'
  BY <1>1, <1>2, <1>5, <1>10 DEF StatusInv, k
<1>14. ASSUME ~SigPipeIgnored PROVE CrossInv' /\ ReloadInv'
  <2>1. CrossInv /\ ReloadInv
    BY <1>14 DEF Inv
  <2>2. Sent \notin io'.armctrl /\ Acked \notin io'.armctrl /\ (PeerSent \in io'.armctrl => PeerSent \in io.armctrl)
        /\ (Acked \in io.armctrl <=> PeerAcked \in io.ppcctrl)
    BY <1>1, <1>4 DEF MirrorInv, Mirrored
  <2>3. CrossInv'
    BY <1>2, <1>5, <2>1, <2>2 DEF CrossInv, Reads
  <2>4. Announced' = 0 /\ Announced = (IF PeerAcked \in io.ppcctrl THEN 1 ELSE 0)
        /\ Told \in Nat /\ hist.reloads \in Nat
    BY <1>1, <1>2, <2>2, Fields DEF Announced
  <2>5. Told' \in Nat /\ Told' <= Told + (IF PeerAcked \in io.ppcctrl THEN 1 ELSE 0)
    BY <1>1, <1>2, <1>6, <1>8, <1>9, PassTells
  <2>6. ReloadInv'
    BY <1>2, <1>5, <2>1, <2>2, <2>4, <2>5 DEF ReloadInv, Reads
  <2> QED
    BY <2>3, <2>6
<1> QED
  BY <1>11, <1>12, <1>13, <1>14 DEF Inv, ControlInv

\* One message of the script's is served: what becomes of the bridge, the
\* memory and the socket.
LEMMA ServeEffect ==
  ASSUME Inv, ~bridge.exited, IdleServe, NEW k, k = bridge.bsock, NEW m, m = Head(net.c2s[k])
  PROVE  /\ k \in Conns /\ m \in ToBridge /\ guest.pc # "boot" /\ mem' \in [Slots -> Block]
         /\ bridge' \in BridgeType /\ bridge'.bsock = k /\ bridge'.ipcs \in {"IDLE", "SNDACK", "ACCEPT"}
         /\ bridge'.ipcs = "SNDACK" => m.msg = "MESSAGE"
         /\ Up(k) \/ ~(PeerSent \in io.ppcctrl \/ PeerAcked \in io.ppcctrl)
         /\ Up(k) /\ m.msg # "EXIT" => bridge'.last = io.ppc_running /\ (m.msg = "MESSAGE" => bridge'.ipcs = "SNDACK")
         /\ Up(k) /\ m.msg = "EXIT" => bridge'.last = bridge.last
         /\ ~SigPipeIgnored => \/ bridge'.exited
                               \/ bridge'.ipcs = IF m.msg = "MESSAGE" THEN "SNDACK" ELSE "IDLE"
<1> DEFINE out == IF m.msg = "EXIT" THEN <<>> ELSE Answer(m) \o StatusChange
<1>1. IpcType /\ MirrorInv /\ LinkInv /\ InitInv /\ BootInv
  BY DEF Inv, ControlInv
<1>2. /\ bridge.ipcs = "IDLE" /\ net.c2s[k] # <<>> /\ (Up(k) \/ Forwarded(Entry) = <<>>)
      /\ mem' = Stored(m)
      /\ bridge' = IF m.msg = "EXIT" THEN [bridge EXCEPT !.exited = TRUE]
                   ELSE IF ~Up(k) /\ out # <<>> THEN SendFailed
                   ELSE [bridge EXCEPT !.ipcs = IF m.msg = "MESSAGE" THEN "SNDACK" ELSE "IDLE",
                                       !.last = io.ppc_running]
  BY DEF IdleServe
<1> HIDE DEF out
<1>3. k \in Conns /\ net.c2s[k] \in Seq(ToBridge)
  BY <1>1, <1>2, Fields DEF LinkInv
<1>4. m \in ToBridge
  BY <1>2, <1>3, TailIs
<1>5. guest.pc # "boot"
  BY <1>1, <1>2, <1>3 DEF BootInv, Outstanding
<1>6. mem' \in [Slots -> Block]
  <2>1. m.msg = "WRITE" => m.arg \in Slots /\ m.buf \in Block
    BY <1>4 DEF ToBridge, Message
  <2> QED
    BY <1>1, <1>2, <2>1 DEF Stored, IpcType
<1>7. Up(k) \/ ~(PeerSent \in io.ppcctrl \/ PeerAcked \in io.ppcctrl)
  BY <1>1, <1>2, Forwards DEF InitInv
<1>8. bridge \in BridgeType /\ io.ppc_running \in {0, 1}
  BY <1>1, Fields DEF IpcType
<1>9. CASE m.msg = "EXIT"
  <2>1. bridge' = [bridge EXCEPT !.exited = TRUE]
    BY <1>2, <1>9
  <2>2. /\ bridge' \in BridgeType /\ bridge'.bsock = bridge.bsock /\ bridge'.ipcs = bridge.ipcs
        /\ bridge'.last = bridge.last /\ bridge'.exited = TRUE
    BY <1>8, <2>1 DEF BridgeType
  <2>3. bridge'.exited
    BY <2>2, Zenon
  <2> QED
    BY <1>2, <1>3, <1>4, <1>5, <1>6, <1>7, <1>9, <2>2, <2>3
<1>10. CASE m.msg # "EXIT" /\ ~Up(k) /\ out # <<>>
  <2>1. bridge' = SendFailed
    BY <1>2, <1>10
  <2>2. /\ bridge' \in BridgeType /\ bridge'.bsock = bridge.bsock
        /\ bridge'.ipcs \in {"ACCEPT", "IDLE"} /\ (~SigPipeIgnored => bridge'.exited)
    BY <1>2, <1>8, <2>1, FailedIs
  <2> QED
    BY <1>3, <1>4, <1>5, <1>6, <1>7, <1>10, <2>2
<1>11. CASE m.msg # "EXIT" /\ ~(~Up(k) /\ out # <<>>)
  <2>1. bridge' = [bridge EXCEPT !.ipcs = IF m.msg = "MESSAGE" THEN "SNDACK" ELSE "IDLE",
                                 !.last = io.ppc_running]
    BY <1>2, <1>11
  <2>2. /\ bridge' \in BridgeType /\ bridge'.bsock = bridge.bsock
        /\ bridge'.ipcs = IF m.msg = "MESSAGE" THEN "SNDACK" ELSE "IDLE"
        /\ bridge'.last = io.ppc_running
    BY <1>8, <2>1 DEF BridgeType
  <2> QED
    BY <1>3, <1>4, <1>5, <1>6, <1>7, <1>11, <2>2
<1> QED
  BY <1>9, <1>10, <1>11

LEMMA ServeSends ==
  ASSUME Inv, IdleServe, NEW k \in Conns, k = bridge.bsock, NEW m \in ToBridge, m = Head(net.c2s[k])
  PROVE  /\ net' \in NetType /\ net'.up = net.up
         /\ \A j \in Conns : j # k => net'.s2c[j] = net.s2c[j] /\ net'.c2s[j] = net.c2s[j]
         /\ \E out \in Seq(ToClient) :
              /\ net'.s2c[k] = net.s2c[k] \o out
              /\ Of(out, "ACK") \subseteq {1} /\ (PeerAcked \notin io.ppcctrl => Of(out, "ACK") = {})
              /\ Up(k) /\ PeerSent \in io.ppcctrl /\ PeerAcked \notin io.ppcctrl => Of(out, "MESSAGE") # {}
              /\ Up(k) /\ m.msg # "EXIT" =>
                   IF io.ppc_running = bridge.last THEN Silent(out) ELSE Reports(out, io.ppc_running)
              /\ Up(k) /\ m.msg = "EXIT" => Silent(out)
<1> DEFINE rest == IF m.msg = "EXIT" THEN <<>> ELSE Answer(m) \o StatusChange
           all == Forwarded(Entry) \o rest
           n == [net EXCEPT !.c2s[k] = Tail(net.c2s[k])]
<1>1. IpcType /\ MirrorInv /\ LinkInv /\ InitInv
  BY DEF Inv, ControlInv
<1>2. bridge.ipcs = "IDLE" /\ net.c2s[k] # <<>> /\ net' = IF Up(k) THEN Enqueue(n, k, all) ELSE n
  BY DEF IdleServe
<1>3. Irqs \subseteq io.ppcctrl /\ net \in NetType /\ net.c2s[k] \in Seq(ToBridge) /\ net.s2c[k] \in Seq(ToClient)
  BY <1>1, <1>2, Fields DEF InitInv, IpcType
<1>4. /\ n \in NetType /\ n.up = net.up /\ n.s2c = net.s2c
      /\ \A j \in Conns : j # k => n.c2s[j] = net.c2s[j]
  <2>1. Tail(net.c2s[k]) \in Seq(ToBridge)
    BY <1>2, <1>3, TailIs
  <2>2. n = Uplink(net, k, Tail(net.c2s[k]))
    BY DEF Uplink
  <2> HIDE DEF n
  <2>3. Uplinks(net, n, k, Tail(net.c2s[k]))
    BY <1>3, <2>1, <2>2, UplinkIs
  <2> QED
    BY <2>3, Zenon DEF Uplinks
<1>5. /\ rest \in Seq(ToClient) /\ Of(rest, "ACK") = {}
      /\ m.msg # "EXIT" => IF io.ppc_running = bridge.last THEN Silent(rest) ELSE Reports(rest, io.ppc_running)
  <2>1. CASE m.msg = "EXIT"
    BY <2>1, None
  <2>2. CASE m.msg # "EXIT"
    BY <1>1, <2>2, Replies
  <2> QED
    BY <2>1, <2>2
<1>6. m.msg = "EXIT" => Silent(rest)
  BY None
<1> HIDE DEF rest, n
<1>7. /\ all \in Seq(ToClient) /\ Of(all, "ACK") \subseteq {1}
      /\ PeerAcked \notin io.ppcctrl => Of(all, "ACK") = {}
      /\ PeerSent \in io.ppcctrl /\ PeerAcked \notin io.ppcctrl => Of(all, "MESSAGE") # {}
      /\ m.msg # "EXIT" => IF io.ppc_running = bridge.last THEN Silent(all) ELSE Reports(all, io.ppc_running)
      /\ m.msg = "EXIT" => Silent(all)
  BY <1>1, <1>3, <1>5, <1>6, PassSends
<1> HIDE DEF all
<1>8. CASE Up(k)
  <2>1. Delivers(n, net', k, all)
    BY <1>2, <1>4, <1>7, <1>8, EnqueueIs
  <2>2. /\ net' \in NetType /\ net'.up = n.up /\ net'.c2s = n.c2s /\ net'.s2c[k] = n.s2c[k] \o all
        /\ \A j \in Conns : j # k => net'.s2c[j] = n.s2c[j]
    BY <2>1, Zenon DEF Delivers
  <2>3. net'.s2c[k] = net.s2c[k] \o all
    BY <1>4, <2>2, Zenon
  <2>4. /\ net' \in NetType /\ net'.up = net.up
        /\ \A j \in Conns : j # k => net'.s2c[j] = net.s2c[j] /\ net'.c2s[j] = net.c2s[j]
    BY <1>4, <2>2, Zenon
  <2> QED
    BY <1>7, <2>3, <2>4, Zenon
<1>9. CASE ~Up(k)
  <2>1. net' = n
    BY <1>2, <1>9
  <2>2. net'.s2c[k] = net.s2c[k] \o <<>>
    BY <1>3, <1>4, <2>1, ConcatEmptySeq
  <2>3. <<>> \in Seq(ToClient) /\ Of(<<>>, "ACK") = {}
    BY None
  <2> QED
    BY <1>4, <1>9, <2>1, <2>2, <2>3
<1> QED
  BY <1>8, <1>9

LEMMA IdleServeInv ==
  ASSUME Inv, ~bridge.exited, IdleServe
  PROVE  Inv'
<1> DEFINE k == bridge.bsock
           m == Head(net.c2s[k])
<1>1. IpcType /\ MirrorInv /\ LinkInv /\ InitInv /\ BootInv /\ DriverInv /\ SlotInv /\ AckOwed /\ StatusInv
  BY DEF Inv, ControlInv
<1>2. /\ k \in Conns /\ m \in ToBridge /\ guest.pc # "boot" /\ mem' \in [Slots -> Block]
      /\ bridge' \in BridgeType /\ bridge'.bsock = k /\ bridge'.ipcs \in {"IDLE", "SNDACK", "ACCEPT"}
      /\ bridge'.ipcs = "SNDACK" => m.msg = "MESSAGE"
      /\ Up(k) /\ m.msg # "EXIT" => bridge'.last = io.ppc_running
      /\ Up(k) /\ m.msg = "EXIT" => bridge'.last = bridge.last
      /\ ~SigPipeIgnored => \/ bridge'.exited
                            \/ bridge'.ipcs = IF m.msg = "MESSAGE" THEN "SNDACK" ELSE "IDLE"
  BY ServeEffect
<1>3. /\ bridge.ipcs = "IDLE" /\ guest' = guest /\ client' = client /\ hist' = hist
      /\ Leave(Serve(IdleRegs(Entry), m))
  BY DEF IdleServe
<1>4. k = bridge.bsock /\ m = Head(net.c2s[k])
  OBVIOUS
<1> HIDE DEF m, k
<1>5. /\ net' \in NetType /\ net'.up = net.up
      /\ \A j \in Conns : j # k => net'.s2c[j] = net.s2c[j] /\ net'.c2s[j] = net.c2s[j]
      /\ \E out \in Seq(ToClient) :
           /\ net'.s2c[k] = net.s2c[k] \o out
           /\ Of(out, "ACK") \subseteq {1} /\ (PeerAcked \notin io.ppcctrl => Of(out, "ACK") = {})
           /\ Up(k) /\ m.msg # "EXIT" =>
                IF io.ppc_running = bridge.last THEN Silent(out) ELSE Reports(out, io.ppc_running)
           /\ Up(k) /\ m.msg = "EXIT" => Silent(out)
  BY <1>2, <1>4, ServeSends
<1>6. PICK out \in Seq(ToClient) :
           /\ net'.s2c[k] = net.s2c[k] \o out
           /\ Of(out, "ACK") \subseteq {1} /\ (PeerAcked \notin io.ppcctrl => Of(out, "ACK") = {})
           /\ Up(k) /\ m.msg # "EXIT" =>
                IF io.ppc_running = bridge.last THEN Silent(out) ELSE Reports(out, io.ppc_running)
           /\ Up(k) /\ m.msg = "EXIT" => Silent(out)
  BY <1>5
<1>7. /\ io' \in IoType /\ MirrorInv' /\ Irqs \subseteq io'.ppcctrl /\ io'.ppc_running = io.ppc_running
      /\ PeerSent \notin io'.ppcctrl /\ PeerAcked \notin io'.ppcctrl
      /\ IF m.msg = "MESSAGE" THEN Sent \in io'.ppcctrl /\ io'.ppcmsg = m.arg
         ELSE io'.ppcmsg = io.ppcmsg /\ (Sent \in io'.ppcctrl => Sent \in io.ppcctrl)
  BY <1>1, <1>2, <1>3, ServePass DEF InitInv
<1>8. m.msg = "MESSAGE" => m.arg \in Slots
  BY <1>2 DEF ToBridge
<1>9. IpcType' /\ MirrorInv' /\ LinkInv' /\ InitInv' /\ BootInv' /\ DriverInv' /\ SlotInv'
  <2>1. \/ io'.ppcmsg \in Slots
        \/ io'.ppcmsg = io.ppcmsg /\ (Sent \in io'.ppcctrl => Sent \in io.ppcctrl)
    BY <1>7, <1>8
  <2>2. \A j \in Conns : j # k => net'.s2c[j] = net.s2c[j] /\ net'.c2s[j] = net.c2s[j]
    BY <1>5
  <2>3. bridge.ipcs \in {"IDLE", "SNDACK"} /\ bridge'.ipcs # "INIT" /\ net' \in NetType /\ net'.up = net.up
    BY <1>2, <1>3, <1>5
  <2> QED
    BY <1>2, <1>3, <1>4, <1>7, <2>1, <2>2, <2>3, PassControl
<1>10. AckOwed'
  BY <1>2, <1>7 DEF AckOwed, MirrorInv, Mirrored
<1>11. StatusInv'
  <2> SUFFICES ASSUME client.conn = k, client.phase # "off"
               PROVE  Knows(net'.s2c[k], client.ppcstat, bridge'.last)
    BY <1>2, <1>3 DEF StatusInv
  <2> DEFINE t == net'.s2c[k]
             s == net.s2c[k]
             v == bridge'.last
  <2>1. Up(k) /\ Knows(s, client.ppcstat, bridge.last)
    BY <1>1, <1>2, <1>3, <1>4 DEF StatusInv, LinkInv, Up
  <2>2. t = s \o out /\ s \in Seq(ToClient)
    BY <1>1, <1>2, <1>6, Fields
  <2>3. (Silent(out) /\ v = bridge.last) \/ Reports(out, v)
    BY <1>2, <1>6, <2>1
  <2> HIDE DEF s, t, v
  <2>4. /\ Silent(s) /\ Silent(out) => Silent(t)
        /\ Reports(out, v) => Reports(t, v)
        /\ Reports(s, v) /\ Silent(out) => Reports(t, v)
    BY <2>2, StatusAppended
  <2>5. Knows(t, client.ppcstat, v)
    BY <2>1, <2>3, <2>4 DEF Knows
  <2> QED
    BY <2>5 DEF t, v
<1>12. ASSUME ~SigPipeIgnored PROVE CrossInv' /\ ReloadInv'
  <2>1. CrossInv /\ ReloadInv
    BY <1>12 DEF Inv
  <2>2. /\ Sent \notin io'.armctrl /\ Acked \notin io'.armctrl
        /\ PeerSent \in io'.armctrl => PeerSent \in io.armctrl \/ m.msg = "MESSAGE"
        /\ Acked \in io.armctrl <=> PeerAcked \in io.ppcctrl
    BY <1>1, <1>7 DEF MirrorInv, Mirrored
  <2>3. ~Reads({Sent, PeerSent}) /\ (Reads({Sent, Acked}) => guest.ctrl \cap Latched = {})
        /\ PeerSent \notin io.armctrl
    BY <1>3, <2>1 DEF CrossInv
  <2>4. CrossInv'
    BY <1>2, <1>3, <1>12, <2>2, <2>3 DEF CrossInv, Reads
  <2>5. Announced' = 0 /\ Announced = (IF PeerAcked \in io.ppcctrl THEN 1 ELSE 0)
        /\ Told \in Nat /\ hist.reloads \in Nat
    BY <1>1, <1>3, <2>2, Fields DEF Announced
  <2>6. Told' \in Nat /\ Told' <= Told + (IF PeerAcked \in io.ppcctrl THEN 1 ELSE 0)
    BY <1>1, <1>2, <1>3, <1>5, <1>6, PassTells
  <2>7. "reacked" \notin hist.races => ~(Reads({PeerSent}) /\ Acked \notin guest.ctrl) /\ Told + Announced <= hist.reloads
    BY <1>3, <2>1 DEF ReloadInv
  <2>8. ReloadInv'
    BY <1>3, <2>5, <2>6, <2>7 DEF ReloadInv, Reads
  <2> QED
    BY <2>4, <2>8
<1> QED
  BY <1>9, <1>10, <1>11, <1>12 DEF Inv, ControlInv

LEMMA PassSndAckInv ==
  ASSUME Inv, ~bridge.exited, PassSndAck
  PROVE  Inv'
<1>1. IpcType /\ MirrorInv /\ LinkInv /\ InitInv /\ BootInv /\ DriverInv /\ SlotInv /\ AckOwed /\ StatusInv
  BY DEF Inv, ControlInv
<1>2. /\ bridge.ipcs = "SNDACK" /\ Leave(SndAckRegs(Entry))
      /\ bridge' = [bridge EXCEPT !.ipcs = IF GotAck(Entry) THEN "IDLE" ELSE "SNDACK"]
      /\ mem' = mem /\ guest' = guest /\ net' = net /\ client' = client /\ hist' = hist
  BY DEF PassSndAck
<1>3. /\ io' \in IoType /\ MirrorInv' /\ Irqs \subseteq io'.ppcctrl
      /\ GotAck(Entry) <=> PeerAcked \in io.ppcctrl
      /\ io'.ppcmsg = io.ppcmsg /\ io'.ppc_running = io.ppc_running
      /\ IF PeerAcked \in io.ppcctrl
         THEN Sent \notin io'.ppcctrl /\ PeerSent \notin io'.ppcctrl /\ PeerAcked \notin io'.ppcctrl
         ELSE SameMailbox(io', io)
  BY <1>1, <1>2, SndAckPass DEF InitInv
<1>4. /\ bridge' \in BridgeType /\ bridge'.bsock = bridge.bsock /\ bridge'.last = bridge.last
      /\ bridge'.ipcs = IF PeerAcked \in io.ppcctrl THEN "IDLE" ELSE "SNDACK"
  BY <1>1, <1>2, <1>3 DEF IpcType, BridgeType
<1>5. bridge.bsock \in Conns
  BY <1>1, <1>2, Fields DEF LinkInv
<1>6. IpcType' /\ MirrorInv' /\ LinkInv' /\ InitInv' /\ BootInv' /\ DriverInv' /\ SlotInv'
  <2>1. /\ \/ PeerSent \notin io'.ppcctrl /\ PeerAcked \notin io'.ppcctrl
           \/ io'.ppcctrl = io.ppcctrl /\ io'.armctrl = io.armctrl
        /\ Sent \in io'.ppcctrl => Sent \in io.ppcctrl
    BY <1>3 DEF SameMailbox
  <2>2. guest.pc # "boot" /\ mem' \in [Slots -> Block] /\ net' \in NetType /\ bridge'.ipcs # "INIT"
    BY <1>1, <1>2, <1>4 DEF BootInv, Outstanding, IpcType
  <2> QED
    BY <1>2, <1>3, <1>4, <1>5, <2>1, <2>2, PassControl
<1>7. AckOwed'
  BY <1>1, <1>2, <1>3, <1>4 DEF AckOwed, SameMailbox
<1>8. StatusInv'
  BY <1>1, <1>2, <1>4 DEF StatusInv
<1>9. ASSUME ~SigPipeIgnored PROVE CrossInv' /\ ReloadInv'
  <2>1. CrossInv /\ ReloadInv /\ Told' = Told /\ Told \in Nat /\ hist.reloads \in Nat
    BY <1>1, <1>2, <1>9, Fields DEF Inv, Told
  <2>2. Acked \in io.armctrl <=> PeerAcked \in io.ppcctrl
    BY <1>1 DEF MirrorInv, Mirrored
  <2>3. CASE PeerAcked \in io.ppcctrl
    <3>1. Sent \notin io'.armctrl /\ Acked \notin io'.armctrl /\ PeerSent \notin io'.armctrl
      BY <1>3, <2>3 DEF MirrorInv, Mirrored
    <3>2. CrossInv'
      BY <1>2, <1>4, <2>1, <2>2, <2>3, <3>1 DEF CrossInv, Reads
    <3>3. Announced' = 0 /\ Announced = 0
      BY <1>2, <3>1 DEF Announced
    <3>4. ReloadInv'
      BY <1>2, <1>4, <2>1, <2>2, <2>3, <3>3 DEF ReloadInv, Reads
    <3> QED
      BY <3>2, <3>4
  <2>4. CASE PeerAcked \notin io.ppcctrl
    <3>1. io'.armctrl = io.armctrl /\ bridge'.ipcs = "SNDACK"
      BY <1>3, <1>4, <2>4 DEF SameMailbox
    <3>2. CrossInv'
      BY <1>2, <2>1, <3>1 DEF CrossInv, Reads
    <3>3. Announced' = 0 /\ Announced = 0
      BY <1>2, <3>1 DEF Announced
    <3>4. ReloadInv'
      BY <1>2, <2>1, <3>1, <3>3 DEF ReloadInv, Reads
    <3> QED
      BY <3>2, <3>4
  <2> QED
    BY <2>3, <2>4
<1> QED
  BY <1>6, <1>7, <1>8, <1>9 DEF Inv, ControlInv

-----------------------------------------------------------------------------
(* The steps of the guest.                                                  *)

LEMMA GuestControl ==
  ASSUME Inv, bridge.ipcs # "INIT", bridge' = bridge, net' = net, client' = client,
         io' \in IoType, MirrorInv', io'.ppcctrl \cap Irqs = io.ppcctrl \cap Irqs,
         guest' \in GuestType, guest'.pc # "boot", mem' \in [Slots -> Block], hist' \in HistType
  PROVE  IpcType' /\ MirrorInv' /\ LinkInv' /\ InitInv' /\ BootInv' /\ StatusInv'
<1>1. IpcType /\ LinkInv /\ InitInv /\ StatusInv
  BY DEF Inv, ControlInv
<1>2. IpcType'
  BY <1>1 DEF IpcType
<1>3. LinkInv' /\ StatusInv'
  BY <1>1 DEF LinkInv, Outstanding, StatusInv
<1>4. InitInv' /\ BootInv'
  BY <1>1 DEF InitInv, BootInv, Outstanding
<1> QED
  BY <1>2, <1>3, <1>4

LEMMA GuestBootInv ==
  ASSUME Inv, ~bridge.exited, GuestBoot
  PROVE  Inv'
<1> DEFINE r == ArmCtrlWrite(io, Latched \cup Irqs)
<1>1. IpcType /\ MirrorInv /\ LinkInv /\ InitInv /\ BootInv /\ StatusInv
  BY DEF Inv, ControlInv
<1>2. /\ guest.pc = "boot" /\ io' = [r EXCEPT !.irq_enabled = {ArmIrq}, !.ppc_running = 1]
      /\ guest' = [guest EXCEPT !.pc = "run"]
      /\ mem' = mem /\ bridge' = bridge /\ net' = net /\ client' = client /\ hist' = hist
  BY DEF GuestBoot
<1>3. Latched \cup Irqs \in SUBSET CtrlBits /\ io \in IoType /\ Coherent(io)
      /\ Sent \notin Latched \cup Irqs /\ Acked \notin Latched \cup Irqs /\ PeerSent \in Latched \cup Irqs
  BY <1>1, Bits DEF IpcType, Coherent, MirrorInv
<1>4. /\ r \in IoType /\ Coherent(r) /\ r.ppcmsg = io.ppcmsg /\ r.irqLow = io.irqLow
      /\ Sent \notin r.armctrl /\ Acked \notin r.armctrl /\ PeerSent \notin r.armctrl
      /\ r.ppcctrl \cap Irqs = io.ppcctrl \cap Irqs
  BY <1>3, GuestWrite
<1>5. r.ppcctrl = PeerAfterWrite(io.ppcctrl, Latched \cup Irqs) /\ r.armctrl = OwnAfterWrite(io.armctrl, Latched \cup Irqs)
  BY <1>3 DEF ArmCtrlWrite, IoType
<1> HIDE DEF r
<1>6. ArmIrq \in Nat
  BY DEF ArmIrq
<1>7. /\ io' \in IoType /\ io'.ppcctrl = r.ppcctrl /\ io'.armctrl = r.armctrl /\ io'.ppcmsg = r.ppcmsg
      /\ io'.irqLow = r.irqLow
  BY <1>2, <1>4, <1>6 DEF IoType
<1>8. MirrorInv'
  BY <1>4, <1>7 DEF Coherent, MirrorInv
<1>9. guest' \in GuestType /\ guest'.pc = "run" /\ guest'.todo = guest.todo
  BY <1>1, <1>2 DEF IpcType, GuestType
<1>10. IpcType'
  BY <1>1, <1>2, <1>7, <1>9 DEF IpcType
<1>11. LinkInv' /\ StatusInv'
  BY <1>1, <1>2 DEF LinkInv, Outstanding, StatusInv
<1>12. InitInv'
  <2>1. CASE bridge.ipcs # "INIT"
    BY <1>1, <1>2, <1>4, <1>7, <2>1 DEF InitInv
  <2>2. CASE bridge.ipcs = "INIT"
    <3>1. io.ppcctrl = {} /\ io.armctrl \subseteq Irqs /\ ~io.irqLow /\ guest.todo = {} /\ client.conn = 0
      BY <1>1, <2>2 DEF InitInv
    <3>2. r.ppcctrl = {}
      BY <1>3, <1>5, <3>1 DEF PeerAfterWrite, Signalled
    <3>3. r.armctrl \subseteq Irqs
      BY <1>5, <3>1 DEF OwnAfterWrite, Irqs, Latched, Own, Sent, PeerAcked, PeerSent, Acked, MsgIrq, AckIrq
    <3>4. io'.irqLow = io.irqLow
      BY <1>4, <1>7
    <3>5. ~io'.irqLow
      BY <3>1, <3>4, Zenon
    <3> QED
      BY <1>2, <1>7, <1>9, <2>2, <3>1, <3>2, <3>3, <3>5 DEF InitInv
  <2> QED
    BY <2>1, <2>2
<1>13. BootInv' /\ DriverInv' /\ SlotInv' /\ AckOwed'
  BY <1>1, <1>2, <1>4, <1>7, <1>9 DEF BootInv, Outstanding, DriverInv, SlotInv, AckOwed
<1>14. ASSUME ~SigPipeIgnored PROVE CrossInv' /\ ReloadInv'
  <2>1. ReloadInv /\ Told' = Told /\ Told \in Nat /\ hist.reloads \in Nat
    BY <1>1, <1>2, <1>14, Fields DEF Inv, Told
  <2>2. CrossInv'
    BY <1>4, <1>7, <1>9 DEF CrossInv, Reads
  <2>3. Announced' = 0
    BY <1>4, <1>7 DEF Announced
  <2> QED
    BY <1>2, <1>9, <2>1, <2>2, <2>3 DEF ReloadInv, Reads
<1> QED
  BY <1>8, <1>10, <1>11, <1>12, <1>13, <1>14 DEF Inv, ControlInv

LEMMA GuestIrqInv ==
  ASSUME Inv, ~bridge.exited, GuestIrq
  PROVE  Inv'
<1>1. IpcType /\ MirrorInv /\ LinkInv /\ InitInv /\ DriverInv /\ SlotInv /\ AckOwed
  BY DEF Inv, ControlInv
<1>2. /\ guest.pc = "run" /\ io.irqLow /\ guest' = [guest EXCEPT !.pc = "irq", !.ctrl = io.armctrl]
      /\ io' = io /\ mem' = mem /\ bridge' = bridge /\ net' = net /\ client' = client /\ hist' = hist
  BY DEF GuestIrq
<1>3. bridge.ipcs # "INIT"
  BY <1>1, <1>2 DEF InitInv
<1>4. guest' \in GuestType /\ guest'.pc = "irq" /\ guest'.ctrl = io.armctrl
  BY <1>1, <1>2 DEF IpcType, GuestType, IoType
<1>5. IpcType' /\ MirrorInv' /\ LinkInv' /\ InitInv' /\ BootInv' /\ StatusInv'
  <2>1. MirrorInv' /\ io' \in IoType /\ mem' \in [Slots -> Block] /\ hist' \in HistType
    BY <1>1, <1>2 DEF MirrorInv, IpcType
  <2> QED
    BY <1>2, <1>3, <1>4, <2>1, GuestControl
<1>6. DriverInv' /\ SlotInv' /\ AckOwed'
  BY <1>1, <1>2, <1>4 DEF DriverInv, SlotInv, AckOwed
<1>7. ASSUME ~SigPipeIgnored PROVE CrossInv' /\ ReloadInv'
  <2>1. CrossInv /\ ReloadInv /\ Told' = Told /\ Announced' = Announced
    BY <1>2, <1>7 DEF Inv, Told, Announced
  <2>2. CrossInv'
    BY <1>2, <1>4, <2>1, Bits DEF CrossInv, Reads
  <2>3. PeerSent \in io.armctrl => bridge.ipcs = "SNDACK"
    BY <2>1 DEF CrossInv
  <2>4. ReloadInv'
    BY <1>2, <1>4, <2>1, <2>3 DEF ReloadInv, Reads
  <2> QED
    BY <2>2, <2>4
<1> QED
  BY <1>5, <1>6, <1>7 DEF Inv, ControlInv

LEMMA GuestEoiInv ==
  ASSUME Inv, ~bridge.exited, GuestEoi
  PROVE  Inv'
<1> DEFINE r == [io EXCEPT !.irq_active = @ \ {ArmIrq}]
<1>1. IpcType /\ MirrorInv /\ LinkInv /\ InitInv /\ DriverInv /\ SlotInv /\ AckOwed
  BY DEF Inv, ControlInv
<1>2. /\ guest.pc = "eoi" /\ guest' = [guest EXCEPT !.pc = "run"] /\ io' = update_int(r)
      /\ mem' = mem /\ bridge' = bridge /\ net' = net /\ client' = client /\ hist' = hist
  BY DEF GuestEoi
<1>3. r \in IoType /\ SameMailbox(r, io)
  BY <1>1 DEF IpcType, IoType, SameMailbox
<1> HIDE DEF r
<1>4. io' \in IoType /\ SameMailbox(io', r)
  BY <1>2, <1>3 DEF update_int, IoType, SameMailbox
<1>5. io'.ppcctrl = io.ppcctrl /\ io'.armctrl = io.armctrl /\ io'.ppcmsg = io.ppcmsg
  BY <1>3, <1>4 DEF SameMailbox
<1>6. bridge.ipcs # "INIT"
  BY <1>1, <1>2 DEF InitInv
<1>7. guest' \in GuestType /\ guest'.pc = "run"
  BY <1>1, <1>2 DEF IpcType, GuestType
<1>8. IpcType' /\ MirrorInv' /\ LinkInv' /\ InitInv' /\ BootInv' /\ StatusInv'
  <2>1. MirrorInv' /\ mem' \in [Slots -> Block] /\ hist' \in HistType
    BY <1>1, <1>2, <1>5 DEF MirrorInv, IpcType
  <2> QED
    BY <1>2, <1>4, <1>5, <1>6, <1>7, <2>1, GuestControl
<1>9. DriverInv' /\ SlotInv' /\ AckOwed'
  BY <1>1, <1>2, <1>5, <1>7 DEF DriverInv, SlotInv, AckOwed
<1>10. ASSUME ~SigPipeIgnored PROVE CrossInv' /\ ReloadInv'
  <2>1. CrossInv /\ ReloadInv /\ Told' = Told /\ Announced' = Announced
    BY <1>2, <1>5, <1>10 DEF Inv, Told, Announced
  <2> QED
    BY <1>2, <1>5, <1>7, <2>1 DEF CrossInv, ReloadInv, Reads
<1> QED
  BY <1>8, <1>9, <1>10 DEF Inv, ControlInv

\* What the interrupt handler writes, from the flags it has read.
LEMMA HandlerWrites ==
  ASSUME IpcType, MirrorInv, GuestHandle
  PROVE  /\ io' \in IoType /\ MirrorInv' /\ io'.ppcmsg = io.ppcmsg
         /\ io'.ppcctrl \cap Irqs = io.ppcctrl \cap Irqs
         /\ guest.ctrl \cap Latched = {} => io' = io
         /\ guest.ctrl \cap Latched # {} =>
              /\ Sent \in io'.armctrl <=> Sent \in guest.ctrl
              /\ Acked \in io'.armctrl <=> Acked \in guest.ctrl \/ PeerSent \in guest.ctrl
              /\ PeerSent \in io'.armctrl <=> PeerSent \in io.armctrl /\ PeerSent \notin guest.ctrl
              /\ PeerAcked \in io'.armctrl <=> PeerAcked \in io.armctrl /\ PeerAcked \notin guest.ctrl
<1> DEFINE data == (guest.ctrl \cap {Sent, Acked, PeerSent, PeerAcked}) \cup Irqs
                     \cup (IF PeerSent \in guest.ctrl THEN {Acked} ELSE {})
<1>1. io \in IoType /\ Coherent(io) /\ guest.ctrl \in SUBSET CtrlBits
  BY DEF IpcType, GuestType, Coherent, MirrorInv
<1>2. io' = IF guest.ctrl \cap Latched = {} THEN io ELSE ArmCtrlWrite(io, data)
  BY DEF GuestHandle
<1>3. /\ data \in SUBSET CtrlBits
      /\ Sent \in data <=> Sent \in guest.ctrl
      /\ Acked \in data <=> Acked \in guest.ctrl \/ PeerSent \in guest.ctrl
      /\ PeerSent \in data <=> PeerSent \in guest.ctrl
      /\ PeerAcked \in data <=> PeerAcked \in guest.ctrl
  BY <1>1, Bits
<1> HIDE DEF data
<1>4. CASE guest.ctrl \cap Latched = {}
  BY <1>1, <1>2, <1>4 DEF MirrorInv, Coherent
<1>5. CASE guest.ctrl \cap Latched # {}
  <2>1. io' = ArmCtrlWrite(io, data)
    BY <1>2, <1>5
  <2>2. /\ io' \in IoType /\ Coherent(io') /\ io'.ppcmsg = io.ppcmsg
        /\ Sent \in io'.armctrl <=> Sent \in data
        /\ Acked \in io'.armctrl <=> Acked \in data
        /\ PeerSent \in io'.armctrl <=> PeerSent \in io.armctrl /\ PeerSent \notin data
        /\ PeerAcked \in io'.armctrl <=> PeerAcked \in io.armctrl /\ PeerAcked \notin data
        /\ io'.ppcctrl \cap Irqs = io.ppcctrl \cap Irqs
    BY <1>1, <1>3, <2>1, GuestWrite
  <2> QED
    BY <1>3, <1>5, <2>2 DEF MirrorInv, Coherent
<1> QED
  BY <1>4, <1>5

LEMMA GuestHandleInv ==
  ASSUME Inv, ~bridge.exited, GuestHandle
  PROVE  Inv'
<1> DEFINE got == PeerSent \in guest.ctrl
           work == [slot |-> io.ppcmsg, id |-> mem[io.ppcmsg].id]
<1>1. IpcType /\ MirrorInv /\ LinkInv /\ InitInv /\ BootInv /\ DriverInv /\ SlotInv /\ AckOwed
  BY DEF Inv, ControlInv
<1>2. /\ guest.pc = "irq" /\ mem' = mem /\ bridge' = bridge /\ net' = net /\ client' = client
      /\ guest' = [guest EXCEPT !.pc = "eoi", !.ctrl = {}, !.todo = IF got THEN @ \cup {work} ELSE @]
  BY DEF GuestHandle
<1>3. /\ hist'.reloads = hist.reloads /\ hist'.launched = hist.launched /\ hist' \in HistType
      /\ "reacked" \notin hist'.races =>
           "reacked" \notin hist.races /\ (Acked \in guest.ctrl => Acked \in io.armctrl)
  <2> DEFINE data == (guest.ctrl \cap {Sent, Acked, PeerSent, PeerAcked}) \cup Irqs
                       \cup (IF got THEN {Acked} ELSE {})
             taken == IF got THEN Append(hist.taken, mem[io.ppcmsg]) ELSE hist.taken
             races == hist.races \cup (IF Sent \in data \ io.armctrl THEN {"resent"} ELSE {})
                        \cup (IF Acked \in guest.ctrl \ io.armctrl THEN {"reacked"} ELSE {})
  <2>1. hist' = [hist EXCEPT !.taken = taken, !.races = races]
    BY DEF GuestHandle
  <2>2. got => mem[io.ppcmsg] \in Block
    BY <1>1, <1>2 DEF SlotInv, IpcType
  <2>3. hist \in HistType /\ hist.taken \in Seq(Block)
        /\ hist.races \in SUBSET {"resent", "reacked", "orphan", "nested"}
    BY <1>1 DEF IpcType, HistType
  <2>4. taken \in Seq(Block)
    BY <2>2, <2>3
  <2>5. /\ races \in SUBSET {"resent", "reacked", "orphan", "nested"}
        /\ "reacked" \notin races =>
             "reacked" \notin hist.races /\ (Acked \in guest.ctrl => Acked \in io.armctrl)
    BY <2>3
  <2> HIDE DEF taken, races
  <2> QED
    BY <2>1, <2>3, <2>4, <2>5 DEF HistType
<1>4. guest' \in GuestType /\ guest'.pc = "eoi"
  <2>1. got => work \in [slot : Slots, id : Nat]
    BY <1>1, <1>2 DEF SlotInv, IpcType, Block
  <2> HIDE DEF work
  <2> QED
    BY <1>1, <1>2, <2>1 DEF IpcType, GuestType
<1>5. /\ io' \in IoType /\ MirrorInv' /\ io'.ppcmsg = io.ppcmsg
      /\ io'.ppcctrl \cap Irqs = io.ppcctrl \cap Irqs
      /\ guest.ctrl \cap Latched = {} => io' = io
      /\ guest.ctrl \cap Latched # {} =>
           /\ Sent \in io'.armctrl <=> Sent \in guest.ctrl
           /\ Acked \in io'.armctrl <=> Acked \in guest.ctrl \/ PeerSent \in guest.ctrl
           /\ PeerSent \in io'.armctrl <=> PeerSent \in io.armctrl /\ PeerSent \notin guest.ctrl
           /\ PeerAcked \in io'.armctrl <=> PeerAcked \in io.armctrl /\ PeerAcked \notin guest.ctrl
  BY <1>1, HandlerWrites
<1>6. bridge.ipcs # "INIT"
  BY <1>1, <1>2 DEF InitInv
<1>7. IpcType' /\ MirrorInv' /\ LinkInv' /\ InitInv' /\ BootInv' /\ StatusInv'
  <2>1. mem' \in [Slots -> Block] /\ guest'.pc # "boot"
    BY <1>1, <1>2, <1>4 DEF IpcType
  <2> QED
    BY <1>2, <1>3, <1>4, <1>5, <1>6, <2>1, GuestControl
<1>8. DriverInv' /\ SlotInv'
  BY <1>1, <1>2, <1>4, <1>5 DEF DriverInv, SlotInv
<1>9. AckOwed'
  <2>1. CASE guest.ctrl \cap Latched = {}
    BY <1>1, <1>2, <1>5, <2>1 DEF AckOwed
  <2>2. CASE guest.ctrl \cap Latched # {}
    <3>1. /\ PeerAcked \in io.ppcctrl <=> Acked \in io.armctrl
          /\ PeerAcked \in io'.ppcctrl <=> Acked \in io'.armctrl
      BY <1>1, <1>5 DEF MirrorInv, Mirrored
    <3>2. Acked \in io.armctrl => Acked \in guest.ctrl
      BY <1>1, <1>2 DEF DriverInv
    <3> QED
      BY <1>1, <1>2, <1>5, <2>2, <3>1, <3>2 DEF AckOwed
  <2> QED
    BY <2>1, <2>2
<1>10. ASSUME ~SigPipeIgnored PROVE CrossInv' /\ ReloadInv'
  <2>1. CrossInv /\ ReloadInv
    BY <1>10 DEF Inv
  <2>2. Told' = Told /\ Told \in Nat /\ hist.reloads \in Nat
    BY <1>1, <1>2, <1>3, Fields DEF Told
  <2>3. CASE guest.ctrl \cap Latched = {}
    <3>1. io' = io /\ Announced' = Announced
      BY <1>2, <1>5, <2>3 DEF Announced
    <3> QED
      BY <1>2, <1>3, <1>4, <2>1, <2>2, <3>1 DEF CrossInv, ReloadInv, Reads
  <2>4. CASE guest.ctrl \cap Latched # {}
    <3>1. ~Reads({Sent, Acked})
      BY <2>1, <2>4 DEF CrossInv
    <3>2. ASSUME {Sent, Acked} \subseteq io'.armctrl
          PROVE  bridge.ipcs = "SNDACK" /\ io'.armctrl \cap Latched = {}
      <4>1. Reads({Sent, PeerSent})
        BY <1>2, <1>5, <2>4, <3>1, <3>2 DEF Reads
      <4>2. bridge.ipcs = "SNDACK" /\ (PeerAcked \in io.armctrl => PeerAcked \in guest.ctrl) /\ PeerSent \in guest.ctrl
        BY <2>1, <4>1 DEF CrossInv, Reads
      <4> QED
        BY <1>5, <2>4, <4>2, Bits
    <3>3. CrossInv'
      BY <1>2, <1>4, <1>5, <2>1, <2>4, <3>2 DEF CrossInv, Reads
    <3>4. ASSUME "reacked" \notin hist'.races PROVE Announced' <= Announced
      <4>1. CASE PeerSent \in guest.ctrl /\ Acked \notin guest.ctrl
        <5>1. bridge.ipcs = "SNDACK"
          BY <1>2, <1>3, <2>1, <3>4, <4>1 DEF ReloadInv, Reads
        <5> QED
          BY <1>2, <5>1 DEF Announced
      <4>2. CASE ~(PeerSent \in guest.ctrl /\ Acked \notin guest.ctrl)
        BY <1>2, <1>3, <1>5, <2>4, <3>4, <4>2 DEF Announced
      <4> QED
        BY <4>1, <4>2
    <3>5. Announced \in {0, 1} /\ Announced' \in {0, 1}
      BY DEF Announced
    <3>6. ReloadInv'
      <4>1. ASSUME "reacked" \notin hist'.races
            PROVE  Told + Announced' <= hist.reloads /\ Told <= hist.reloads
        BY <1>3, <2>1, <2>2, <3>4, <3>5, <4>1 DEF ReloadInv
      <4> QED
        BY <1>2, <1>3, <1>4, <2>2, <4>1 DEF ReloadInv, Reads
    <3> QED
      BY <3>3, <3>6
  <2> QED
    BY <2>3, <2>4
<1> QED
  BY <1>7, <1>8, <1>9, <1>10 DEF Inv, ControlInv

\* A message, or the acknowledgement of a reboot, of a driver that has none
\* outstanding.
LEMMA DriverWrites ==
  ASSUME IpcType, MirrorInv, NEW r \in IoType, r.ppcctrl = io.ppcctrl, r.armctrl = io.armctrl,
         r.ppcmsg = io.ppcmsg, NEW bit \in {Sent, Acked}, Idle(io), io' = ArmCtrlWrite(r, Irqs \cup {bit})
  PROVE  /\ io' \in IoType /\ MirrorInv' /\ io'.ppcmsg = io.ppcmsg
         /\ io'.ppcctrl \cap Irqs = io.ppcctrl \cap Irqs
         /\ Sent \in io'.armctrl <=> bit = Sent
         /\ Acked \in io'.armctrl <=> bit = Acked
         /\ PeerSent \in io'.armctrl <=> PeerSent \in io.armctrl
         /\ Acked \notin io.armctrl /\ PeerAcked \notin io.ppcctrl
<1>1. Coherent(r) /\ Acked \notin io.armctrl /\ PeerAcked \notin io.ppcctrl
  BY DEF MirrorInv, Mirrored, Coherent, Idle
<1>2. /\ Irqs \cup {bit} \in SUBSET CtrlBits /\ PeerSent \notin Irqs \cup {bit}
      /\ Sent \in Irqs \cup {bit} <=> bit = Sent
      /\ Acked \in Irqs \cup {bit} <=> bit = Acked
  BY Bits
<1> DEFINE data == Irqs \cup {bit}
<1> HIDE DEF data
<1>3. /\ io' \in IoType /\ Coherent(io') /\ io'.ppcmsg = r.ppcmsg
      /\ Sent \in io'.armctrl <=> Sent \in data
      /\ Acked \in io'.armctrl <=> Acked \in data
      /\ PeerSent \in io'.armctrl <=> PeerSent \in r.armctrl /\ PeerSent \notin data
      /\ io'.ppcctrl \cap Irqs = r.ppcctrl \cap Irqs
  BY <1>1, <1>2, GuestWrite DEF data
<1> QED
  BY <1>1, <1>2, <1>3 DEF MirrorInv, Coherent, data

LEMMA GuestReplyInv ==
  ASSUME Inv, ~bridge.exited, NEW w \in guest.todo, GuestReply(w)
  PROVE  Inv'
<1> DEFINE r == [io EXCEPT !.armmsg = w.slot]
<1>1. IpcType /\ MirrorInv /\ LinkInv /\ InitInv /\ SlotInv /\ AckOwed
  BY DEF Inv, ControlInv
<1>2. /\ guest.pc = "run" /\ Idle(io) /\ mem' = [mem EXCEPT ![w.slot] = Result(w.id)]
      /\ io' = ArmCtrlWrite(r, Irqs \cup {Sent}) /\ guest' = [guest EXCEPT !.todo = @ \ {w}]
      /\ bridge' = bridge /\ net' = net /\ client' = client /\ hist' = hist
  BY DEF GuestReply
<1>3. w.slot \in Slots /\ w.id \in Nat /\ w.slot \in Nat
  BY <1>1, SlotsAssumption DEF IpcType, GuestType
<1>4. mem' \in [Slots -> Block]
  BY <1>1, <1>2, <1>3, Messages DEF IpcType
<1>5. r \in IoType /\ r.ppcctrl = io.ppcctrl /\ r.armctrl = io.armctrl /\ r.ppcmsg = io.ppcmsg
  BY <1>1, <1>3 DEF IpcType, IoType
<1> HIDE DEF r
<1>6. /\ io' \in IoType /\ MirrorInv' /\ io'.ppcmsg = io.ppcmsg
      /\ io'.ppcctrl \cap Irqs = io.ppcctrl \cap Irqs
      /\ Acked \notin io'.armctrl
      /\ PeerSent \in io'.armctrl <=> PeerSent \in io.armctrl
      /\ Acked \notin io.armctrl /\ PeerAcked \notin io.ppcctrl
  BY <1>1, <1>2, <1>5, Bits, DriverWrites
<1>7. bridge.ipcs # "INIT"
  BY <1>1 DEF InitInv
<1>8. guest' \in GuestType /\ guest'.pc = "run"
  BY <1>1, <1>2 DEF IpcType, GuestType
<1>9. IpcType' /\ MirrorInv' /\ LinkInv' /\ InitInv' /\ BootInv' /\ StatusInv'
  <2>1. hist' \in HistType /\ guest'.pc # "boot"
    BY <1>1, <1>2, <1>8 DEF IpcType
  <2> QED
    BY <1>2, <1>4, <1>6, <1>7, <1>8, <2>1, GuestControl
<1>10. DriverInv' /\ SlotInv' /\ AckOwed'
  BY <1>1, <1>2, <1>6, <1>8 DEF DriverInv, SlotInv, AckOwed
<1>11. ASSUME ~SigPipeIgnored PROVE CrossInv' /\ ReloadInv'
  <2>1. CrossInv /\ ReloadInv /\ Told' = Told /\ Announced' = Announced
    BY <1>2, <1>6, <1>11 DEF Inv, Told, Announced
  <2> QED
    BY <1>2, <1>6, <1>8, <2>1 DEF CrossInv, ReloadInv, Reads
<1> QED
  BY <1>9, <1>10, <1>11 DEF Inv, ControlInv

LEMMA GuestReloadInv ==
  ASSUME Inv, ~bridge.exited, GuestReload
  PROVE  Inv'
<1>1. IpcType /\ MirrorInv /\ LinkInv /\ InitInv /\ SlotInv /\ AckOwed
  BY DEF Inv, ControlInv
<1>2. /\ guest.pc = "run" /\ guest.todo # {} /\ Idle(io) /\ io' = ArmCtrlWrite(io, Irqs \cup {Acked})
      /\ guest' = [guest EXCEPT !.todo = {}] /\ hist' = [hist EXCEPT !.reloads = @ + 1]
      /\ mem' = mem /\ bridge' = bridge /\ net' = net /\ client' = client
  BY DEF GuestReload
<1>3. /\ io' \in IoType /\ MirrorInv' /\ io'.ppcmsg = io.ppcmsg
      /\ io'.ppcctrl \cap Irqs = io.ppcctrl \cap Irqs
      /\ Sent \notin io'.armctrl
      /\ PeerSent \in io'.armctrl <=> PeerSent \in io.armctrl
      /\ Acked \notin io.armctrl /\ PeerAcked \notin io.ppcctrl
  BY <1>1, <1>2, Bits, DriverWrites DEF IpcType
<1>4. bridge.ipcs # "INIT"
  BY <1>1, <1>2 DEF InitInv
<1>5. guest' \in GuestType /\ guest'.pc = "run"
  BY <1>1, <1>2 DEF IpcType, GuestType
<1>6. /\ hist' \in HistType /\ hist'.reloads = hist.reloads + 1 /\ hist'.launched = hist.launched
      /\ hist'.races = hist.races
  <2>1. hist \in HistType /\ hist.reloads + 1 \in Nat
    BY <1>1 DEF IpcType, HistType
  <2>2. hist' = [hist EXCEPT !.reloads = hist.reloads + 1]
    BY <1>2
  <2> QED
    BY <2>1, <2>2 DEF HistType
<1>7. IpcType' /\ MirrorInv' /\ LinkInv' /\ InitInv' /\ BootInv' /\ StatusInv'
  <2>1. mem' \in [Slots -> Block] /\ guest'.pc # "boot"
    BY <1>1, <1>2, <1>5 DEF IpcType
  <2> QED
    BY <1>2, <1>3, <1>4, <1>5, <1>6, <2>1, GuestControl
<1>8. DriverInv' /\ SlotInv' /\ AckOwed'
  BY <1>1, <1>2, <1>3, <1>5 DEF DriverInv, SlotInv, AckOwed
<1>9. ASSUME ~SigPipeIgnored PROVE CrossInv' /\ ReloadInv'
  <2>1. CrossInv /\ ReloadInv
    BY <1>9 DEF Inv
  <2>2. Told' = Told /\ Told \in Nat /\ hist.reloads \in Nat
    BY <1>1, <1>2, <1>6, Fields DEF Told
  <2>3. Announced' \in {0, 1} /\ Announced \in {0, 1}
    BY DEF Announced
  <2>4. CrossInv'
    BY <1>2, <1>3, <1>5, <2>1 DEF CrossInv, Reads
  <2>5. "reacked" \notin hist.races => Told <= hist.reloads
    BY <2>1 DEF ReloadInv
  <2>6. ReloadInv'
    BY <1>2, <1>5, <1>6, <2>2, <2>3, <2>5 DEF ReloadInv, Reads
  <2> QED
    BY <2>4, <2>6
<1> QED
  BY <1>7, <1>8, <1>9 DEF Inv, ControlInv

LEMMA GuestFlipPpcInv ==
  ASSUME Inv, ~bridge.exited, GuestFlipPpc
  PROVE  Inv'
<1>1. IpcType /\ MirrorInv /\ LinkInv /\ InitInv /\ BootInv /\ DriverInv /\ SlotInv /\ AckOwed /\ StatusInv
  BY DEF Inv, ControlInv
<1>2. /\ guest.pc = "run" /\ io' = [io EXCEPT !.ppc_running = 1 - @] /\ hist' = [hist EXCEPT !.flips = @ + 1]
      /\ guest' = guest /\ mem' = mem /\ bridge' = bridge /\ net' = net /\ client' = client
  BY DEF GuestFlipPpc
<1>3. /\ io' \in IoType /\ io'.ppcctrl = io.ppcctrl /\ io'.armctrl = io.armctrl /\ io'.ppcmsg = io.ppcmsg
      /\ io'.irqLow = io.irqLow
  BY <1>1, <1>2 DEF IpcType, IoType
<1>4. /\ hist' \in HistType /\ hist'.reloads = hist.reloads /\ hist'.launched = hist.launched
      /\ hist'.races = hist.races
  BY <1>1, <1>2 DEF IpcType, HistType
<1>5. IpcType' /\ MirrorInv'
  BY <1>1, <1>2, <1>3, <1>4 DEF IpcType, MirrorInv
<1>6. LinkInv' /\ BootInv' /\ DriverInv' /\ SlotInv' /\ AckOwed' /\ StatusInv'
  BY <1>1, <1>2, <1>3 DEF LinkInv, Outstanding, BootInv, DriverInv, SlotInv, AckOwed, StatusInv
<1>7. InitInv'
  BY <1>1, <1>2, <1>3, Zenon DEF InitInv
<1>8. ASSUME ~SigPipeIgnored PROVE CrossInv' /\ ReloadInv'
  <2>1. CrossInv /\ ReloadInv /\ Told' = Told /\ Announced' = Announced
    BY <1>2, <1>3, <1>4, <1>8 DEF Inv, Told, Announced
  <2> QED
    BY <1>2, <1>3, <1>4, <2>1 DEF CrossInv, ReloadInv, Reads
<1> QED
  BY <1>5, <1>6, <1>7, <1>8 DEF Inv, ControlInv

-----------------------------------------------------------------------------
(* The steps of the scripts.                                                *)

\* A step of a script leaves the registers, the bridge and the guest alone.
LEMMA ClientControl ==
  ASSUME Inv, io' = io, mem' = mem, bridge' = bridge, guest' = guest, bridge.ipcs # "INIT"
  PROVE  /\ io' \in IoType /\ mem' \in [Slots -> Block] /\ bridge' \in BridgeType /\ guest' \in GuestType
         /\ MirrorInv' /\ InitInv' /\ DriverInv' /\ SlotInv' /\ AckOwed'
         /\ ~SigPipeIgnored => CrossInv'
<1>1. IpcType /\ MirrorInv /\ InitInv /\ DriverInv /\ SlotInv /\ AckOwed
  BY DEF Inv, ControlInv
<1>2. ~SigPipeIgnored => CrossInv
  BY DEF Inv
<1>3. io' \in IoType /\ mem' \in [Slots -> Block] /\ bridge' \in BridgeType /\ guest' \in GuestType
  BY <1>1 DEF IpcType
<1>4. MirrorInv' /\ InitInv' /\ DriverInv' /\ SlotInv' /\ AckOwed'
  BY <1>1 DEF MirrorInv, InitInv, DriverInv, SlotInv, AckOwed
<1>5. ~SigPipeIgnored => CrossInv'
  BY <1>2 DEF CrossInv, Reads
<1> QED
  BY <1>3, <1>4, <1>5

\* A step that tells the script nothing it has not been sent.
LEMMA ClientReload ==
  ASSUME Inv, io' = io, bridge' = bridge, guest' = guest, hist'.reloads = hist.reloads,
         "reacked" \notin hist'.races => "reacked" \notin hist.races,
         Told' \in Nat, Told' <= Told, ~SigPipeIgnored
  PROVE  ReloadInv'
<1>1. ReloadInv /\ IpcType
  BY DEF Inv, ControlInv
<1>2. Told \in Nat /\ Announced \in {0, 1} /\ Announced' = Announced /\ hist.reloads \in Nat
  BY <1>1, Fields DEF Announced
<1>3. Told <= hist.reloads => Told' <= hist.reloads
  BY <1>2
<1>4. Told + Announced <= hist.reloads => Told' + Announced <= hist.reloads
  BY <1>2
<1> QED
  BY <1>1, <1>2, <1>3, <1>4 DEF ReloadInv, Reads

\* There is a script only after the bridge's first pass.
LEMMA ScriptRuns ==
  ASSUME Inv, client.phase # "off" \/ Outstanding # {}
  PROVE  client.conn \in Conns /\ bridge.ipcs # "INIT"
<1>1. IpcType /\ LinkInv /\ InitInv
  BY DEF Inv, ControlInv
<1>2. client.conn # 0
  BY <1>1 DEF LinkInv
<1>3. client.conn \in Conns
  BY <1>1, <1>2, Fields
<1> QED
  BY <1>1, <1>2, <1>3 DEF InitInv

LEMMA ConnectInv ==
  ASSUME Inv, ~bridge.exited, Connect
  PROVE  Inv'
<1> DEFINE k == client.conn + 1
<1>1. IpcType /\ LinkInv /\ BootInv
  BY DEF Inv, ControlInv
<1>2. /\ client.phase = "off" /\ client.conn < MaxConn /\ bridge.ipcs # "INIT"
      /\ client' = [client EXCEPT !.conn = k, !.phase = "init", !.requests = Fresh,
                                  !.stack = <<>>, !.acks = 0, !.ppcstat = 0]
      /\ net' = [net EXCEPT !.up[k] = "up"]
      /\ io' = io /\ mem' = mem /\ bridge' = bridge /\ guest' = guest
  BY DEF Connect
<1>3. hist' = [hist EXCEPT !.races = @ \cup (IF Outstanding = {} THEN {} ELSE {"orphan"})]
  BY DEF Connect
<1>4. client.conn \in Nat /\ k \in Conns /\ k \in 0..MaxConn /\ Conns \subseteq Nat /\ bridge.bsock \in Nat
  BY <1>1, <1>2, Fields, BoundsAssumption DEF Conns
<1>5. /\ client' \in ClientType /\ client'.conn = k /\ client'.phase = "init" /\ client'.requests = Fresh
      /\ client'.acks = 0 /\ client'.ppcstat = 0
  <2>1. Fresh \in [Slots -> Nat] /\ <<>> \in Seq(Slots)
    BY DEF Fresh
  <2> HIDE DEF k
  <2> QED
    BY <1>1, <1>2, <1>4, <2>1 DEF IpcType, ClientType
<1>6. Outstanding' = {}
  BY <1>5 DEF Outstanding, Fresh
<1> HIDE DEF k
<1>7. /\ net' \in NetType /\ net'.c2s = net.c2s /\ net'.s2c = net.s2c /\ net'.up[k] = "up"
      /\ \A j \in Conns : j # k => net'.up[j] = net.up[j]
  <2> DEFINE u == [net.up EXCEPT ![k] = "up"]
  <2>1. net \in NetType /\ net.up \in [Conns -> {"no", "up", "closed"}]
    BY <1>1 DEF IpcType, NetType
  <2>2. net' = [net EXCEPT !.up = u]
    BY <1>2, <2>1 DEF NetType
  <2>3. u \in [Conns -> {"no", "up", "closed"}] /\ u[k] = "up" /\ \A j \in Conns : j # k => u[j] = net.up[j]
    BY <1>4, <2>1
  <2> HIDE DEF u
  <2> QED
    BY <2>1, <2>2, <2>3 DEF NetType
<1>8. /\ hist' \in HistType /\ hist'.reloads = hist.reloads /\ hist'.launched = hist.launched
      /\ "reacked" \notin hist'.races => "reacked" \notin hist.races
  <2> DEFINE r == hist.races \cup (IF Outstanding = {} THEN {} ELSE {"orphan"})
  <2>1. hist \in HistType /\ r \in SUBSET {"resent", "reacked", "orphan", "nested"} /\ hist.races \subseteq r
    BY <1>1 DEF IpcType, HistType
  <2>2. hist' = [hist EXCEPT !.races = r]
    BY <1>3
  <2> HIDE DEF r
  <2> QED
    BY <2>1, <2>2 DEF HistType
<1>9. /\ io' \in IoType /\ mem' \in [Slots -> Block] /\ bridge' \in BridgeType /\ guest' \in GuestType
      /\ MirrorInv' /\ InitInv' /\ DriverInv' /\ SlotInv' /\ AckOwed'
      /\ ~SigPipeIgnored => CrossInv'
  BY <1>2, ClientControl
<1>10. IpcType'
  BY <1>5, <1>7, <1>8, <1>9 DEF IpcType
<1>11. LinkInv'
  <2>1. ASSUME NEW j \in Conns
        PROVE  /\ net'.up[j] = "no" <=> j > k
               /\ net'.up[j] = "up" <=> j = k
               /\ j > k => net'.c2s[j] = <<>>
               /\ j > bridge.bsock => net'.s2c[j] = <<>>
    <3>1. j \in Nat /\ (j > k => j > client.conn) /\ (j # k => (j > k <=> j > client.conn))
      BY <1>4 DEF k
    <3>2. /\ net.up[j] = "no" <=> j > client.conn
          /\ net.up[j] # "up"
          /\ j > client.conn => net.c2s[j] = <<>>
          /\ j > bridge.bsock => net.s2c[j] = <<>>
      BY <1>1, <1>2 DEF LinkInv
    <3>3. CASE j = k
      BY <1>4, <1>7, <3>1, <3>2, <3>3
    <3>4. CASE j # k
      BY <1>7, <3>1, <3>2, <3>4
    <3> QED
      BY <3>3, <3>4
  <2>2. bridge.bsock <= k /\ k # 0 /\ (bridge.ipcs \in {"IDLE", "SNDACK"} => bridge.bsock > 0)
    BY <1>1, <1>4 DEF LinkInv, k
  <2> QED
    BY <1>2, <1>5, <2>1, <2>2 DEF LinkInv
<1>12. BootInv'
  BY <1>1, <1>2, <1>5, <1>6, <1>7 DEF BootInv
<1>13. k > bridge.bsock /\ net'.s2c[k] = <<>>
  BY <1>1, <1>4, <1>7 DEF LinkInv, k
<1>14. StatusInv'
  BY <1>2, <1>4, <1>5, <1>13 DEF StatusInv
<1>15. Told' \in Nat /\ Told' <= Told
  <2>0. Of(<<>>, "ACK") = {} /\ Cardinality({}) = 0
    BY None, FS_EmptySet
  <2>2. Cardinality(Of(net'.s2c[k], "ACK")) = 0 /\ k # 0
    BY <1>4, <1>13, <2>0 DEF Conns
  <2>1. Told \in Nat /\ Told' = hist.launched + 0 + 0
    <3>1. Told' = hist'.launched + client'.acks + Cardinality(Of(net'.s2c[k], "ACK"))
      BY <1>5, <2>2 DEF Told
    <3> QED
      BY <1>1, <1>5, <1>8, <2>2, <3>1, Fields
  <2>3. /\ hist.launched \in Nat /\ client.acks \in Nat
        /\ client.conn # 0 => Cardinality(Of(net.s2c[client.conn], "ACK")) \in Nat
    BY <1>1, <1>4, Fields, OfFinite DEF IpcType, HistType, ClientType
  <2> QED
    BY <2>1, <2>2, <2>3 DEF Told
<1>16. ~SigPipeIgnored => ReloadInv'
  BY <1>2, <1>8, <1>15, ClientReload
<1> QED
  BY <1>9, <1>10, <1>11, <1>12, <1>14, <1>16 DEF Inv, ControlInv

\* What a script that is not waiting sends, or does not send.
LEMMA ScriptControl ==
  ASSUME Inv, client.phase = "ready", io' = io, mem' = mem, bridge' = bridge, guest' = guest,
         \/ net' = net
         \/ \E out \in Seq(ToBridge) : net' = Send(client.conn, out),
         client' \in ClientType, client'.conn = client.conn, client'.phase # "off",
         client'.ppcstat = client.ppcstat, hist' \in HistType
  PROVE  ControlInv' /\ StatusInv' /\ (~SigPipeIgnored => CrossInv') /\ net'.s2c = net.s2c
<1> DEFINE k == client.conn
<1>1. IpcType /\ LinkInv /\ BootInv /\ StatusInv
  BY DEF Inv, ControlInv
<1>2. k \in Conns /\ bridge.ipcs # "INIT" /\ guest.pc # "boot"
  BY <1>1, ScriptRuns DEF BootInv
<1>3. /\ io' \in IoType /\ mem' \in [Slots -> Block] /\ bridge' \in BridgeType /\ guest' \in GuestType
      /\ MirrorInv' /\ InitInv' /\ DriverInv' /\ SlotInv' /\ AckOwed'
      /\ ~SigPipeIgnored => CrossInv'
  BY <1>2, ClientControl
<1>4. net \in NetType /\ net.c2s[k] \in Seq(ToBridge)
  BY <1>1, <1>2, Fields DEF IpcType
<1> HIDE DEF k
<1>5. /\ net' \in NetType /\ net'.up = net.up /\ net'.s2c = net.s2c
      /\ \A j \in Conns : j # k => net'.c2s[j] = net.c2s[j]
  <2>1. CASE net' = net
    BY <1>4, <2>1
  <2>2. CASE \E out \in Seq(ToBridge) : net' = Send(k, out)
    <3>1. PICK out \in Seq(ToBridge) : net' = Send(k, out)
      BY <2>2
    <3> DEFINE c == net.c2s[k] \o out
    <3>2. c \in Seq(ToBridge) /\ net' = Uplink(net, k, c)
      BY <1>4, <3>1, Concatenate DEF Send, Uplink
    <3> HIDE DEF c
    <3>3. Uplinks(net, net', k, c)
      BY <1>2, <1>4, <3>2, UplinkIs
    <3> QED
      BY <3>3, Zenon DEF Uplinks
  <2> QED
    BY <2>1, <2>2 DEF k
<1>6. IpcType'
  BY <1>3, <1>5 DEF IpcType
<1>7. LinkInv'
  <2>1. ASSUME NEW j \in Conns
        PROVE  /\ net'.up[j] = "no" <=> j > k
               /\ net'.up[j] = "up" <=> j = k
               /\ j > k => net'.c2s[j] = <<>>
               /\ j > bridge.bsock => net'.s2c[j] = <<>>
    <3>1. j > k => j # k
      BY <1>2 DEF Conns
    <3> QED
      BY <1>1, <1>5, <3>1 DEF LinkInv, k
  <2>2. k # 0 /\ bridge.bsock <= k /\ (bridge.ipcs \in {"IDLE", "SNDACK"} => bridge.bsock > 0)
    BY <1>1, <1>2 DEF LinkInv, Conns, k
  <2> QED
    BY <2>1, <2>2 DEF LinkInv, k
<1>8. BootInv' /\ StatusInv'
  BY <1>1, <1>2, <1>5 DEF BootInv, StatusInv
<1> QED
  BY <1>3, <1>5, <1>6, <1>7, <1>8 DEF ControlInv

LEMMA IssueInv ==
  ASSUME Inv, ~bridge.exited, Issue
  PROVE  Inv'
<1>1. IpcType
  BY DEF Inv, ControlInv
<1>2. PICK s \in Slots : /\ client' = [client EXCEPT !.requests[s] = hist.issued + 1]
                         /\ net' = Send(client.conn, <<WRITE(s, Request(hist.issued + 1)), MESSAGE(s)>>)
  BY DEF Issue
<1>3. /\ client.phase = "ready" /\ hist' = [hist EXCEPT !.issued = @ + 1]
      /\ io' = io /\ mem' = mem /\ bridge' = bridge /\ guest' = guest
  BY DEF Issue
<1>4. hist \in HistType /\ hist.issued + 1 \in Nat
  BY <1>1 DEF IpcType, HistType
<1>5. /\ hist' \in HistType /\ hist'.reloads = hist.reloads /\ hist'.launched = hist.launched
      /\ hist'.races = hist.races
  BY <1>3, <1>4 DEF HistType
<1>6. /\ client' \in ClientType /\ client'.conn = client.conn /\ client'.phase = client.phase
      /\ client'.ppcstat = client.ppcstat /\ client'.acks = client.acks
  <2> DEFINE r == [client.requests EXCEPT ![s] = hist.issued + 1]
  <2>1. r \in [Slots -> Nat] /\ client \in ClientType
    BY <1>1, <1>4 DEF IpcType, ClientType
  <2>2. client' = [client EXCEPT !.requests = r]
    BY <1>2
  <2> HIDE DEF r
  <2> QED
    BY <2>1, <2>2 DEF ClientType
<1>7. \E out \in Seq(ToBridge) : net' = Send(client.conn, out)
  <2>1. WRITE(s, Request(hist.issued + 1)) \in ToBridge /\ MESSAGE(s) \in ToBridge
    BY <1>4, Messages
  <2>2. <<WRITE(s, Request(hist.issued + 1)), MESSAGE(s)>> \in Seq(ToBridge)
    BY <2>1
  <2> QED
    BY <1>2, <2>2, Zenon
<1>8. ControlInv' /\ StatusInv' /\ (~SigPipeIgnored => CrossInv') /\ net'.s2c = net.s2c
  BY <1>3, <1>5, <1>6, <1>7, ScriptControl
<1>9. Told' = Told /\ Told \in Nat
  BY <1>1, <1>5, <1>6, <1>8, Fields DEF Told
<1>10. ~SigPipeIgnored => ReloadInv'
  BY <1>3, <1>5, <1>9, ClientReload
<1> QED
  BY <1>8, <1>10 DEF Inv

\* waitppc() may move on; it changes nothing else.
LEMMA WaitedIs ==
  ASSUME NEW c \in ClientType, NEW d, d = Waited(c)
  PROVE  /\ d \in ClientType /\ d.conn = c.conn /\ d.requests = c.requests /\ d.stack = c.stack
         /\ d.acks = c.acks /\ d.ppcstat = c.ppcstat
         /\ d.phase = "off" <=> c.phase = "off"
         /\ c.phase \in {"off", "init"} => d.phase = c.phase
<1> DEFINE p == IF c.stack # <<>> THEN c.phase
                ELSE IF c.phase = "waitdead" /\ c.ppcstat = 0 THEN "waitalive"
                ELSE IF c.phase = "waitalive" /\ c.ppcstat = 1 THEN "ready" ELSE c.phase
<1>1. d = [c EXCEPT !.phase = p]
  BY DEF Waited
<1>2. /\ p \in {"off", "init", "ready", "waitdead", "waitalive", "leaving"}
      /\ p = "off" <=> c.phase = "off"
      /\ c.phase \in {"off", "init"} => p = c.phase
  BY DEF ClientType
<1> HIDE DEF p
<1> QED
  BY <1>1, <1>2 DEF ClientType

LEMMA WaitPpcInv ==
  ASSUME Inv, ~bridge.exited, WaitPpc
  PROVE  Inv'
<1> DEFINE c == [client EXCEPT !.phase = "waitdead"]
<1>1. IpcType
  BY DEF Inv, ControlInv
<1>2. /\ client.phase = "ready" /\ client' = Waited(c)
      /\ io' = io /\ mem' = mem /\ bridge' = bridge /\ guest' = guest /\ net' = net /\ hist' = hist
  BY DEF WaitPpc
<1>3. c \in ClientType /\ c.conn = client.conn /\ c.acks = client.acks /\ c.ppcstat = client.ppcstat
      /\ c.phase # "off"
  BY <1>1 DEF IpcType, ClientType
<1> HIDE DEF c
<1>4. /\ client' \in ClientType /\ client'.conn = client.conn /\ client'.phase # "off"
      /\ client'.ppcstat = client.ppcstat /\ client'.acks = client.acks
  BY <1>2, <1>3, WaitedIs
<1>5. ControlInv' /\ StatusInv' /\ (~SigPipeIgnored => CrossInv')
  BY <1>1, <1>2, <1>4, ScriptControl DEF IpcType
<1>6. Told' = Told /\ Told \in Nat
  BY <1>1, <1>2, <1>4, Fields DEF Told
<1>7. ~SigPipeIgnored => ReloadInv'
  BY <1>2, <1>6, ClientReload
<1> QED
  BY <1>5, <1>7 DEF Inv

LEMMA LaunchedInv ==
  ASSUME Inv, ~bridge.exited, Launched
  PROVE  Inv'
<1>1. IpcType
  BY DEF Inv, ControlInv
<1>2. /\ client.phase = "ready" /\ client.acks > 0 /\ client' = [client EXCEPT !.acks = 0, !.requests = Fresh]
      /\ net' = Send(client.conn, <<ACK>>) /\ hist' = [hist EXCEPT !.launched = @ + 1]
      /\ io' = io /\ mem' = mem /\ bridge' = bridge /\ guest' = guest
  BY DEF Launched
<1>3. hist \in HistType /\ hist.launched \in Nat /\ hist.launched + 1 \in Nat /\ client.acks \in Nat
  BY <1>1 DEF IpcType, HistType, ClientType
<1>4. /\ hist' \in HistType /\ hist'.reloads = hist.reloads /\ hist'.launched = hist.launched + 1
      /\ hist'.races = hist.races
  BY <1>2, <1>3 DEF HistType
<1>5. /\ client' \in ClientType /\ client'.conn = client.conn /\ client'.phase = client.phase
      /\ client'.ppcstat = client.ppcstat /\ client'.acks = 0
  <2>1. Fresh \in [Slots -> Nat]
    BY DEF Fresh
  <2> QED
    BY <1>1, <1>2, <2>1 DEF IpcType, ClientType
<1>6. \E out \in Seq(ToBridge) : net' = Send(client.conn, out)
  <2>1. <<ACK>> \in Seq(ToBridge)
    BY Messages
  <2> QED
    BY <1>2, <2>1, Zenon
<1>7. ControlInv' /\ StatusInv' /\ (~SigPipeIgnored => CrossInv') /\ net'.s2c = net.s2c
  BY <1>2, <1>4, <1>5, <1>6, ScriptControl
<1>8. Told' \in Nat /\ Told' <= Told
  <2> DEFINE n == IF client.conn = 0 THEN 0 ELSE Cardinality(Of(net.s2c[client.conn], "ACK"))
  <2>1. Told = hist.launched + client.acks + n /\ Told' = hist.launched + 1 + 0 + n
    BY <1>4, <1>5, <1>7 DEF Told
  <2>2. n \in Nat
    BY <1>1, Fields, OfFinite
  <2> HIDE DEF n
  <2> QED
    BY <1>2, <1>3, <2>1, <2>2
<1>9. ~SigPipeIgnored => ReloadInv'
  BY <1>2, <1>4, <1>8, ClientReload
<1> QED
  BY <1>7, <1>9 DEF Inv

LEMMA ExitInv ==
  ASSUME Inv, ~bridge.exited, Exit
  PROVE  Inv'
<1>1. IpcType
  BY DEF Inv, ControlInv
<1>2. /\ client.phase = "ready" /\ client' = [client EXCEPT !.phase = "leaving"]
      /\ net' = Send(client.conn, <<EXIT>>)
      /\ io' = io /\ mem' = mem /\ bridge' = bridge /\ guest' = guest /\ hist' = hist
  BY DEF Exit
<1>3. /\ client' \in ClientType /\ client'.conn = client.conn /\ client'.phase # "off"
      /\ client'.ppcstat = client.ppcstat /\ client'.acks = client.acks
  BY <1>1, <1>2 DEF IpcType, ClientType
<1>4. \E out \in Seq(ToBridge) : net' = Send(client.conn, out)
  <2>1. <<EXIT>> \in Seq(ToBridge)
    BY Messages
  <2> QED
    BY <1>2, <2>1, Zenon
<1>5. ControlInv' /\ StatusInv' /\ (~SigPipeIgnored => CrossInv') /\ net'.s2c = net.s2c
  BY <1>1, <1>2, <1>3, <1>4, ScriptControl DEF IpcType
<1>6. Told' = Told /\ Told \in Nat
  BY <1>1, <1>2, <1>3, <1>5, Fields DEF Told
<1>7. ~SigPipeIgnored => ReloadInv'
  BY <1>2, <1>6, ClientReload
<1> QED
  BY <1>5, <1>7 DEF Inv

LEMMA DisconnectInv ==
  ASSUME Inv, ~bridge.exited, Disconnect
  PROVE  Inv'
<1> DEFINE k == client.conn
<1>1. IpcType /\ LinkInv /\ BootInv
  BY DEF Inv, ControlInv
<1>2. /\ client.phase # "off" /\ client' = [client EXCEPT !.phase = "off"]
      /\ net' = [net EXCEPT !.up[k] = "closed", !.s2c[k] = <<>>]
      /\ io' = io /\ mem' = mem /\ bridge' = bridge /\ guest' = guest /\ hist' = hist
  BY DEF Disconnect
<1>3. k \in Conns /\ bridge.ipcs # "INIT" /\ k \in Nat /\ k # 0
  BY <1>2, ScriptRuns DEF Conns
<1>4. /\ client' \in ClientType /\ client'.conn = client.conn /\ client'.phase = "off"
      /\ client'.acks = client.acks /\ client'.requests = client.requests
  BY <1>1, <1>2 DEF IpcType, ClientType
<1> HIDE DEF k
<1>5. /\ net' \in NetType /\ net'.c2s = net.c2s /\ net'.up[k] = "closed" /\ net'.s2c[k] = <<>>
      /\ \A j \in Conns : j # k => net'.up[j] = net.up[j] /\ net'.s2c[j] = net.s2c[j]
  <2> DEFINE u == [net.up EXCEPT ![k] = "closed"]
             s == [net.s2c EXCEPT ![k] = <<>>]
  <2>1. /\ net \in NetType /\ net.up \in [Conns -> {"no", "up", "closed"}]
        /\ net.s2c \in [Conns -> Seq(ToClient)] /\ net.c2s \in [Conns -> Seq(ToBridge)]
    BY <1>1 DEF IpcType, NetType
  <2>2. net' = [net EXCEPT !.up = u, !.s2c = s]
    BY <1>2, <2>1 DEF NetType
  <2>3. u \in [Conns -> {"no", "up", "closed"}] /\ u[k] = "closed" /\ \A j \in Conns : j # k => u[j] = net.up[j]
    BY <1>3, <2>1
  <2>4. s \in [Conns -> Seq(ToClient)] /\ s[k] = <<>> /\ \A j \in Conns : j # k => s[j] = net.s2c[j]
    BY <1>3, <2>1
  <2> HIDE DEF u, s
  <2>5. net' = [up |-> u, c2s |-> net.c2s, s2c |-> s]
    BY <2>1, <2>2 DEF NetType
  <2>6. net'.up = u /\ net'.c2s = net.c2s /\ net'.s2c = s
    BY <2>5
  <2>7. net' \in NetType
    BY <2>1, <2>3, <2>4, <2>5 DEF NetType
  <2> QED
    BY <2>3, <2>4, <2>6, <2>7
<1>6. /\ io' \in IoType /\ mem' \in [Slots -> Block] /\ bridge' \in BridgeType /\ guest' \in GuestType
      /\ MirrorInv' /\ InitInv' /\ DriverInv' /\ SlotInv' /\ AckOwed'
      /\ ~SigPipeIgnored => CrossInv'
  BY <1>2, <1>3, ClientControl
<1>7. IpcType'
  BY <1>1, <1>2, <1>4, <1>5, <1>6 DEF IpcType
<1>8. LinkInv'
  <2>1. ASSUME NEW j \in Conns
        PROVE  /\ net'.up[j] = "no" <=> j > k
               /\ net'.up[j] # "up"
               /\ j > k => net'.c2s[j] = <<>>
               /\ j > bridge.bsock => net'.s2c[j] = <<>>
    <3>1. /\ net.up[j] = "no" <=> j > k
          /\ net.up[j] = "up" => j = k
          /\ j > k => net.c2s[j] = <<>>
          /\ j > bridge.bsock => net.s2c[j] = <<>>
      BY <1>1 DEF LinkInv, k
    <3>2. CASE j = k
      BY <1>3, <1>5, <3>1, <3>2
    <3>3. CASE j # k
      BY <1>5, <3>1, <3>3
    <3> QED
      BY <3>2, <3>3
  <2>2. bridge.bsock <= k /\ (bridge.ipcs \in {"IDLE", "SNDACK"} => bridge.bsock > 0)
    BY <1>1 DEF LinkInv, k
  <2> QED
    BY <1>2, <1>3, <1>4, <2>1, <2>2 DEF LinkInv, k
<1>9. BootInv'
  <2>1. \A j \in Conns : SaysOff(net.s2c[j]) => SaysOff(net'.s2c[j])
    BY <1>5, None
  <2>2. Outstanding' = Outstanding
    BY <1>4 DEF Outstanding
  <2> QED
    BY <1>1, <1>2, <1>4, <1>5, <2>1, <2>2 DEF BootInv
<1>10. StatusInv'
  BY <1>4 DEF StatusInv
<1>11. Told' \in Nat /\ Told' <= Told
  <2> DEFINE n == Cardinality(Of(net.s2c[k], "ACK"))
  <2>1. Of(net'.s2c[k], "ACK") = {} /\ Cardinality({}) = 0
    <3>1. \A type : Of(<<>>, type) = {}
      BY None
    <3> QED
      BY <1>5, <3>1, FS_EmptySet
  <2>5. Cardinality(Of(net'.s2c[k], "ACK")) = 0
    BY <2>1
  <2>2. Told = hist.launched + client.acks + n
    BY <1>3 DEF Told, k
  <2>3. Told' = hist.launched + client.acks + Cardinality(Of(net'.s2c[k], "ACK"))
    BY <1>2, <1>3, <1>4 DEF Told, k
  <2>4. n \in Nat /\ hist.launched \in Nat /\ client.acks \in Nat
    BY <1>1, <1>3, Fields, OfFinite DEF IpcType, HistType, ClientType
  <2> HIDE DEF n
  <2> QED
    BY <2>2, <2>3, <2>4, <2>5
<1>12. ~SigPipeIgnored => ReloadInv'
  BY <1>2, <1>11, ClientReload
<1> QED
  BY <1>6, <1>7, <1>8, <1>9, <1>10, <1>12 DEF Inv, ControlInv

\* What processmsg() receives and may send.
LEMMA Receives ==
  ASSUME IpcType, NEW k \in Conns, net.s2c[k] # <<>>, NEW rest, rest = Downlink(net, k, Tail(net.s2c[k])),
         NEW n, n = rest \/ \E m \in ToBridge : n = Uplink(rest, k, Append(rest.c2s[k], m))
  PROVE  /\ n \in NetType /\ n.up = net.up /\ n.s2c[k] = Tail(net.s2c[k])
         /\ \A j \in Conns : j # k => n.s2c[j] = net.s2c[j] /\ n.c2s[j] = net.c2s[j]
         /\ n = rest => n.c2s = net.c2s
<1>1. net \in NetType /\ net.s2c[k] \in Seq(ToClient)
  BY Fields DEF IpcType
<1> DEFINE t == Tail(net.s2c[k])
<1>2. t \in Seq(ToClient)
  BY <1>1, TailIs
<1>3. rest = Downlink(net, k, t)
  OBVIOUS
<1> HIDE DEF t
<1>4. Downlinks(net, rest, k, t) /\ t = Tail(net.s2c[k])
  <2>1. t = Tail(net.s2c[k])
    BY DEF t
  <2> QED
    BY <1>1, <1>2, <1>3, <2>1, DownlinkIs
<1>5. /\ rest \in NetType /\ rest.up = net.up /\ rest.c2s = net.c2s /\ rest.s2c[k] = Tail(net.s2c[k])
      /\ \A j \in Conns : j # k => rest.s2c[j] = net.s2c[j]
  BY <1>4, Zenon DEF Downlinks
<1>6. CASE n = rest
  BY <1>5, <1>6
<1>7. CASE \E m \in ToBridge : n = Uplink(rest, k, Append(rest.c2s[k], m))
  <2>1. PICK m \in ToBridge : n = Uplink(rest, k, Append(rest.c2s[k], m))
    BY <1>7
  <2> DEFINE c == Append(rest.c2s[k], m)
  <2>2. n = Uplink(rest, k, c)
    BY <2>1
  <2>3. c \in Seq(ToBridge)
    <3>1. rest.c2s \in [Conns -> Seq(ToBridge)]
      BY <1>5 DEF NetType
    <3>2. rest.c2s[k] \in Seq(ToBridge)
      BY <3>1
    <3> DEFINE d == rest.c2s[k]
    <3> HIDE DEF d
    <3>3. Append(d, m) \in Seq(ToBridge)
      BY <3>2 DEF d
    <3> QED
      BY <3>3 DEF d
  <2> HIDE DEF c
  <2>4. Uplinks(rest, n, k, c)
    BY <1>5, <2>2, <2>3, UplinkIs
  <2>5. /\ n \in NetType /\ n.up = rest.up /\ n.s2c = rest.s2c
        /\ \A j \in Conns : j # k => n.c2s[j] = rest.c2s[j]
    BY <2>4, Zenon DEF Uplinks
  <2>6. n.s2c[k] = Tail(net.s2c[k])
    BY <1>5, <2>5, Zenon
  <2>7. n.up = net.up /\ \A j \in Conns : j # k => n.s2c[j] = net.s2c[j] /\ n.c2s[j] = net.c2s[j]
    BY <1>5, <2>5, Zenon
  <2>8. n = rest => n.c2s = net.c2s
    BY <1>5
  <2> QED
    BY <2>5, <2>6, <2>7, <2>8
<1> QED
  BY <1>6, <1>7

\* What processmsg() does to the script.
LEMMA Processes ==
  ASSUME Inv, ProcessMsg, NEW k, k = client.conn, NEW m, m = Head(net.s2c[k]),
         NEW rest, rest = [net EXCEPT !.s2c[k] = Tail(@)]
  PROVE  /\ client' \in ClientType /\ client'.conn = k /\ hist' \in HistType
         /\ client'.phase = "off" <=> client.phase = "off"
         /\ client'.ppcstat = IF m.msg = "STATUS" THEN m.arg ELSE client.ppcstat
         /\ client'.acks = IF m.msg = "ACK" THEN client.acks + 1 ELSE client.acks
         /\ Outstanding' \subseteq Outstanding
         /\ hist'.reloads = hist.reloads /\ hist'.launched = hist.launched
         /\ "reacked" \notin hist'.races => "reacked" \notin hist.races
         /\ net' = rest \/ \E r \in ToBridge : net' = [rest EXCEPT !.c2s[k] = Append(@, r)]
         /\ client.phase \in {"off", "init"} /\ Outstanding = {} /\ (m.msg = "STATUS" => m.arg = 0) =>
              client'.phase = client.phase /\ net' = rest
<1>1. IpcType /\ LinkInv
  BY DEF Inv, ControlInv
<1>2. k \in Conns /\ net.s2c[k] # <<>>
  <2>1. client.phase # "off" \/ Outstanding # {}
    BY DEF ProcessMsg
  <2> QED
    BY <2>1, ScriptRuns DEF ProcessMsg
<1>3. m \in ToClient /\ client \in ClientType /\ hist \in HistType
  BY <1>1, <1>2, Fields, TailIs DEF IpcType
<1>4. CASE m.msg = "STATUS"
  <2> DEFINE p == IF client.phase = "init" /\ m.arg = 1 THEN "ready" ELSE client.phase
             c == [client EXCEPT !.ppcstat = m.arg, !.phase = p]
  <2>1. /\ client' = Waited(c) /\ hist' = hist
        /\ net' = IF client.phase = "init" /\ m.arg = 1
                  THEN [rest EXCEPT !.c2s[k] = Append(@, ACK)] ELSE rest
    BY <1>4 DEF ProcessMsg
  <2>2. m.arg \in {0, 1}
    BY <1>3, <1>4 DEF ToClient
  <2>3. /\ p \in {"off", "init", "ready", "waitdead", "waitalive", "leaving"}
        /\ p = "off" <=> client.phase = "off"
        /\ client.phase \in {"off", "init"} /\ m.arg = 0 => p = client.phase
    BY <1>3 DEF ClientType
  <2> HIDE DEF p
  <2>4. /\ c \in ClientType /\ c.conn = k /\ c.requests = client.requests /\ c.acks = client.acks
        /\ c.ppcstat = m.arg /\ c.phase = p
    BY <1>3, <2>2, <2>3 DEF ClientType
  <2> HIDE DEF c
  <2>5. /\ client' \in ClientType /\ client'.conn = k /\ client'.requests = client.requests
        /\ client'.acks = client.acks /\ client'.ppcstat = m.arg
        /\ client'.phase = "off" <=> client.phase = "off"
        /\ client.phase \in {"off", "init"} /\ m.arg = 0 => client'.phase = client.phase
    BY <2>1, <2>3, <2>4, WaitedIs
  <2>6. Outstanding' = Outstanding
    BY <2>5 DEF Outstanding
  <2>7. net' = rest \/ \E r \in ToBridge : net' = [rest EXCEPT !.c2s[k] = Append(@, r)]
    BY <2>1, Messages
  <2>8. m.arg = 0 => net' = rest
    BY <2>1
  <2>9. hist' \in HistType /\ hist'.reloads = hist.reloads /\ hist'.launched = hist.launched
        /\ hist'.races = hist.races
    BY <1>3, <2>1
  <2> QED
    BY <1>4, <2>5, <2>6, <2>7, <2>8, <2>9, Zenon
<1>5. CASE m.msg = "ACK"
  <2>1. client' = [client EXCEPT !.acks = @ + 1] /\ hist' = hist /\ net' = rest
    BY <1>5 DEF ProcessMsg
  <2>2. /\ client' \in ClientType /\ client'.conn = k /\ client'.requests = client.requests
        /\ client'.acks = client.acks + 1 /\ client'.ppcstat = client.ppcstat /\ client'.phase = client.phase
    <3> DEFINE a == client.acks + 1
    <3>1. a \in Nat
      BY <1>3 DEF ClientType
    <3>2. client' = [client EXCEPT !.acks = a]
      BY <2>1
    <3> HIDE DEF a
    <3>3. /\ client' \in ClientType /\ client'.conn = k /\ client'.requests = client.requests
          /\ client'.acks = a /\ client'.ppcstat = client.ppcstat /\ client'.phase = client.phase
      BY <1>3, <3>1, <3>2 DEF ClientType
    <3> QED
      BY <3>3 DEF a
  <2>3. Outstanding' = Outstanding
    BY <2>2 DEF Outstanding
  <2> QED
    BY <1>3, <1>5, <2>1, <2>2, <2>3
<1>6. CASE m.msg = "MESSAGE"
  <2>1. CASE m.arg \in Outstanding
    <3>1. /\ client' = [client EXCEPT !.stack = Append(@, m.arg)]
          /\ net' = [rest EXCEPT !.c2s[k] = Append(@, READ(m.arg, Nothing))]
          /\ hist' = [hist EXCEPT !.races = @ \cup (IF client.stack = <<>> THEN {} ELSE {"nested"})]
      BY <1>6, <2>1 DEF ProcessMsg
    <3>2. m.arg \in Slots
      BY <2>1 DEF Outstanding
    <3>3. READ(m.arg, Nothing) \in ToBridge
      BY <3>2, Messages
    <3>4. /\ client' \in ClientType /\ client'.conn = k /\ client'.requests = client.requests
          /\ client'.acks = client.acks /\ client'.ppcstat = client.ppcstat /\ client'.phase = client.phase
      <4> DEFINE s == Append(client.stack, m.arg)
      <4>1. s \in Seq(Slots)
        BY <1>3, <3>2 DEF ClientType
      <4>2. client' = [client EXCEPT !.stack = s]
        BY <3>1
      <4> HIDE DEF s
      <4> QED
        BY <1>3, <4>1, <4>2 DEF ClientType
    <3>5. Outstanding' = Outstanding
      BY <3>4 DEF Outstanding
    <3>6. /\ hist' \in HistType /\ hist'.reloads = hist.reloads /\ hist'.launched = hist.launched
          /\ "reacked" \notin hist'.races => "reacked" \notin hist.races
      <4> DEFINE x == hist.races \cup (IF client.stack = <<>> THEN {} ELSE {"nested"})
      <4>1. x \in SUBSET {"resent", "reacked", "orphan", "nested"} /\ hist.races \subseteq x
        BY <1>3 DEF HistType
      <4>2. hist' = [hist EXCEPT !.races = x]
        BY <3>1
      <4> HIDE DEF x
      <4> QED
        BY <1>3, <4>1, <4>2 DEF HistType
    <3> QED
      BY <1>6, <2>1, <3>1, <3>3, <3>4, <3>5, <3>6
  <2>2. CASE m.arg \notin Outstanding
    <3>1. client' = client /\ hist' = hist /\ net' = rest
      BY <1>6, <2>2 DEF ProcessMsg
    <3>2. Outstanding' = Outstanding
      BY <3>1 DEF Outstanding
    <3> QED
      BY <1>3, <1>6, <3>1, <3>2
  <2> QED
    BY <2>1, <2>2
<1>7. CASE m.msg = "READ"
  <2> DEFINE done == {client.stack[i] : i \in 1..Len(client.stack)}
             q == [s \in Slots |-> IF s \in done THEN 0 ELSE client.requests[s]]
             c == [client EXCEPT !.stack = <<>>, !.requests = q]
             x == [i \in Ids |-> IF \E s \in done : client.requests[s] = i THEN m.buf ELSE hist.results[i]]
  <2>1. client' = Waited(c) /\ hist' = [hist EXCEPT !.results = x] /\ net' = rest
    BY <1>7 DEF ProcessMsg, FinishReads
  <2>2. q \in [Slots -> Nat] /\ x \in [Ids -> Block] /\ <<>> \in Seq(Slots)
    BY <1>3 DEF ClientType, HistType, ToClient, Message
  <2>3. \A s \in Slots : q[s] # 0 => client.requests[s] # 0
    OBVIOUS
  <2> HIDE DEF q, x
  <2>4. c \in ClientType /\ c.conn = k /\ c.requests = q /\ c.acks = client.acks /\ c.ppcstat = client.ppcstat
        /\ c.phase = client.phase
    BY <1>3, <2>2 DEF ClientType
  <2>5. /\ hist' \in HistType /\ hist'.reloads = hist.reloads /\ hist'.launched = hist.launched
        /\ hist'.races = hist.races
    BY <1>3, <2>1, <2>2 DEF HistType
  <2> HIDE DEF c
  <2>6. /\ client' \in ClientType /\ client'.conn = k /\ client'.requests = q /\ client'.acks = client.acks
        /\ client'.ppcstat = client.ppcstat
        /\ client'.phase = "off" <=> client.phase = "off"
        /\ client.phase \in {"off", "init"} => client'.phase = client.phase
    BY <2>1, <2>4, WaitedIs
  <2>7. Outstanding' \subseteq Outstanding
    BY <2>3, <2>6 DEF Outstanding
  <2> QED
    BY <1>7, <2>1, <2>5, <2>6, <2>7
<1> QED
  BY <1>4, <1>5, <1>6, <1>7 DEF ProcessMsg

LEMMA ProcessMsgInv ==
  ASSUME Inv, ~bridge.exited, ProcessMsg
  PROVE  Inv'
<1> DEFINE k == client.conn
           s == net.s2c[k]
           m == Head(s)
           t == Tail(s)
           rest == [net EXCEPT !.s2c[k] = Tail(@)]
<1>1. IpcType /\ LinkInv /\ BootInv /\ StatusInv
  BY DEF Inv, ControlInv
<1>2. k \in Conns /\ bridge.ipcs # "INIT" /\ s # <<>>
  <2>1. client.phase # "off" \/ Outstanding # {}
    BY DEF ProcessMsg
  <2> QED
    BY <2>1, ScriptRuns DEF ProcessMsg
<1>3. /\ client' \in ClientType /\ client'.conn = k /\ hist' \in HistType
      /\ client'.phase = "off" <=> client.phase = "off"
      /\ client'.ppcstat = IF m.msg = "STATUS" THEN m.arg ELSE client.ppcstat
      /\ client'.acks = IF m.msg = "ACK" THEN client.acks + 1 ELSE client.acks
      /\ Outstanding' \subseteq Outstanding
      /\ hist'.reloads = hist.reloads /\ hist'.launched = hist.launched
      /\ "reacked" \notin hist'.races => "reacked" \notin hist.races
      /\ net' = rest \/ \E r \in ToBridge : net' = [rest EXCEPT !.c2s[k] = Append(@, r)]
      /\ client.phase \in {"off", "init"} /\ Outstanding = {} /\ (m.msg = "STATUS" => m.arg = 0) =>
           client'.phase = client.phase /\ net' = rest
  BY Processes
<1>4. s \in Seq(ToClient)
  BY <1>1, <1>2, Fields
<1>5. io' = io /\ mem' = mem /\ bridge' = bridge /\ guest' = guest
  BY DEF ProcessMsg
<1>6. /\ net' \in NetType /\ net'.up = net.up /\ net'.s2c[k] = t
      /\ \A j \in Conns : j # k => net'.s2c[j] = net.s2c[j] /\ net'.c2s[j] = net.c2s[j]
      /\ net' = rest => net'.c2s = net.c2s
  <2>1. rest = Downlink(net, k, t)
    BY DEF Downlink
  <2>2. net' = rest \/ \E r \in ToBridge : net' = Uplink(rest, k, Append(rest.c2s[k], r))
    BY <1>3 DEF Uplink
  <2> HIDE DEF rest, k
  <2> QED
    BY <1>1, <1>2, <2>1, <2>2, Receives
<1>7. k \in Nat /\ k # 0
  BY <1>2 DEF Conns
<1>8. k <= bridge.bsock
  BY <1>1, <1>2, <1>7, Fields DEF LinkInv
<1> HIDE DEF k, s, m, t, rest
<1>9. /\ io' \in IoType /\ mem' \in [Slots -> Block] /\ bridge' \in BridgeType /\ guest' \in GuestType
      /\ MirrorInv' /\ InitInv' /\ DriverInv' /\ SlotInv' /\ AckOwed'
      /\ ~SigPipeIgnored => CrossInv'
  BY <1>2, <1>5, ClientControl
<1>10. IpcType'
  BY <1>3, <1>6, <1>9 DEF IpcType
<1>11. LinkInv'
  <2>1. ASSUME NEW j \in Conns
        PROVE  /\ net'.up[j] = "no" <=> j > k
               /\ net'.up[j] = "up" <=> j = k /\ client'.phase # "off"
               /\ j > k => net'.c2s[j] = <<>>
               /\ j > bridge.bsock => net'.s2c[j] = <<>>
    <3>1. j \in Nat /\ (j > k => j # k) /\ (j > bridge.bsock => j # k)
      BY <1>1, <1>7, <1>8, Fields DEF Conns
    <3>2. /\ net.up[j] = "no" <=> j > k
          /\ net.up[j] = "up" <=> j = k /\ client.phase # "off"
          /\ j > k => net.c2s[j] = <<>>
          /\ j > bridge.bsock => net.s2c[j] = <<>>
      BY <1>1 DEF LinkInv, k
    <3> QED
      BY <1>3, <1>6, <3>1, <3>2
  <2>2. bridge.bsock <= k /\ (bridge.ipcs \in {"IDLE", "SNDACK"} => bridge.bsock > 0)
    BY <1>1 DEF LinkInv, k
  <2> QED
    BY <1>3, <1>5, <1>7, <2>1, <2>2 DEF LinkInv
<1>12. BootInv'
  <2> SUFFICES ASSUME guest.pc = "boot" PROVE BootInv'
    BY <1>5 DEF BootInv
  <2>1. /\ io.ppc_running = 0 /\ io.armctrl \cap {Sent, Acked} = {} /\ bridge.ipcs # "SNDACK"
        /\ client.phase \in {"off", "init"} /\ Outstanding = {}
        /\ \A j \in Conns : net.c2s[j] = <<>> /\ SaysOff(net.s2c[j])
    BY <1>1 DEF BootInv
  <2>2. SaysOff(t) /\ (m.msg = "STATUS" => m.arg = 0)
    BY <1>2, <1>4, <2>1, OffReceived DEF s, t, m
  <2>3. client'.phase = client.phase /\ net' = rest /\ Outstanding' = {}
    BY <1>3, <2>1, <2>2
  <2>4. \A j \in Conns : net'.c2s[j] = <<>> /\ SaysOff(net'.s2c[j])
    BY <1>6, <2>1, <2>2, <2>3
  <2> QED
    BY <1>5, <2>1, <2>3, <2>4 DEF BootInv
<1>13. StatusInv'
  <2> SUFFICES ASSUME bridge.ipcs \in {"IDLE", "SNDACK"}, k = bridge.bsock, client.phase # "off"
               PROVE  Knows(net'.s2c[k], client'.ppcstat, bridge.last)
    BY <1>3, <1>5 DEF StatusInv
  <2>1. Knows(s, client.ppcstat, bridge.last)
    BY <1>1 DEF StatusInv, k, s
  <2>2. Knows(t, IF m.msg = "STATUS" THEN m.arg ELSE client.ppcstat, bridge.last)
    BY <1>2, <1>4, <2>1, StatusReceived DEF t, m
  <2> QED
    BY <1>3, <1>6, <2>2
<1>14. Told' \in Nat /\ Told' <= Told
  <2> DEFINE a == Cardinality(Of(s, "ACK"))
             b == Cardinality(Of(t, "ACK"))
  <2>1. Told = hist.launched + client.acks + a
    BY <1>7 DEF Told, k, s
  <2>2. Told' = hist.launched + client'.acks + b
    BY <1>3, <1>6, <1>7 DEF Told
  <2>3. b + (IF m.msg = "ACK" THEN 1 ELSE 0) <= a
    BY <1>2, <1>4, OfReceived DEF t, m
  <2>4. a \in Nat /\ b \in Nat
    <3>1. t \in Seq(ToClient)
      BY <1>2, <1>4, TailIs DEF t
    <3> QED
      BY <1>4, <3>1, OfFinite
  <2>5. hist.launched \in Nat /\ client.acks \in Nat
    BY <1>1 DEF IpcType, HistType, ClientType
  <2> HIDE DEF a, b
  <2> QED
    BY <1>3, <2>1, <2>2, <2>3, <2>4, <2>5
<1>15. ~SigPipeIgnored => ReloadInv'
  BY <1>3, <1>5, <1>14, ClientReload
<1> QED
  BY <1>9, <1>10, <1>11, <1>12, <1>13, <1>15 DEF Inv, ControlInv

-----------------------------------------------------------------------------
(* The invariant.                                                           *)

LEMMA InitialInv ==
  ASSUME Init
  PROVE  Inv
<1>1. /\ io = [ppcctrl |-> {}, armctrl |-> {}, ppcmsg |-> 0, armmsg |-> 0,
               irq_active |-> {}, irq_active_ppc |-> {}, irq_enabled |-> {}, irqLow |-> FALSE,
               ppc_running |-> 0]
      /\ mem = [s \in Slots |-> Nothing]
      /\ bridge = [ipcs |-> "INIT", bsock |-> 0, last |-> 0, exited |-> FALSE]
      /\ guest = [pc |-> "boot", ctrl |-> {}, todo |-> {}]
  BY DEF Init
<1>2. /\ net = [up |-> [k \in Conns |-> "no"], c2s |-> [k \in Conns |-> <<>>],
                s2c |-> [k \in Conns |-> <<>>]]
      /\ client = [conn |-> 0, phase |-> "off", requests |-> Fresh, stack |-> <<>>,
                   acks |-> 0, ppcstat |-> 0]
      /\ hist = [issued |-> 0, taken |-> <<>>, results |-> [i \in Ids |-> Nothing],
                 reloads |-> 0, launched |-> 0, flips |-> 0, races |-> {}]
  BY DEF Init
<1>3. io \in IoType
  BY <1>1 DEF IoType
<1>4. mem \in [Slots -> Block]
  BY <1>1, Messages
<1>5. bridge \in BridgeType
  BY <1>1, BoundsAssumption DEF BridgeType
<1>6. guest \in GuestType
  BY <1>1 DEF GuestType
<1>7. net \in NetType
  <2>1. <<>> \in Seq(ToBridge) /\ <<>> \in Seq(ToClient)
    OBVIOUS
  <2>2. /\ [k \in Conns |-> "no"] \in [Conns -> {"no", "up", "closed"}]
        /\ [k \in Conns |-> <<>>] \in [Conns -> Seq(ToBridge)]
        /\ [k \in Conns |-> <<>>] \in [Conns -> Seq(ToClient)]
    BY <2>1
  <2> QED
    BY <1>2, <2>2, NetIs, Zenon
<1>8. client \in ClientType
  <2>1. Fresh \in [Slots -> Nat] /\ <<>> \in Seq(Slots) /\ 0 \in 0..MaxConn
    BY BoundsAssumption DEF Fresh
  <2> QED
    BY <1>2, <2>1 DEF ClientType
<1>9. hist \in HistType
  <2>1. [i \in Ids |-> Nothing] \in [Ids -> Block] /\ <<>> \in Seq(Block)
    BY Messages
  <2> QED
    BY <1>2, <2>1 DEF HistType
<1>10. Outstanding = {}
  BY <1>2 DEF Outstanding, Fresh
<1>11. /\ bridge.ipcs = "INIT" /\ bridge.bsock = 0 /\ client.conn = 0 /\ client.phase = "off"
       /\ io.ppcctrl = {} /\ io.armctrl = {} /\ io.irqLow = FALSE /\ io.ppc_running = 0
       /\ guest.pc = "boot" /\ guest.todo = {} /\ hist.launched = 0 /\ client.acks = 0 /\ hist.reloads = 0
  BY <1>1, <1>2
<1>12. \A k \in Conns : k > 0 /\ net.up[k] = "no" /\ net.c2s[k] = <<>> /\ net.s2c[k] = <<>>
  BY <1>2 DEF Conns
<1>13. IpcType /\ MirrorInv
  BY <1>3, <1>4, <1>5, <1>6, <1>7, <1>8, <1>9, <1>11 DEF IpcType, MirrorInv, Mirrored
<1>14. LinkInv
  BY <1>10, <1>11, <1>12 DEF LinkInv
<1>15. InitInv
  BY <1>11, Zenon DEF InitInv
<1>16. BootInv
  <2>1. SaysOff(<<>>)
    BY None
  <2> QED
    BY <1>10, <1>11, <1>12, <2>1 DEF BootInv
<1>17. DriverInv /\ SlotInv /\ AckOwed /\ StatusInv /\ CrossInv
  BY <1>11 DEF DriverInv, SlotInv, AckOwed, StatusInv, CrossInv, Reads
<1>18. ReloadInv
  <2>1. Told = 0 /\ Announced = 0
    BY <1>11 DEF Told, Announced
  <2> QED
    BY <1>11, <2>1 DEF ReloadInv, Reads
<1> QED
  BY <1>13, <1>14, <1>15, <1>16, <1>17, <1>18 DEF Inv, ControlInv

LEMMA NextInv ==
  ASSUME Inv, [Next]_vars
  PROVE  Inv'
<1>1. CASE UNCHANGED vars
  <2>1. /\ io' = io /\ mem' = mem /\ bridge' = bridge /\ guest' = guest /\ net' = net
        /\ client' = client /\ hist' = hist
    BY <1>1 DEF vars
  <2>2. IpcType' /\ MirrorInv' /\ LinkInv' /\ BootInv'
    BY <2>1 DEF Inv, ControlInv, IpcType, MirrorInv, LinkInv, BootInv, Outstanding
  <2>3. DriverInv' /\ SlotInv' /\ AckOwed' /\ StatusInv'
    BY <2>1 DEF Inv, ControlInv, DriverInv, SlotInv, AckOwed, StatusInv
  <2>4. InitInv'
    BY <2>1, Zenon DEF Inv, ControlInv, InitInv
  <2>5. ~SigPipeIgnored => CrossInv' /\ ReloadInv'
    BY <2>1, Zenon DEF Inv, CrossInv, ReloadInv, Reads, Told, Announced
  <2> QED
    BY <2>2, <2>3, <2>4, <2>5 DEF Inv, ControlInv
<1>2. CASE Next
  <2>1. ~bridge.exited
    BY <1>2 DEF Next
  <2>2. CASE IoCycle
    BY <2>1, <2>2, PassInitInv, AcceptNoneInv, AcceptClientInv, IdleForwardFailsInv, IdleHangupInv,
       IdleQuietInv, IdleServeInv, PassSndAckInv DEF IoCycle
  <2>3. CASE GuestDriver
    BY <2>1, <2>3, GuestBootInv, GuestIrqInv, GuestHandleInv, GuestEoiInv DEF GuestDriver
  <2>4. CASE GuestWork
    BY <2>1, <2>4, GuestReplyInv DEF GuestWork
  <2>5. CASE GuestReload \/ GuestFlipPpc
    BY <2>1, <2>5, GuestReloadInv, GuestFlipPpcInv
  <2>6. CASE Connect \/ Issue \/ WaitPpc \/ ProcessMsg \/ Launched \/ Disconnect \/ Exit
    BY <2>1, <2>6, ConnectInv, IssueInv, WaitPpcInv, ProcessMsgInv, LaunchedInv, DisconnectInv, ExitInv
  <2> QED
    BY <1>2, <2>2, <2>3, <2>4, <2>5, <2>6 DEF Next
<1> QED
  BY <1>1, <1>2

-----------------------------------------------------------------------------
(* What the runs check, for every instance.                                  *)

LEMMA PendingIs ==
  ASSUME IpcType, NEW k \in Conns, NEW type
  PROVE  Pending(k, type) = Of(net.s2c[k], type)
<1>1. net.s2c[k] \in Seq(ToClient)
  BY Fields
<1>2. DOMAIN net.s2c[k] = 1..Len(net.s2c[k])
  BY <1>1
<1> QED
  BY <1>2 DEF Pending, Of

\* A message that is forwarded is one more on its way to the script.
LEMMA ForwardedIs ==
  ASSUME IpcType, IpcType', NEW k \in Conns, NEW out \in Seq(ToClient),
         net'.s2c[k] = net.s2c[k] \o out, Of(out, "MESSAGE") # {}
  PROVE  MessageForwarded
<1>1. net.s2c[k] \in Seq(ToClient)
  BY Fields
<1>2. \A type : Of(out, type) # {} => Cardinality(Of(net'.s2c[k], type)) > Cardinality(Of(net.s2c[k], type))
  <2> DEFINE s == net.s2c[k]
             t == net'.s2c[k]
  <2>1. s \in Seq(ToClient) /\ t = s \o out
    BY <1>1
  <2> HIDE DEF s, t
  <2>2. \A type : Of(out, type) # {} => Cardinality(Of(t, type)) > Cardinality(Of(s, type))
    BY <2>1, OfAppended
  <2> QED
    BY <2>2 DEF s, t
<1>3. Pending(k, "MESSAGE") = Of(net.s2c[k], "MESSAGE")
  BY PendingIs
<1>4. Pending(k, "MESSAGE")' = Of(net'.s2c[k], "MESSAGE")
  <2>1. net'.s2c[k] \in Seq(ToClient)
    BY DEF IpcType, NetType
  <2>2. DOMAIN net'.s2c[k] = 1..Len(net'.s2c[k])
    BY <2>1
  <2> QED
    BY <2>2 DEF Pending, Of
<1> QED
  BY <1>2, <1>3, <1>4 DEF MessageForwarded

\* What becomes of a message of the guest that a pass takes.
Lost == \/ bridge.ipcs = "SNDACK" /\ bridge'.ipcs = "IDLE"
        \/ bridge.bsock > 0 /\ net.up[bridge.bsock] = "closed"

\* A bridge that serves a script that has gone.
LEMMA GoneIsClosed ==
  ASSUME Inv, bridge.ipcs \in {"IDLE", "SNDACK"}, ~Up(bridge.bsock)
  PROVE  bridge.bsock > 0 /\ net.up[bridge.bsock] = "closed"
<1>1. IpcType /\ LinkInv
  BY DEF Inv, ControlInv
<1>2. bridge.bsock \in Conns /\ bridge.bsock <= client.conn /\ client.conn \in Nat /\ bridge.bsock \in Nat
      /\ bridge.bsock > 0
  BY <1>1, Fields DEF LinkInv
<1>3. net.up[bridge.bsock] # "no"
  BY <1>1, <1>2 DEF LinkInv
<1>4. net.up[bridge.bsock] \in {"no", "up", "closed"}
  BY <1>1, <1>2 DEF IpcType, NetType
<1> QED
  BY <1>2, <1>3, <1>4 DEF Up

LEMMA BridgeTakes ==
  ASSUME Inv, Inv', ~SigPipeIgnored, ~bridge.exited, IoCycle, MessageTaken
  PROVE  MessageForwarded \/ Lost
<1>1. IpcType /\ MirrorInv /\ LinkInv /\ InitInv /\ CrossInv /\ IpcType'
  BY DEF Inv, ControlInv
<1>2. PeerSent \in io.ppcctrl /\ PeerSent \notin io'.ppcctrl
  BY DEF MessageTaken
<1>3. ~PassInit
  BY <1>1, <1>2 DEF PassInit, InitInv
<1>4. ~AcceptNone /\ \A k \in Conns : ~AcceptClient(k)
  BY <1>1, <1>2, AcceptPass DEF AcceptNone, AcceptClient, SameMailbox
<1>5. CASE IdleForwardFails \/ IdleHangup
  BY <1>5, GoneIsClosed DEF IdleForwardFails, IdleHangup, Lost
<1>6. bridge.ipcs = "IDLE" => PeerAcked \notin io.ppcctrl /\ Irqs \subseteq io.ppcctrl /\ bridge.bsock \in Conns
  BY <1>1, <1>2, Fields DEF CrossInv, MirrorInv, Mirrored, InitInv, LinkInv
<1>7. CASE IdleQuiet
  <2> DEFINE k == bridge.bsock
             rest == StatusChange
             out == Forwarded(Entry) \o rest
  <2>1. bridge.ipcs = "IDLE" /\ net' = Enqueue(net, k, out) /\ net \in NetType /\ k \in Conns
    BY <1>1, <1>6, <1>7 DEF IdleQuiet, IpcType
  <2>2. rest \in Seq(ToClient) /\ Of(rest, "ACK") = {}
    <3>1. ACK \in ToBridge /\ ACK.msg # "EXIT"
      BY Messages
    <3> QED
      BY <1>1, <3>1, Replies
  <2> HIDE DEF rest
  <2>3. out \in Seq(ToClient) /\ Of(out, "MESSAGE") # {}
    BY <1>1, <1>2, <1>6, <2>1, <2>2, PassSends
  <2> HIDE DEF out, k
  <2>4. net'.s2c[k] = net.s2c[k] \o out
    <3>1. Delivers(net, net', k, out)
      BY <2>1, <2>3, EnqueueIs
    <3> QED
      BY <3>1, Zenon DEF Delivers
  <2> QED
    BY <1>1, <2>1, <2>3, <2>4, ForwardedIs
<1>8. CASE IdleServe
  <2> DEFINE k == bridge.bsock
             m == Head(net.c2s[k])
  <2>1. /\ k \in Conns /\ m \in ToBridge /\ bridge.ipcs = "IDLE"
        /\ Up(k) \/ ~(PeerSent \in io.ppcctrl \/ PeerAcked \in io.ppcctrl)
    BY <1>8, ServeEffect DEF IdleServe
  <2>2. k = bridge.bsock /\ m = Head(net.c2s[k])
    OBVIOUS
  <2> HIDE DEF k, m
  <2>3. \E out \in Seq(ToClient) :
          /\ net'.s2c[k] = net.s2c[k] \o out
          /\ Up(k) /\ PeerSent \in io.ppcctrl /\ PeerAcked \notin io.ppcctrl => Of(out, "MESSAGE") # {}
    BY <1>8, <2>1, <2>2, ServeSends
  <2>4. PICK out \in Seq(ToClient) : net'.s2c[k] = net.s2c[k] \o out /\ Of(out, "MESSAGE") # {}
    BY <1>2, <1>6, <2>1, <2>3
  <2> QED
    BY <1>1, <2>1, <2>4, ForwardedIs
<1>9. CASE PassSndAck
  <2>1. /\ bridge.ipcs = "SNDACK" /\ bridge' = [bridge EXCEPT !.ipcs = IF GotAck(Entry) THEN "IDLE" ELSE "SNDACK"]
        /\ Leave(SndAckRegs(Entry)) /\ bridge \in BridgeType /\ Irqs \subseteq io.ppcctrl
    BY <1>1, <1>9 DEF PassSndAck, IpcType, InitInv
  <2>2. /\ GotAck(Entry) <=> PeerAcked \in io.ppcctrl
        /\ PeerAcked \notin io.ppcctrl => SameMailbox(io', io)
    BY <1>1, <2>1, SndAckPass
  <2>3. GotAck(Entry)
    BY <1>2, <2>2 DEF SameMailbox
  <2>4. bridge'.ipcs = "IDLE"
    BY <2>1, <2>3 DEF BridgeType
  <2> QED
    BY <2>1, <2>4 DEF Lost
<1> QED
  BY <1>3, <1>4, <1>5, <1>7, <1>8, <1>9 DEF IoCycle

LEMMA GuestKeeps ==
  ASSUME Inv, GuestDriver \/ GuestWork \/ GuestReload \/ GuestFlipPpc
  PROVE  ~MessageTaken
<1>1. IpcType /\ MirrorInv /\ BootInv /\ DriverInv
  BY DEF Inv, ControlInv
<1> SUFFICES ASSUME PeerSent \in io.ppcctrl PROVE PeerSent \in io'.ppcctrl
  BY DEF MessageTaken
<1>2. Sent \in io.armctrl /\ io \in IoType
  BY <1>1 DEF MirrorInv, Mirrored, IpcType
<1>3. CASE GuestBoot
  BY <1>1, <1>2, <1>3 DEF GuestBoot, BootInv
<1>4. CASE GuestIrq
  BY <1>4 DEF GuestIrq
<1>5. CASE GuestHandle
  <2>1. Sent \in guest.ctrl
    BY <1>1, <1>2, <1>5 DEF GuestHandle, DriverInv
  <2>2. Sent \in io'.armctrl /\ MirrorInv'
    BY <1>1, <1>2, <1>5, <2>1, HandlerWrites
  <2> QED
    BY <2>2 DEF MirrorInv, Mirrored
<1>6. CASE GuestEoi
  BY <1>2, <1>6 DEF GuestEoi, update_int, IoType
<1>7. CASE GuestWork \/ GuestReload
  BY <1>2, <1>7 DEF GuestWork, GuestReply, GuestReload, Idle
<1>8. CASE GuestFlipPpc
  BY <1>2, <1>8 DEF GuestFlipPpc, IoType
<1> QED
  BY <1>3, <1>4, <1>5, <1>6, <1>7, <1>8 DEF GuestDriver

LEMMA TakenOrLost ==
  ASSUME Inv, Inv', ~SigPipeIgnored, [Next]_vars, MessageTaken
  PROVE  MessageForwarded \/ Lost
<1>1. io' # io
  BY DEF MessageTaken
<1>2. Next
  BY <1>1 DEF vars
<1>3. ~bridge.exited /\ (IoCycle \/ GuestDriver \/ GuestWork \/ GuestReload \/ GuestFlipPpc)
  BY <1>1, <1>2 DEF Next, Connect, Issue, WaitPpc, ProcessMsg, Launched, Disconnect, Exit
<1> QED
  BY <1>3, BridgeTakes, GuestKeeps

\* The last status in a sequence that reports one.
LEMMA LastStatus ==
  ASSUME NEW s, NEW v, Reports(s, v), NEW sent, sent = Of(s, "STATUS")
  PROVE  sent # {} /\ s[CHOOSE i \in sent : \A j \in sent : j <= i].arg = v
<1>1. PICK i \in 1..Len(s) : /\ s[i].msg = "STATUS" /\ s[i].arg = v
                             /\ \A j \in 1..Len(s) : j > i => s[j].msg # "STATUS"
  BY DEF Reports
<1>2. i \in sent /\ \A j \in sent : j <= i
  BY <1>1 DEF Of
<1> DEFINE c == CHOOSE x \in sent : \A j \in sent : j <= x
<1>3. c \in sent /\ \A j \in sent : j <= c
  BY <1>2
<1> HIDE DEF c
<1>4. c = i
  <2>1. c <= i /\ i <= c /\ c \in Int /\ i \in Int
    BY <1>2, <1>3 DEF Of
  <2> QED
    BY <2>1
<1> QED
  BY <1>1, <1>2, <1>4 DEF c

LEMMA StatusFollows ==
  ASSUME Inv
  PROVE  StatusKnown
<1> DEFINE k == bridge.bsock
           s == net.s2c[k]
           sent == Pending(k, "STATUS")
           known == IF sent = {} THEN client.ppcstat
                    ELSE s[CHOOSE i \in sent : \A j \in sent : j <= i].arg
<1>1. IpcType /\ LinkInv /\ StatusInv
  BY DEF Inv, ControlInv
<1> SUFFICES ASSUME bridge.ipcs \in {"IDLE", "SNDACK"}, client.conn = k, client.phase # "off"
             PROVE  known = bridge.last
  BY DEF StatusKnown
<1>2. k \in Conns
  BY <1>1, Fields DEF LinkInv
<1>3. sent = Of(s, "STATUS")
  BY <1>1, <1>2, PendingIs
<1>4. Knows(s, client.ppcstat, bridge.last)
  BY <1>1 DEF StatusInv
<1> HIDE DEF s, k, sent
<1>5. CASE Silent(s) /\ client.ppcstat = bridge.last
  BY <1>3, <1>5 DEF Silent, Of
<1>6. CASE Reports(s, bridge.last)
  BY <1>3, <1>6, LastStatus
<1> QED
  BY <1>4, <1>5, <1>6 DEF Knows

LEMMA AcksAreReloads ==
  ASSUME Inv, ~SigPipeIgnored
  PROVE  AckMeansReload
<1>1. IpcType /\ ReloadInv
  BY DEF Inv, ControlInv
<1> SUFFICES ASSUME client.conn > 0, "reacked" \notin hist.races
             PROVE  hist.launched + client.acks + Cardinality(Pending(client.conn, "ACK")) <= hist.reloads
  BY DEF AckMeansReload
<1>2. client.conn \in Conns /\ client.conn # 0
  BY <1>1, Fields DEF Conns
<1>3. Told = hist.launched + client.acks + Cardinality(Pending(client.conn, "ACK"))
  BY <1>1, <1>2, PendingIs DEF Told
<1> QED
  BY <1>1, <1>3 DEF ReloadInv

-----------------------------------------------------------------------------
(* The theorems.                                                            *)

\* Every step of every party keeps the invariant: the types, the two control
\* registers as mirror images, the order of the connections, what may happen
\* before the bridge's first pass and before the guest has booted, what the
\* interrupt handler has read, and the accounts of reboots and of statuses.
THEOREM IpcInvariant == Spec => []Inv
<1>1. Init => Inv
  BY InitialInv
<1>2. Inv /\ [Next]_vars => Inv'
  BY NextInv
<1> QED
  BY <1>1, <1>2, PTL DEF Spec

\* A bridge that waits in SNDACK, deaf to its socket, waits for something that
\* can come: the guest has the message before it, or has acknowledged it.  This
\* holds with SIGPIPE ignored as well, where starlet_do_ipc leaves SNDACK for
\* ACCEPT with a message under way.
THEOREM AckIsOwed == Spec => []AckOwed
<1>1. Inv => AckOwed
  BY DEF Inv, ControlInv
<1> QED
  BY <1>1, IpcInvariant, PTL

\* Over any number of connections and of changes of the PowerPC's state, what a
\* script knows or is about to be told of it is last_ppc_state, the value the
\* bridge compares with when it decides whether to report.
THEOREM StatusIsKnown == Spec => []StatusKnown
<1>1. Inv => StatusKnown
  BY StatusFollows
<1> QED
  BY <1>1, IpcInvariant, PTL

\* With SIGPIPE left to its default, as in the emulator without the gdb server,
\* the acknowledgements the scripts have been given or have coming are never
\* more than the reboots of IOS, unless the driver repeated one: for any number
\* of scripts, requests under way and reboots.
THEOREM RebootsAreReal ==
  ASSUME ~SigPipeIgnored
  PROVE  Spec => []AckMeansReload
<1>1. Inv => AckMeansReload
  BY AcksAreReloads
<1> QED
  BY <1>1, IpcInvariant, PTL

\* With SIGPIPE left to its default, a message of the guest leaves the mailbox
\* only towards the script, or in the pass that takes an acknowledgement in
\* SNDACK, or for a script that has gone: ipc_set clears it nowhere else.
THEOREM MessagesReachTheScript ==
  ASSUME ~SigPipeIgnored
  PROVE  Spec => LostOnlyAtCrossing
<1>1. Inv /\ Inv' /\ [Next]_vars =>
        [MessageTaken => \/ MessageForwarded
                         \/ bridge.ipcs = "SNDACK" /\ bridge'.ipcs = "IDLE"
                         \/ bridge.bsock > 0 /\ net.up[bridge.bsock] = "closed"]_vars
  BY TakenOrLost DEF Lost
<1> QED
  BY <1>1, IpcInvariant, PTL DEF Spec, LostOnlyAtCrossing

-----------------------------------------------------------------------------
(* Requests.  Until IOS reboots, a script leaves a request behind or a reply *)
(* is sent twice, every request outstanding is in one place at most: the     *)
(* script's socket, the mailbox, the driver's list, or on its way back.      *)

Undisturbed == hist.reloads = 0 /\ hist.races \cap {"orphan", "resent"} = {}

ToServe == IF client.conn = 0 THEN <<>> ELSE net.c2s[client.conn]
Coming  == IF client.conn = 0 THEN <<>> ELSE net.s2c[client.conn]

\* Requests the guest has been given: taken, or waiting in the mailbox.
Handed == Len(hist.taken) + (IF PeerSent \in io.armctrl THEN 1 ELSE 0)

\* Without reboots the guest acknowledges messages only, and is not interrupted
\* again before the bridge has seen it.
QuietInv ==
  /\ io.irq_enabled \subseteq {ArmIrq}
  /\ Acked \in io.armctrl =>
       /\ PeerSent \notin io.armctrl /\ guest.pc \in {"run", "eoi"}
       /\ guest.pc = "run" => ~io.irqLow
  /\ guest.pc = "irq" =>
       /\ Acked \notin guest.ctrl
       /\ PeerSent \in guest.ctrl => PeerSent \in io.armctrl

\* The requests that the bridge has yet to serve: the block of each is written
\* just before its address is sent, and they come in the order of their numbers,
\* none missing.
Written(q, req, m, handed, issued) ==
  \A i \in 1..Len(q) : q[i].msg = "MESSAGE" =>
    /\ req[q[i].arg] > handed /\ req[q[i].arg] <= issued
    /\ i = 1 => m[q[i].arg] = Request(req[q[i].arg])
    /\ i > 1 => q[i - 1] = WRITE(q[i].arg, Request(req[q[i].arg]))
Paired(q) ==
  \A i \in 1..Len(q) : q[i].msg = "WRITE" => i < Len(q) /\ q[i + 1] = MESSAGE(q[i].arg)
Ascending(q, req) ==
  \A i, j \in 1..Len(q) : i < j /\ q[i].msg = "MESSAGE" /\ q[j].msg = "MESSAGE" =>
    req[q[i].arg] < req[q[j].arg]
Covering(q, req, handed, issued) ==
  \A id \in (handed + 1)..issued : \E i \in 1..Len(q) : q[i].msg = "MESSAGE" /\ req[q[i].arg] = id
Queued(q, req, m, handed, issued) ==
  /\ Written(q, req, m, handed, issued) /\ Paired(q)
  /\ Ascending(q, req) /\ Covering(q, req, handed, issued)

\* A request whose result is in its block.
Answered(s, req, m, todo, taken) ==
  s \in Slots /\ req[s] \in 1..taken /\ m[s] = Result(req[s]) /\ \A w \in todo : w.slot # s

Apart(s, p, stack) ==
  /\ \A i \in 1..Len(p) : p[i].msg = "MESSAGE" => p[i].arg # s
  /\ \A i \in 1..Len(stack) : stack[i] # s

\* Replies on their way to the script, and replies it is reading.
Returning(p, stack, req, m, todo, taken) ==
  /\ \A i \in 1..Len(p) : p[i].msg = "MESSAGE" =>
       /\ Answered(p[i].arg, req, m, todo, taken)
       /\ \A j \in 1..Len(p) : j # i /\ p[j].msg = "MESSAGE" => p[j].arg # p[i].arg
       /\ \A j \in 1..Len(stack) : stack[j] # p[i].arg
  /\ \A i \in 1..Len(stack) : Answered(stack[i], req, m, todo, taken)

QueueInv == Queued(ToServe, client.requests, mem, Handed, hist.issued)
MailboxInv ==
  PeerSent \in io.armctrl =>
    /\ client.requests[io.ppcmsg] = Len(hist.taken) + 1
    /\ mem[io.ppcmsg] = Request(Len(hist.taken) + 1)
TodoInv == \A w \in guest.todo : client.requests[w.slot] = w.id /\ w.id \in 1..Len(hist.taken)
BackInv ==
  /\ Returning(Coming, client.stack, client.requests, mem, guest.todo, Len(hist.taken))
  /\ Sent \in io.armctrl =>
       /\ Answered(io.armmsg, client.requests, mem, guest.todo, Len(hist.taken))
       /\ Apart(io.armmsg, Coming, client.stack)
OldInv ==
  \A k \in Conns : k # client.conn =>
    \A i \in 1..Len(net.c2s[k]) : net.c2s[k][i].msg \notin {"MESSAGE", "WRITE"}

PlaceInv ==
  /\ QuietInv /\ QueueInv /\ MailboxInv /\ TodoInv /\ BackInv /\ OldInv /\ Handed <= hist.issued

TrackInv ==
  Undisturbed =>
    /\ "reacked" \notin hist.races
    /\ \A i \in 1..Len(hist.taken) : hist.taken[i] = Request(i)
    /\ Len(hist.taken) <= hist.issued
    /\ ~bridge.exited => PlaceInv

\* A script that reads one result at a time has one answer to come.
OneRead(q, p, stack, req) ==
  /\ Len(stack) <= 1
  /\ \A i \in 1..Len(q) : q[i].msg = "READ" =>
       /\ Len(stack) = 1 /\ q[i].arg = stack[1]
       /\ \A j \in 1..Len(q) : q[j].msg = "READ" => j = i
       /\ \A j \in 1..Len(p) : p[j].msg # "READ"
  /\ \A i \in 1..Len(p) : p[i].msg = "READ" =>
       /\ Len(stack) = 1 /\ p[i].buf = Result(req[stack[1]])
       /\ \A j \in 1..Len(p) : p[j].msg = "READ" => j = i

OwnInv ==
  Undisturbed /\ "nested" \notin hist.races =>
    /\ \A i \in Ids : hist.results[i] \in {Nothing, Result(i)}
    /\ ~bridge.exited => OneRead(ToServe, Coming, client.stack, client.requests)

-----------------------------------------------------------------------------
(* Operators on the queues.                                                 *)

LEMMA AppendIs ==
  ASSUME NEW S, NEW q \in Seq(S), NEW x \in S, NEW c, c = Append(q, x)
  PROVE  /\ c \in Seq(S) /\ Len(c) = Len(q) + 1 /\ Len(q) \in Nat /\ c[Len(q) + 1] = x
         /\ \A i \in 1..Len(q) : c[i] = q[i]
OBVIOUS

LEMMA RequestsAre ==
  /\ \A s, b : WRITE(s, b).msg = "WRITE" /\ WRITE(s, b).arg = s /\ WRITE(s, b).buf = b
  /\ \A s : MESSAGE(s).msg = "MESSAGE" /\ MESSAGE(s).arg = s
  /\ \A s, b : READ(s, b).msg = "READ" /\ READ(s, b).arg = s /\ READ(s, b).buf = b
  /\ ACK.msg = "ACK" /\ EXIT.msg = "EXIT" /\ \A v : STATUS(v).msg = "STATUS"
BY DEF WRITE, MESSAGE, READ, ACK, EXIT, STATUS, Msg

LEMMA AddressIs ==
  ASSUME NEW q \in Seq(ToBridge)
  PROVE  \A i \in 1..Len(q) : /\ q[i] \in ToBridge
                              /\ q[i].msg \in {"MESSAGE", "READ", "WRITE"} => q[i].arg \in Slots
<1>1. \A i \in 1..Len(q) : q[i] \in ToBridge
  OBVIOUS
<1> QED
  BY <1>1 DEF ToBridge

\* A message that is neither a block nor an address.
LEMMA QueuedAppended ==
  ASSUME NEW q \in Seq(ToBridge), NEW x \in ToBridge, x.msg \notin {"MESSAGE", "WRITE"},
         NEW c, c = Append(q, x), NEW req, NEW m, NEW handed, NEW issued,
         Queued(q, req, m, handed, issued)
  PROVE  Queued(c, req, m, handed, issued)
<1> DEFINE n == Len(q)
<1>1. Len(c) = n + 1 /\ n \in Nat /\ c[n + 1] = x /\ \A i \in 1..n : c[i] = q[i]
  BY AppendIs
<1>2. \A i \in 1..n + 1 : c[i].msg = "MESSAGE" \/ c[i].msg = "WRITE" => i \in 1..n
  BY <1>1
<1>3. 1..n \subseteq 1..n + 1
  BY <1>1
<1> HIDE DEF n
<1>4. ASSUME NEW i \in 1..n + 1, c[i].msg = "MESSAGE"
      PROVE  /\ req[c[i].arg] > handed /\ req[c[i].arg] <= issued
             /\ i = 1 => m[c[i].arg] = Request(req[c[i].arg])
             /\ i > 1 => c[i - 1] = WRITE(c[i].arg, Request(req[c[i].arg]))
  <2>1. i \in 1..n /\ c[i] = q[i] /\ (i > 1 => i - 1 \in 1..n /\ c[i - 1] = q[i - 1])
    BY <1>1, <1>2, <1>4
  <2> QED
    BY <1>4, <2>1 DEF Queued, Written, n
<1>5. ASSUME NEW i \in 1..n + 1, c[i].msg = "WRITE"
      PROVE  i < n + 1 /\ c[i + 1] = MESSAGE(c[i].arg)
  <2>1. i \in 1..n /\ c[i] = q[i]
    BY <1>1, <1>2, <1>5
  <2>2. i < n /\ q[i + 1] = MESSAGE(q[i].arg)
    BY <1>5, <2>1 DEF Queued, Written, Paired, Ascending, Covering, n
  <2>3. i + 1 \in 1..n
    BY <1>1, <2>1, <2>2
  <2> QED
    BY <1>1, <2>1, <2>2, <2>3
<1>6. ASSUME NEW i \in 1..n + 1, NEW j \in 1..n + 1, i < j, c[i].msg = "MESSAGE", c[j].msg = "MESSAGE"
      PROVE  req[c[i].arg] < req[c[j].arg]
  <2>1. i \in 1..n /\ j \in 1..n /\ c[i] = q[i] /\ c[j] = q[j]
    BY <1>1, <1>2, <1>6
  <2> QED
    BY <1>6, <2>1 DEF Queued, Written, Paired, Ascending, Covering, n
<1>7. ASSUME NEW id \in (handed + 1)..issued
      PROVE  \E i \in 1..n + 1 : c[i].msg = "MESSAGE" /\ req[c[i].arg] = id
  <2>1. PICK i \in 1..n : q[i].msg = "MESSAGE" /\ req[q[i].arg] = id
    BY DEF Queued, Written, Paired, Ascending, Covering, n
  <2> QED
    BY <1>1, <1>3, <2>1
<1>8. Len(c) = n + 1
  BY <1>1
<1>9. Written(c, req, m, handed, issued)
  BY <1>4, <1>8 DEF Written
<1>10. Paired(c)
  BY <1>5, <1>8 DEF Paired
<1>11. Ascending(c, req)
  BY <1>6, <1>8 DEF Ascending
<1>12. Covering(c, req, handed, issued)
  BY <1>7, <1>8 DEF Covering
<1> QED
  BY <1>9, <1>10, <1>11, <1>12 DEF Queued

\* A new request: its block, and then its address.
LEMMA QueuedIssued ==
  ASSUME NEW q \in Seq(ToBridge), NEW s \in Slots, NEW req \in [Slots -> Nat], req[s] = 0,
         NEW m, NEW handed \in Nat, NEW issued \in Nat, handed <= issued,
         Queued(q, req, m, handed, issued),
         NEW a, a = Append(q, WRITE(s, Request(issued + 1))), NEW c, c = Append(a, MESSAGE(s)),
         NEW new, new = [req EXCEPT ![s] = issued + 1]
  PROVE  Queued(c, new, m, handed, issued + 1)
<1> DEFINE n == Len(q)
           b == Request(issued + 1)
<1>1. WRITE(s, b) \in ToBridge /\ MESSAGE(s) \in ToBridge
  BY Messages
<1>2. a \in Seq(ToBridge) /\ Len(a) = n + 1 /\ n \in Nat /\ a[n + 1] = WRITE(s, b) /\ \A i \in 1..n : a[i] = q[i]
  BY <1>1, AppendIs
<1>3. Len(c) = Len(a) + 1 /\ c[Len(a) + 1] = MESSAGE(s) /\ \A i \in 1..Len(a) : c[i] = a[i]
  BY <1>1, <1>2, AppendIs
<1> HIDE DEF n, b
<1>4. /\ Len(c) = n + 2 /\ c[n + 2] = MESSAGE(s) /\ c[n + 1] = WRITE(s, b) /\ n \in Nat
      /\ \A i \in 1..n : c[i] = q[i]
  BY <1>2, <1>3
<1>5. /\ WRITE(s, b).msg = "WRITE" /\ WRITE(s, b).arg = s
      /\ MESSAGE(s).msg = "MESSAGE" /\ MESSAGE(s).arg = s
  BY RequestsAre
<1>6. \A i \in 1..n + 2 : i \in 1..n \/ i = n + 1 \/ i = n + 2
  BY <1>4
<1>7. ASSUME NEW i \in 1..n, q[i].msg = "MESSAGE"
      PROVE  q[i].arg \in Slots /\ q[i].arg # s /\ new[q[i].arg] = req[q[i].arg] /\ req[q[i].arg] \in Nat
             /\ req[q[i].arg] <= issued
  <2>1. q[i].arg \in Slots /\ req[q[i].arg] > handed /\ req[q[i].arg] <= issued
    BY <1>7, AddressIs DEF Queued, Written, Paired, Ascending, Covering, n
  <2> QED
    BY <2>1
<1>8. new[s] = issued + 1
  OBVIOUS
<1> HIDE DEF n
<1>9. ASSUME NEW i \in 1..n + 2, c[i].msg = "MESSAGE"
      PROVE  /\ new[c[i].arg] > handed /\ new[c[i].arg] <= issued + 1
             /\ i = 1 => m[c[i].arg] = Request(new[c[i].arg])
             /\ i > 1 => c[i - 1] = WRITE(c[i].arg, Request(new[c[i].arg]))
  <2>1. CASE i = n + 2
    <3>1. i - 1 = n + 1 /\ i > 1 /\ i # 1
      BY <1>4, <2>1
    <3> QED
      BY <1>4, <1>5, <1>8, <2>1, <3>1 DEF b
  <2>2. CASE i \in 1..n
    <3>1. c[i] = q[i] /\ (i > 1 => i - 1 \in 1..n /\ c[i - 1] = q[i - 1])
      BY <1>4, <2>2
    <3>2. /\ req[q[i].arg] > handed
          /\ i = 1 => m[q[i].arg] = Request(req[q[i].arg])
          /\ i > 1 => q[i - 1] = WRITE(q[i].arg, Request(req[q[i].arg]))
      BY <1>9, <2>2, <3>1 DEF Queued, Written, Paired, Ascending, Covering, n
    <3>3. new[q[i].arg] = req[q[i].arg] /\ req[q[i].arg] \in Nat /\ req[q[i].arg] <= issued
      BY <1>7, <1>9, <2>2, <3>1
    <3>4. new[q[i].arg] > handed /\ new[q[i].arg] <= issued + 1
      BY <3>2, <3>3
    <3> HIDE DEF b
    <3> QED
      BY <3>1, <3>2, <3>3, <3>4, Zenon
  <2> QED
    BY <1>4, <1>5, <1>6, <1>9, <2>1, <2>2
<1>10. ASSUME NEW i \in 1..n + 2, c[i].msg = "WRITE"
       PROVE  i < n + 2 /\ c[i + 1] = MESSAGE(c[i].arg)
  <2>1. CASE i = n + 1
    BY <1>4, <1>5, <2>1
  <2>2. CASE i \in 1..n
    <3>1. i < n /\ q[i + 1] = MESSAGE(q[i].arg)
      BY <1>4, <1>10, <2>2 DEF Queued, Written, Paired, Ascending, Covering, n
    <3>2. i + 1 \in 1..n /\ c[i] = q[i] /\ c[i + 1] = q[i + 1] /\ i < n + 2
      BY <1>4, <2>2, <3>1
    <3> QED
      BY <3>1, <3>2
  <2> QED
    BY <1>4, <1>5, <1>6, <1>10, <2>1, <2>2
<1>11. ASSUME NEW i \in 1..n + 2, NEW j \in 1..n + 2, i < j, c[i].msg = "MESSAGE", c[j].msg = "MESSAGE"
       PROVE  new[c[i].arg] < new[c[j].arg]
  <2>1. i \in 1..n /\ c[i] = q[i]
    BY <1>4, <1>5, <1>6, <1>11
  <2>2. new[c[i].arg] = req[q[i].arg] /\ req[q[i].arg] \in Nat /\ req[q[i].arg] <= issued
    BY <1>7, <1>11, <2>1
  <2>3. CASE j = n + 2
    BY <1>4, <1>5, <1>8, <2>2, <2>3
  <2>4. CASE j \in 1..n
    <3>1. c[j] = q[j] /\ new[c[j].arg] = req[q[j].arg]
      BY <1>4, <1>7, <1>11, <2>4
    <3>2. req[q[i].arg] < req[q[j].arg]
      BY <1>11, <2>1, <2>4, <3>1 DEF Queued, Written, Paired, Ascending, Covering, n
    <3> QED
      BY <2>2, <3>1, <3>2
  <2> QED
    BY <1>4, <1>5, <1>6, <1>11, <2>3, <2>4
<1>12. ASSUME NEW id \in (handed + 1)..(issued + 1)
       PROVE  \E i \in 1..n + 2 : c[i].msg = "MESSAGE" /\ new[c[i].arg] = id
  <2>1. CASE id = issued + 1
    <3>1. n + 2 \in 1..n + 2
      BY <1>4
    <3> QED
      BY <1>4, <1>5, <1>8, <2>1, <3>1
  <2>2. CASE id \in (handed + 1)..issued
    <3>1. PICK i \in 1..n : q[i].msg = "MESSAGE" /\ req[q[i].arg] = id
      BY <2>2 DEF Queued, Written, Paired, Ascending, Covering, n
    <3>2. i \in 1..n + 2 /\ c[i] = q[i] /\ new[q[i].arg] = req[q[i].arg]
      BY <1>4, <1>7, <3>1
    <3> QED
      BY <3>1, <3>2
  <2>3. id = issued + 1 \/ id \in (handed + 1)..issued
    OBVIOUS
  <2> QED
    BY <2>1, <2>2, <2>3
<1>13. Len(c) = n + 2
  BY <1>4
<1>14. Written(c, new, m, handed, issued + 1)
  BY <1>9, <1>13 DEF Written
<1>15. Paired(c)
  BY <1>10, <1>13 DEF Paired
<1>16. Ascending(c, new)
  BY <1>11, <1>13 DEF Ascending
<1>17. Covering(c, new, handed, issued + 1)
  BY <1>12, <1>13 DEF Covering
<1> QED
  BY <1>14, <1>15, <1>16, <1>17 DEF Queued

\* What is done to blocks the guest already has, or has answered.
LEMMA QueuedKept ==
  ASSUME NEW q \in Seq(ToBridge), NEW req, NEW m, NEW new, NEW mm, NEW handed, NEW issued,
         Queued(q, req, m, handed, issued),
         \A s \in Slots : req[s] > handed => new[s] = req[s] /\ mm[s] = m[s]
  PROVE  Queued(q, new, mm, handed, issued)
<1>1. ASSUME NEW i \in 1..Len(q), q[i].msg = "MESSAGE"
      PROVE  new[q[i].arg] = req[q[i].arg] /\ mm[q[i].arg] = m[q[i].arg]
  <2>1. q[i].arg \in Slots /\ req[q[i].arg] > handed
    BY <1>1, AddressIs DEF Queued, Written
  <2> QED
    BY <2>1
<1>2. Written(q, new, mm, handed, issued)
  BY <1>1 DEF Queued, Written
<1>3. Ascending(q, new)
  BY <1>1 DEF Queued, Ascending
<1>4. Covering(q, new, handed, issued)
  <2> SUFFICES ASSUME NEW id \in (handed + 1)..issued
               PROVE  \E i \in 1..Len(q) : q[i].msg = "MESSAGE" /\ new[q[i].arg] = id
    BY DEF Covering
  <2>1. PICK i \in 1..Len(q) : q[i].msg = "MESSAGE" /\ req[q[i].arg] = id
    BY DEF Queued, Covering
  <2> QED
    BY <1>1, <2>1
<1> QED
  BY <1>2, <1>3, <1>4 DEF Queued

\* The bridge takes the first message: a block is stored, an address makes the
\* next request the guest's.
TakesFirst(q, c, x, m, mm, handed, hh) ==
  /\ q # <<>> /\ x = q[1] /\ c = Tail(q)
  /\ mm = (IF x.msg = "WRITE" THEN [m EXCEPT ![x.arg] = x.buf] ELSE m)
  /\ hh = (IF x.msg = "MESSAGE" THEN handed + 1 ELSE handed)

LEMMA QueuedServed ==
  ASSUME NEW q \in Seq(ToBridge), NEW req \in [Slots -> Nat], NEW m \in [Slots -> Block],
         NEW handed \in Nat, NEW issued \in Nat, Queued(q, req, m, handed, issued),
         NEW x, NEW c, NEW mm, NEW hh, TakesFirst(q, c, x, m, mm, handed, hh)
  PROVE  /\ Queued(c, req, mm, hh, issued)
         /\ x.msg = "MESSAGE" =>
              /\ x.arg \in Slots /\ req[x.arg] = handed + 1 /\ m[x.arg] = Request(handed + 1)
              /\ handed + 1 <= issued
         /\ x.msg = "WRITE" => x.arg \in Slots /\ req[x.arg] > handed
<1> SUFFICES ASSUME q # <<>>, x = q[1], c = Tail(q),
                    mm = (IF x.msg = "WRITE" THEN [m EXCEPT ![x.arg] = x.buf] ELSE m),
                    hh = (IF x.msg = "MESSAGE" THEN handed + 1 ELSE handed)
             PROVE  /\ Queued(c, req, mm, hh, issued)
                    /\ x.msg = "MESSAGE" =>
                         /\ x.arg \in Slots /\ req[x.arg] = handed + 1 /\ m[x.arg] = Request(handed + 1)
                         /\ handed + 1 <= issued
                    /\ x.msg = "WRITE" => x.arg \in Slots /\ req[x.arg] > handed
  BY DEF TakesFirst
<1> DEFINE n == Len(c)
<1>1. /\ c \in Seq(ToBridge) /\ Len(q) = n + 1 /\ n \in Nat /\ 1 \in 1..Len(q)
      /\ \A i \in 1..n : c[i] = q[i + 1]
  BY TailIs
<1>2. \A i \in 1..n : i + 1 \in 1..Len(q) /\ i + 1 > 1
  BY <1>1
<1> HIDE DEF n
<1>3. ASSUME x.msg = "MESSAGE"
      PROVE  x.arg \in Slots /\ req[x.arg] = handed + 1 /\ m[x.arg] = Request(handed + 1) /\ handed + 1 <= issued
  <2>1. /\ x.arg \in Slots /\ req[x.arg] > handed /\ req[x.arg] <= issued
        /\ m[x.arg] = Request(req[x.arg]) /\ req[x.arg] \in Nat
    BY <1>1, <1>3, AddressIs DEF Queued, Written
  <2>2. handed + 1 \in (handed + 1)..issued
    BY <2>1
  <2>3. PICK i \in 1..Len(q) : q[i].msg = "MESSAGE" /\ req[q[i].arg] = handed + 1
    BY <2>2 DEF Queued, Covering
  <2>4. i = 1
    <3> SUFFICES ASSUME i # 1 PROVE FALSE
      OBVIOUS
    <3>1. 1 < i
      BY <1>1
    <3>2. req[q[1].arg] < req[q[i].arg]
      BY <1>1, <1>3, <2>3, <3>1 DEF Queued, Ascending
    <3> QED
      BY <2>1, <2>3, <3>2
  <2> QED
    BY <2>1, <2>3, <2>4
<1>4. ASSUME x.msg = "WRITE"
      PROVE  x.arg \in Slots /\ req[x.arg] > handed /\ 1 \in 1..n /\ c[1] = MESSAGE(x.arg)
             /\ x.buf = Request(req[x.arg])
  <2>1. 1 < Len(q) /\ q[1 + 1] = MESSAGE(x.arg)
    BY <1>1, <1>4 DEF Queued, Paired
  <2>2. 1 \in 1..n /\ c[1] = q[2] /\ q[2] = MESSAGE(x.arg)
    BY <1>1, <2>1
  <2>3. q[2].msg = "MESSAGE" /\ q[2].arg = x.arg /\ 2 \in 1..Len(q) /\ 2 > 1 /\ 2 - 1 = 1
    BY <1>1, <2>2, RequestsAre
  <2>4. req[x.arg] > handed /\ q[1] = WRITE(x.arg, Request(req[x.arg])) /\ x.arg \in Slots
    BY <1>1, <2>3, AddressIs DEF Queued, Written
  <2>5. \A b : WRITE(x.arg, b).buf = b
    BY RequestsAre
  <2>6. x.buf = Request(req[x.arg])
    BY <2>4, <2>5, Zenon
  <2> QED
    BY <2>2, <2>4, <2>6
<1>5. ASSUME NEW i \in 1..n, c[i].msg = "MESSAGE"
      PROVE  /\ req[c[i].arg] > hh /\ req[c[i].arg] <= issued
             /\ i = 1 => mm[c[i].arg] = Request(req[c[i].arg])
             /\ i > 1 => c[i - 1] = WRITE(c[i].arg, Request(req[c[i].arg]))
  <2>1. /\ req[c[i].arg] > handed /\ req[c[i].arg] <= issued /\ c[i].arg \in Slots /\ req[c[i].arg] \in Nat
        /\ q[(i + 1) - 1] = WRITE(c[i].arg, Request(req[c[i].arg]))
    BY <1>1, <1>2, <1>5, AddressIs DEF Queued, Written
  <2>2. req[c[i].arg] > hh
    <3>1. CASE x.msg = "MESSAGE"
      <4>1. 1 < i + 1
        BY <1>1
      <4>2. req[q[1].arg] < req[q[i + 1].arg]
        BY <1>1, <1>2, <1>5, <3>1, <4>1 DEF Queued, Ascending
      <4> QED
        BY <1>1, <1>3, <2>1, <3>1, <4>2
    <3>2. CASE x.msg # "MESSAGE"
      BY <2>1, <3>2
    <3> QED
      BY <3>1, <3>2
  <2>3. q[i] = WRITE(c[i].arg, Request(req[c[i].arg]))
    BY <1>1, <2>1
  <2>4. i = 1 => mm[c[i].arg] = Request(req[c[i].arg])
    <3> SUFFICES ASSUME i = 1 PROVE mm[c[i].arg] = Request(req[c[i].arg])
      OBVIOUS
    <3> DEFINE a == c[i].arg
               b == Request(req[a])
    <3>1. x = WRITE(a, b)
      BY <2>3
    <3> HIDE DEF a, b
    <3>2. x.msg = "WRITE" /\ x.arg = a /\ x.buf = b
      BY <3>1 DEF WRITE, Msg
    <3> QED
      BY <2>1, <3>2 DEF a, b
  <2>5. i > 1 => c[i - 1] = WRITE(c[i].arg, Request(req[c[i].arg]))
    <3> SUFFICES ASSUME i > 1 PROVE c[i - 1] = q[i]
      BY <2>3
    <3>1. i - 1 \in 1..n /\ (i - 1) + 1 = i
      BY <1>1
    <3> QED
      BY <1>1, <3>1
  <2> QED
    BY <2>1, <2>2, <2>4, <2>5
<1>6. Written(c, req, mm, hh, issued)
  BY <1>5 DEF Written, n
<1>7. Paired(c)
  <2> SUFFICES ASSUME NEW i \in 1..n, c[i].msg = "WRITE" PROVE i < n /\ c[i + 1] = MESSAGE(c[i].arg)
    BY DEF Paired, n
  <2>1. i + 1 < Len(q) /\ q[(i + 1) + 1] = MESSAGE(q[i + 1].arg)
    BY <1>1, <1>2 DEF Queued, Paired
  <2>2. i + 1 \in 1..n
    BY <1>1, <2>1
  <2> QED
    BY <1>1, <2>1, <2>2
<1>8. Ascending(c, req)
  <2> SUFFICES ASSUME NEW i \in 1..n, NEW j \in 1..n, i < j, c[i].msg = "MESSAGE", c[j].msg = "MESSAGE"
               PROVE  req[c[i].arg] < req[c[j].arg]
    BY DEF Ascending, n
  <2>1. i + 1 < j + 1 /\ i + 1 \in 1..Len(q) /\ j + 1 \in 1..Len(q) /\ c[i] = q[i + 1] /\ c[j] = q[j + 1]
    BY <1>1
  <2> QED
    BY <2>1 DEF Queued, Ascending
<1>9. Covering(c, req, hh, issued)
  <2> SUFFICES ASSUME NEW id \in (hh + 1)..issued
               PROVE  \E i \in 1..n : c[i].msg = "MESSAGE" /\ req[c[i].arg] = id
    BY DEF Covering, n
  <2>1. id \in (handed + 1)..issued /\ (x.msg = "MESSAGE" => id # handed + 1)
    OBVIOUS
  <2>2. PICK j \in 1..Len(q) : q[j].msg = "MESSAGE" /\ req[q[j].arg] = id
    BY <2>1 DEF Queued, Covering
  <2>3. j # 1
    BY <1>3, <2>1, <2>2
  <2>4. j - 1 \in 1..n /\ (j - 1) + 1 = j
    BY <1>1, <2>3
  <2>5. c[j - 1] = q[j]
    BY <1>1, <2>4
  <2> QED
    BY <2>2, <2>4, <2>5
<1> QED
  BY <1>3, <1>4, <1>6, <1>7, <1>8, <1>9 DEF Queued

\* What does not disturb the replies under way.
LEMMA ReturningKept ==
  ASSUME NEW p, NEW stack, NEW req, NEW m, NEW todo, NEW taken,
         NEW new, NEW mm, NEW left, NEW now,
         Returning(p, stack, req, m, todo, taken),
         \A s : Answered(s, req, m, todo, taken) => Answered(s, new, mm, left, now)
  PROVE  Returning(p, stack, new, mm, left, now)
BY DEF Returning

\* All the replies that are being read are done with.
LEMMA ReturningFreed ==
  ASSUME NEW p, NEW stack, NEW req, NEW m, NEW todo, NEW taken, NEW new,
         Returning(p, stack, req, m, todo, taken),
         \A s \in Slots : (\A i \in 1..Len(stack) : stack[i] # s) => new[s] = req[s]
  PROVE  /\ Returning(p, <<>>, new, m, todo, taken)
         /\ \A s : Answered(s, req, m, todo, taken) /\ Apart(s, p, stack) =>
              Answered(s, new, m, todo, taken) /\ Apart(s, p, <<>>)
<1>1. Len(<<>>) = 0
  OBVIOUS
<1>2. ASSUME NEW s, Answered(s, req, m, todo, taken), \A i \in 1..Len(stack) : stack[i] # s
      PROVE  Answered(s, new, m, todo, taken)
  BY <1>2 DEF Answered
<1>3. Returning(p, <<>>, new, m, todo, taken)
  BY <1>1, <1>2 DEF Returning
<1> QED
  BY <1>1, <1>2, <1>3 DEF Apart

\* The one message of its type among those that are sent, if there is one.
Single(out, x) ==
  \A i \in 1..Len(out) : out[i].msg = x.msg =>
    out[i] = x /\ \A j \in 1..Len(out) : out[j].msg = x.msg => j = i

\* Messages are sent to the script, one of them perhaps a reply.
LEMMA ReturningExtended ==
  ASSUME NEW p \in Seq(ToClient), NEW out \in Seq(ToClient), NEW c, c = p \o out,
         NEW stack, NEW req, NEW m, NEW todo, NEW taken,
         NEW x, x.msg = "MESSAGE", NEW a, a = x.arg,
         Returning(p, stack, req, m, todo, taken), Single(out, x),
         Of(out, "MESSAGE") # {} => Answered(a, req, m, todo, taken) /\ Apart(a, p, stack)
  PROVE  /\ Returning(c, stack, req, m, todo, taken)
         /\ \A s : Apart(s, p, stack) /\ Of(out, "MESSAGE") = {} => Apart(s, c, stack)
<1> DEFINE k == Len(p)
           n == Len(out)
<1>1. /\ Len(c) = k + n /\ k \in Nat /\ n \in Nat
      /\ \A i \in 1..k : c[i] = p[i]
      /\ \A i \in 1..n : c[k + i] = out[i]
  BY Concatenate
<1>2. ASSUME NEW i \in 1..k + n, i \notin 1..k
      PROVE  i - k \in 1..n /\ c[i] = out[i - k]
  <2>1. i - k \in 1..n /\ i = k + (i - k)
    BY <1>1, <1>2
  <2> QED
    BY <1>1, <2>1
<1>3. Len(c) = k + n
  BY <1>1
<1>4. ASSUME NEW i \in 1..n, out[i].msg = "MESSAGE"
      PROVE  /\ out[i].arg = a /\ Answered(a, req, m, todo, taken) /\ Apart(a, p, stack)
             /\ \A j \in 1..n : out[j].msg = "MESSAGE" => j = i
  BY <1>4 DEF Of, Single
<1> HIDE DEF k, n
<1>5. ASSUME NEW i \in 1..k + n, c[i].msg = "MESSAGE"
      PROVE  /\ Answered(c[i].arg, req, m, todo, taken)
             /\ \A j \in 1..k + n : j # i /\ c[j].msg = "MESSAGE" => c[j].arg # c[i].arg
             /\ \A j \in 1..Len(stack) : stack[j] # c[i].arg
  <2>1. CASE i \in 1..k
    <3>1. /\ Answered(p[i].arg, req, m, todo, taken)
          /\ \A j \in 1..k : j # i /\ p[j].msg = "MESSAGE" => p[j].arg # p[i].arg
          /\ \A j \in 1..Len(stack) : stack[j] # p[i].arg
      BY <1>1, <1>5, <2>1 DEF Returning, k
    <3>2. ASSUME NEW j \in 1..k + n, j # i, c[j].msg = "MESSAGE" PROVE c[j].arg # c[i].arg
      <4>1. CASE j \in 1..k
        BY <1>1, <2>1, <3>1, <3>2, <4>1
      <4>2. CASE j \notin 1..k
        <5>1. c[j].arg = a /\ Apart(a, p, stack)
          BY <1>2, <1>4, <3>2, <4>2
        <5>2. p[i].msg = "MESSAGE" /\ c[i] = p[i]
          BY <1>1, <1>5, <2>1
        <5> QED
          BY <2>1, <5>1, <5>2 DEF Apart, k
      <4> QED
        BY <4>1, <4>2
    <3> QED
      BY <1>1, <2>1, <3>1, <3>2
  <2>2. CASE i \notin 1..k
    <3>1. i - k \in 1..n /\ c[i] = out[i - k]
      BY <1>2, <2>2
    <3>2. /\ c[i].arg = a /\ Answered(a, req, m, todo, taken) /\ Apart(a, p, stack)
          /\ \A j \in 1..n : out[j].msg = "MESSAGE" => j = i - k
      BY <1>4, <1>5, <3>1
    <3>3. ASSUME NEW j \in 1..k + n, j # i, c[j].msg = "MESSAGE" PROVE c[j].arg # c[i].arg
      <4>1. CASE j \in 1..k
        BY <1>1, <3>2, <3>3, <4>1 DEF Apart, k
      <4>2. CASE j \notin 1..k
        <5>1. j - k = i - k
          BY <1>2, <3>2, <3>3, <4>2
        <5> QED
          BY <1>1, <3>3, <5>1
      <4> QED
        BY <4>1, <4>2
    <3> QED
      BY <3>2, <3>3 DEF Apart
  <2> QED
    BY <2>1, <2>2
<1>6. \A i \in 1..Len(stack) : Answered(stack[i], req, m, todo, taken)
  BY DEF Returning
<1>7. Returning(c, stack, req, m, todo, taken)
  BY <1>3, <1>5, <1>6 DEF Returning
<1>8. ASSUME NEW s, Apart(s, p, stack), Of(out, "MESSAGE") = {} PROVE Apart(s, c, stack)
  <2>1. ASSUME NEW i \in 1..k + n, c[i].msg = "MESSAGE" PROVE c[i].arg # s
    <3>1. i \in 1..k
      BY <1>2, <1>8, <2>1 DEF Of, n
    <3> QED
      BY <1>1, <1>8, <2>1, <3>1 DEF Apart, k
  <2> QED
    BY <1>3, <1>8, <2>1 DEF Apart
<1> QED
  BY <1>7, <1>8

\* The script receives a message, and begins to read the result if it is a reply.
FirstReceived(p, stack, req, m, todo, taken) ==
  /\ Returning(Tail(p), stack, req, m, todo, taken)
  /\ \A s : Apart(s, p, stack) => Apart(s, Tail(p), stack)
  /\ p[1].msg = "MESSAGE" =>
       /\ Answered(p[1].arg, req, m, todo, taken)
       /\ Returning(Tail(p), Append(stack, p[1].arg), req, m, todo, taken)
       /\ \A s : Apart(s, p, stack) => Apart(s, Tail(p), Append(stack, p[1].arg))

LEMMA ReturningReceived ==
  ASSUME NEW p \in Seq(ToClient), p # <<>>, NEW stack \in Seq(Slots),
         NEW req, NEW m, NEW todo, NEW taken, Returning(p, stack, req, m, todo, taken)
  PROVE  FirstReceived(p, stack, req, m, todo, taken)
<1> DEFINE c == Tail(p)
           x == p[1]
           deep == Append(stack, x.arg)
           n == Len(c)
<1>1. /\ Len(p) = n + 1 /\ n \in Nat /\ 1 \in 1..Len(p) /\ \A i \in 1..n : c[i] = p[i + 1]
  BY TailIs
<1>2. \A i \in 1..n : c[i] = p[i + 1] /\ i + 1 \in 1..Len(p) /\ i + 1 # 1
  BY <1>1
<1>3. \A i, j \in 1..n : j # i => j + 1 # i + 1
  OBVIOUS
<1>4. x = p[1] /\ (x.arg \in Slots => /\ Len(deep) = Len(stack) + 1 /\ Len(stack) \in Nat
                                     /\ deep[Len(stack) + 1] = x.arg
                                     /\ \A i \in 1..Len(stack) : deep[i] = stack[i])
  BY AppendIs
<1> HIDE DEF n, c, x, deep
<1>5. \A i \in 1..Len(stack) : Answered(stack[i], req, m, todo, taken)
  BY DEF Returning
<1>6. ASSUME NEW i \in 1..n, c[i].msg = "MESSAGE"
      PROVE  /\ Answered(c[i].arg, req, m, todo, taken)
             /\ \A j \in 1..n : j # i /\ c[j].msg = "MESSAGE" => c[j].arg # c[i].arg
             /\ \A j \in 1..Len(stack) : stack[j] # c[i].arg
             /\ x.msg = "MESSAGE" => x.arg # c[i].arg
  BY <1>1, <1>2, <1>3, <1>6, <1>4 DEF Returning
<1>7. Returning(c, stack, req, m, todo, taken)
  BY <1>5, <1>6 DEF Returning, n
<1>8. ASSUME NEW s, Apart(s, p, stack)
      PROVE  Apart(s, c, stack) /\ (x.msg = "MESSAGE" => x.arg # s)
  BY <1>1, <1>2, <1>8, <1>4 DEF Apart, n
<1>9. ASSUME x.msg = "MESSAGE"
      PROVE  /\ Answered(x.arg, req, m, todo, taken)
             /\ Returning(c, deep, req, m, todo, taken)
             /\ \A s : Apart(s, p, stack) => Apart(s, c, deep)
  <2>1. Answered(x.arg, req, m, todo, taken)
    BY <1>1, <1>9, <1>4 DEF Returning
  <2>2. x.arg \in Slots
    BY <2>1 DEF Answered
  <2>3. /\ Len(deep) = Len(stack) + 1 /\ Len(stack) \in Nat /\ deep[Len(stack) + 1] = x.arg
        /\ \A i \in 1..Len(stack) : deep[i] = stack[i]
    BY <1>4, <2>2
  <2>4. \A i \in 1..Len(deep) : deep[i] = x.arg \/ \E j \in 1..Len(stack) : deep[i] = stack[j]
    BY <2>3
  <2>5. Returning(c, deep, req, m, todo, taken)
    <3>1. \A i \in 1..Len(deep) : Answered(deep[i], req, m, todo, taken)
      BY <1>5, <2>1, <2>4
    <3>2. ASSUME NEW i \in 1..n, c[i].msg = "MESSAGE"
          PROVE  \A j \in 1..Len(deep) : deep[j] # c[i].arg
      <4>1. x.arg # c[i].arg /\ \A j \in 1..Len(stack) : stack[j] # c[i].arg
        BY <1>6, <1>9, <3>2
      <4> QED
        BY <2>4, <4>1, Zenon
    <3>3. \A i \in 1..n : c[i].msg = "MESSAGE" =>
            /\ Answered(c[i].arg, req, m, todo, taken)
            /\ \A j \in 1..n : j # i /\ c[j].msg = "MESSAGE" => c[j].arg # c[i].arg
            /\ \A j \in 1..Len(deep) : deep[j] # c[i].arg
      BY <1>6, <3>2
    <3> QED
      BY <3>1, <3>3, Zenon DEF Returning, n
  <2>6. ASSUME NEW s, Apart(s, p, stack) PROVE Apart(s, c, deep)
    <3>1. Apart(s, c, stack) /\ x.arg # s
      BY <1>8, <1>9, <2>6
    <3>2. \A i \in 1..Len(deep) : deep[i] # s
      BY <2>4, <3>1, Zenon DEF Apart
    <3> QED
      BY <3>1, <3>2 DEF Apart
  <2> QED
    BY <2>1, <2>5, <2>6
<1> QED
  BY <1>7, <1>8, <1>9 DEF FirstReceived, c, x, deep

LEMMA SingleConcatenated ==
  ASSUME NEW S, NEW a \in Seq(S), NEW b \in Seq(S), NEW c, c = a \o b, NEW x
  PROVE  /\ Single(a, x) /\ Of(b, x.msg) = {} => Single(c, x)
         /\ Single(b, x) /\ Of(a, x.msg) = {} => Single(c, x)
<1> DEFINE k == Len(a)
           n == Len(b)
<1>1. /\ Len(c) = k + n /\ k \in Nat /\ n \in Nat
      /\ \A i \in 1..k : c[i] = a[i]
      /\ \A i \in 1..n : c[k + i] = b[i]
  BY Concatenate
<1>2. ASSUME NEW i \in 1..k + n, i \notin 1..k
      PROVE  i - k \in 1..n /\ c[i] = b[i - k]
  <2>1. i - k \in 1..n /\ i = k + (i - k)
    BY <1>1, <1>2
  <2> QED
    BY <1>1, <2>1
<1>3. Len(c) = k + n
  BY <1>1
<1> HIDE DEF k, n
<1>4. ASSUME Single(a, x), Of(b, x.msg) = {} PROVE Single(c, x)
  <2>1. ASSUME NEW i \in 1..k + n, c[i].msg = x.msg PROVE i \in 1..k /\ a[i].msg = x.msg /\ c[i] = a[i]
    <3>1. i \in 1..k
      BY <1>2, <1>4, <2>1 DEF Of, n
    <3> QED
      BY <1>1, <2>1, <3>1
  <2> QED
    BY <1>3, <1>4, <2>1 DEF Single, k
<1>5. ASSUME Single(b, x), Of(a, x.msg) = {} PROVE Single(c, x)
  <2>1. ASSUME NEW i \in 1..k + n, c[i].msg = x.msg
        PROVE  i - k \in 1..n /\ b[i - k].msg = x.msg /\ c[i] = b[i - k]
    <3>1. i \notin 1..k
      BY <1>1, <1>5, <2>1 DEF Of, k
    <3> QED
      BY <1>2, <2>1, <3>1
  <2>2. ASSUME NEW i \in 1..k + n, NEW j \in 1..k + n, c[i].msg = x.msg, c[j].msg = x.msg PROVE j = i
    <3>1. j - k = i - k
      BY <1>5, <2>1, <2>2 DEF Single, n
    <3> QED
      BY <1>1, <3>1
  <2> QED
    BY <1>3, <1>5, <2>1, <2>2 DEF Single, n
<1> QED
  BY <1>4, <1>5

LEMMA SingleOne ==
  ASSUME NEW x, NEW s, s = <<x>>
  PROVE  Single(s, x) /\ \A type : type # x.msg => Of(s, type) = {}
<1>1. Len(s) = 1 /\ s[1] = x
  OBVIOUS
<1> QED
  BY <1>1 DEF Single, Of

LEMMA SingleNone ==
  ASSUME NEW s, NEW x, Of(s, x.msg) = {}
  PROVE  Single(s, x)
BY DEF Single, Of

\* The script sends something other than a request to read.
LEMMA OneReadSent ==
  ASSUME NEW q \in Seq(ToBridge), NEW x \in ToBridge, x.msg # "READ", NEW c, c = Append(q, x),
         NEW p, NEW stack, NEW req, OneRead(q, p, stack, req)
  PROVE  OneRead(c, p, stack, req)
<1> DEFINE n == Len(q)
<1>1. Len(c) = n + 1 /\ n \in Nat /\ c[n + 1] = x /\ \A i \in 1..n : c[i] = q[i]
  BY AppendIs
<1>2. \A i \in 1..n + 1 : c[i].msg = "READ" => i \in 1..n /\ q[i].msg = "READ" /\ c[i] = q[i]
  BY <1>1
<1>3. Len(c) = n + 1
  BY <1>1
<1> HIDE DEF n
<1> QED
  BY <1>2, <1>3 DEF OneRead, n

\* The bridge takes the first message of the script and sends its answer.
LEMMA OneReadServed ==
  ASSUME NEW q \in Seq(ToBridge), q # <<>>, NEW c, c = Tail(q), NEW p \in Seq(ToClient),
         NEW out \in Seq(ToClient), NEW d, d = p \o out, NEW stack, NEW req,
         OneRead(q, p, stack, req), NEW x, x.msg = "READ", Single(out, x),
         Of(out, "READ") # {} => q[1].msg = "READ" /\ x.buf = Result(req[q[1].arg])
  PROVE  OneRead(c, d, stack, req)
<1> DEFINE n == Len(c)
           k == Len(p)
           l == Len(out)
<1>1. /\ Len(q) = n + 1 /\ n \in Nat /\ 1 \in 1..Len(q) /\ \A i \in 1..n : c[i] = q[i + 1]
  BY TailIs
<1>2. \A i \in 1..n : c[i] = q[i + 1] /\ i + 1 \in 1..Len(q) /\ i + 1 # 1
  BY <1>1
<1>3. /\ Len(d) = k + l /\ k \in Nat /\ l \in Nat
      /\ \A i \in 1..k : d[i] = p[i]
      /\ \A i \in 1..l : d[k + i] = out[i]
  BY Concatenate
<1>4. ASSUME NEW i \in 1..k + l, i \notin 1..k
      PROVE  i - k \in 1..l /\ d[i] = out[i - k]
  <2>1. i - k \in 1..l /\ i = k + (i - k)
    BY <1>3, <1>4
  <2> QED
    BY <1>3, <2>1
<1>5. Len(d) = k + l
  BY <1>3
<1> HIDE DEF n, k, l
<1>6. ASSUME NEW i \in 1..l, out[i].msg = "READ"
      PROVE  /\ Len(stack) = 1 /\ out[i].buf = Result(req[stack[1]])
             /\ \A j \in 1..l : out[j].msg = "READ" => j = i
             /\ \A j \in 1..k : p[j].msg # "READ"
             /\ \A j \in 1..n : c[j].msg # "READ"
  <2>1. q[1].msg = "READ" /\ x.buf = Result(req[q[1].arg])
    BY <1>6 DEF Of, l
  <2>2. out[i] = x /\ \A j \in 1..l : out[j].msg = "READ" => j = i
    BY <1>6 DEF Single, l
  <2>3. /\ Len(stack) = 1 /\ q[1].arg = stack[1]
        /\ \A j \in 1..Len(q) : q[j].msg = "READ" => j = 1
        /\ \A j \in 1..k : p[j].msg # "READ"
    BY <1>1, <2>1 DEF OneRead, k
  <2>4. \A j \in 1..n : c[j].msg # "READ"
    BY <1>2, <2>3
  <2> QED
    BY <2>1, <2>2, <2>3, <2>4
<1>7. ASSUME NEW i \in 1..n, c[i].msg = "READ"
      PROVE  /\ Len(stack) = 1 /\ c[i].arg = stack[1]
             /\ \A j \in 1..n : c[j].msg = "READ" => j = i
             /\ \A j \in 1..k + l : d[j].msg # "READ"
  <2>1. /\ Len(stack) = 1 /\ c[i].arg = stack[1]
        /\ \A j \in 1..Len(q) : q[j].msg = "READ" => j = i + 1
        /\ \A j \in 1..k : p[j].msg # "READ"
    BY <1>2, <1>7 DEF OneRead, k
  <2>2. ASSUME NEW j \in 1..n, c[j].msg = "READ" PROVE j = i
    <3>1. j + 1 = i + 1
      BY <1>2, <2>1, <2>2
    <3> QED
      BY <1>1, <3>1
  <2>3. \A j \in 1..l : out[j].msg # "READ"
    BY <1>6, <1>7
  <2>4. \A j \in 1..k + l : d[j].msg # "READ"
    BY <1>3, <1>4, <2>1, <2>3
  <2> QED
    BY <2>1, <2>2, <2>4
<1>8. ASSUME NEW i \in 1..k + l, d[i].msg = "READ"
      PROVE  /\ Len(stack) = 1 /\ d[i].buf = Result(req[stack[1]])
             /\ \A j \in 1..k + l : d[j].msg = "READ" => j = i
  <2>1. CASE i \in 1..k
    <3>1. d[i] = p[i] /\ p[i].msg = "READ"
      BY <1>3, <1>8, <2>1
    <3>2. /\ Len(stack) = 1 /\ p[i].buf = Result(req[stack[1]])
          /\ \A j \in 1..k : p[j].msg = "READ" => j = i
      BY <2>1, <3>1 DEF OneRead, k
    <3>3. \A j \in 1..l : out[j].msg # "READ"
      BY <1>6, <2>1, <3>1
    <3>4. \A j \in 1..k + l : d[j].msg = "READ" => j = i
      BY <1>3, <1>4, <3>2, <3>3
    <3> QED
      BY <3>1, <3>2, <3>4
  <2>2. CASE i \notin 1..k
    <3>1. i - k \in 1..l /\ d[i] = out[i - k]
      BY <1>4, <2>2
    <3>2. /\ Len(stack) = 1 /\ d[i].buf = Result(req[stack[1]])
          /\ \A j \in 1..l : out[j].msg = "READ" => j = i - k
          /\ \A j \in 1..k : p[j].msg # "READ"
      BY <1>6, <1>8, <3>1
    <3>3. ASSUME NEW j \in 1..k + l, d[j].msg = "READ" PROVE j = i
      <4>1. j \notin 1..k
        BY <1>3, <3>2, <3>3
      <4>2. j - k = i - k
        BY <1>4, <3>2, <3>3, <4>1
      <4> QED
        BY <1>3, <4>2
    <3> QED
      BY <3>2, <3>3
  <2> QED
    BY <2>1, <2>2
<1>9. Len(c) = n /\ Len(stack) <= 1
  BY DEF n, OneRead
<1> QED
  BY <1>5, <1>7, <1>8, <1>9 DEF OneRead

\* Messages other than results are sent to the script.
LEMMA OneReadTold ==
  ASSUME NEW p \in Seq(ToClient), NEW out \in Seq(ToClient), NEW d, d = p \o out,
         NEW q, NEW stack, NEW req, OneRead(q, p, stack, req), Of(out, "READ") = {}
  PROVE  OneRead(q, d, stack, req)
<1> DEFINE k == Len(p)
           l == Len(out)
<1>1. /\ Len(d) = k + l /\ k \in Nat /\ l \in Nat
      /\ \A i \in 1..k : d[i] = p[i]
      /\ \A i \in 1..l : d[k + i] = out[i]
  BY Concatenate
<1>2. ASSUME NEW i \in 1..k + l, d[i].msg = "READ" PROVE i \in 1..k /\ p[i].msg = "READ" /\ d[i] = p[i]
  <2>1. i \in 1..k
    <3> SUFFICES ASSUME i \notin 1..k PROVE FALSE
      OBVIOUS
    <3>1. i - k \in 1..l /\ i = k + (i - k)
      BY <1>1
    <3>2. out[i - k].msg = "READ"
      BY <1>1, <1>2, <3>1
    <3> QED
      BY <3>1, <3>2 DEF Of
  <2> QED
    BY <1>1, <1>2, <2>1
<1>3. Len(d) = k + l
  BY <1>1
<1> HIDE DEF k, l
<1> QED
  BY <1>2, <1>3 DEF OneRead, k

\* The script receives a message: a result ends the reading, a reply begins it.
ReadReceived(q, p, stack, req) ==
  /\ OneRead(q, Tail(p), stack, req)
  /\ p[1].msg = "READ" =>
       /\ Len(stack) = 1 /\ p[1].buf = Result(req[stack[1]])
       /\ \A new : OneRead(q, Tail(p), <<>>, new)
  /\ p[1].msg = "MESSAGE" /\ stack = <<>> /\ p[1].arg \in Slots =>
       OneRead(Append(q, READ(p[1].arg, Nothing)), Tail(p), Append(stack, p[1].arg), req)

LEMMA OneReadReceived ==
  ASSUME NEW p \in Seq(ToClient), p # <<>>, NEW q \in Seq(ToBridge), NEW stack \in Seq(Slots),
         NEW req, OneRead(q, p, stack, req)
  PROVE  ReadReceived(q, p, stack, req)
<1> DEFINE c == Tail(p)
           n == Len(c)
<1>1. /\ Len(p) = n + 1 /\ n \in Nat /\ 1 \in 1..Len(p) /\ \A i \in 1..n : c[i] = p[i + 1]
  BY TailIs
<1>2. \A i \in 1..n : c[i] = p[i + 1] /\ i + 1 \in 1..Len(p) /\ i + 1 # 1
  BY <1>1
<1>3. \A i, j \in 1..n : j + 1 = i + 1 => j = i
  OBVIOUS
<1> HIDE DEF n, c
<1>4. OneRead(q, c, stack, req)
  <2>1. ASSUME NEW i \in 1..n, c[i].msg = "READ"
        PROVE  /\ Len(stack) = 1 /\ c[i].buf = Result(req[stack[1]])
               /\ \A j \in 1..n : c[j].msg = "READ" => j = i
               /\ \A j \in 1..Len(q) : q[j].msg # "READ"
    <3>1. i + 1 \in 1..Len(p) /\ p[i + 1].msg = "READ" /\ c[i] = p[i + 1]
      BY <1>2, <2>1
    <3>2. /\ Len(stack) = 1 /\ p[i + 1].buf = Result(req[stack[1]])
          /\ \A j \in 1..Len(p) : p[j].msg = "READ" => j = i + 1
          /\ \A j \in 1..Len(q) : q[j].msg # "READ"
      BY <3>1 DEF OneRead
    <3> QED
      BY <1>2, <1>3, <3>1, <3>2
  <2>2. Len(stack) <= 1 /\ \A i \in 1..Len(q) : q[i].msg = "READ" =>
          /\ Len(stack) = 1 /\ q[i].arg = stack[1]
          /\ \A j \in 1..Len(q) : q[j].msg = "READ" => j = i
    BY DEF OneRead
  <2> QED
    BY <2>1, <2>2, Zenon DEF OneRead, n
<1>5. ASSUME p[1].msg = "READ"
      PROVE  /\ Len(stack) = 1 /\ p[1].buf = Result(req[stack[1]])
             /\ \A new : OneRead(q, c, <<>>, new)
  <2>1. /\ Len(stack) = 1 /\ p[1].buf = Result(req[stack[1]])
        /\ \A j \in 1..Len(p) : p[j].msg = "READ" => j = 1
        /\ \A i \in 1..Len(q) : q[i].msg # "READ"
    BY <1>1, <1>5 DEF OneRead
  <2>2. \A i \in 1..n : c[i].msg # "READ"
    BY <1>2, <2>1
  <2>3. Len(<<>>) = 0 /\ 0 <= 1
    OBVIOUS
  <2> QED
    BY <2>1, <2>2, <2>3 DEF OneRead, n
<1>6. ASSUME p[1].msg = "MESSAGE", stack = <<>>, p[1].arg \in Slots
      PROVE  OneRead(Append(q, READ(p[1].arg, Nothing)), c, Append(stack, p[1].arg), req)
  <2> DEFINE a == p[1].arg
             x == READ(a, Nothing)
             g == Append(q, x)
             s == Append(stack, a)
  <2>1. x \in ToBridge /\ x.msg = "READ" /\ x.arg = a
    BY <1>6, Messages, RequestsAre
  <2>2. Len(stack) = 0 /\ Len(s) = 1 /\ s[1] = a
    BY <1>6
  <2> HIDE DEF x, s, a
  <2>3. /\ Len(g) = Len(q) + 1 /\ Len(q) \in Nat /\ g[Len(q) + 1] = x
        /\ \A i \in 1..Len(q) : g[i] = q[i]
    BY <2>1, AppendIs
  <2> HIDE DEF g
  <2>4. /\ \A i \in 1..Len(q) : q[i].msg # "READ"
        /\ \A i \in 1..Len(p) : p[i].msg # "READ"
    BY <2>2 DEF OneRead
  <2>5. \A i \in 1..n : c[i].msg # "READ"
    BY <1>2, <2>4
  <2>6. \A i \in 1..Len(g) : g[i].msg = "READ" => i = Len(q) + 1
    BY <2>3, <2>4
  <2>7. \A i \in 1..Len(g) : g[i].msg = "READ" => g[i].arg = a
    BY <2>1, <2>3, <2>6
  <2>8. OneRead(g, c, s, req)
    BY <2>2, <2>5, <2>6, <2>7 DEF OneRead, n
  <2> QED
    BY <2>8 DEF g, s, x, a
<1> QED
  BY <1>4, <1>5, <1>6 DEF ReadReceived, c

-----------------------------------------------------------------------------
(* The bridge never changes which interrupts the guest has enabled.         *)

SameEnabled(q, r) == q \in IoType /\ q.irq_enabled = r.irq_enabled

LEMMA WriteEnabled ==
  ASSUME NEW r \in IoType, NEW data \in SUBSET CtrlBits
  PROVE  SameEnabled(PpcCtrlWrite(r, data), r) /\ SameEnabled(ArmCtrlWrite(r, data), r)
<1>1. r.ppcctrl \in SUBSET CtrlBits /\ r.armctrl \in SUBSET CtrlBits
  BY DEF IoType
<1> DEFINE a == OwnAfterWrite(r.ppcctrl, data)
           b == PeerAfterWrite(r.armctrl, data)
           c == OwnAfterWrite(r.armctrl, data)
           d == PeerAfterWrite(r.ppcctrl, data)
<1>2. a \in SUBSET CtrlBits /\ b \in SUBSET CtrlBits /\ c \in SUBSET CtrlBits /\ d \in SUBSET CtrlBits
  BY <1>1, WriteBits
<1>3. /\ PpcCtrlWrite(r, data) = [r EXCEPT !.ppcctrl = a, !.armctrl = b]
      /\ ArmCtrlWrite(r, data) = [r EXCEPT !.armctrl = c, !.ppcctrl = d]
  BY DEF PpcCtrlWrite, ArmCtrlWrite
<1> HIDE DEF a, b, c, d
<1> QED
  BY <1>2, <1>3 DEF SameEnabled, IoType

LEMMA SetEnabled ==
  ASSUME NEW r \in IoType, NEW bits \in SUBSET CtrlBits
  PROVE  SameEnabled(ipc_set(r, bits), r)
<1> DEFINE data == (r.ppcctrl \cap {PeerSent, Acked, MsgIrq, AckIrq}) \cup bits
<1>1. data \in SUBSET CtrlBits
  BY DEF IoType
<1>2. ipc_set(r, bits) = PpcCtrlWrite(r, data)
  BY DEF ipc_set
<1> HIDE DEF data
<1> QED
  BY <1>1, <1>2, WriteEnabled

LEMMA UpdateEnabled ==
  ASSUME NEW r \in IoType
  PROVE  SameEnabled(ipc_update_int(r), r)
<1> DEFINE p == IF Flagged(r.ppcctrl)
                THEN update_int(IF PpcIrq \in r.irq_active_ppc THEN r ELSE set_intr(r, PpcIrq))
                ELSE r
<1>1. ASSUME NEW x \in IoType PROVE SameEnabled(update_int(x), x)
  BY DEF update_int, IoType, SameEnabled
<1>2. ASSUME NEW x \in IoType, NEW n \in Nat PROVE SameEnabled(set_intr(x, n), x)
  BY DEF set_intr, IoType, SameEnabled
<1>3. PpcIrq \in Nat /\ ArmIrq \in Nat
  BY DEF PpcIrq, ArmIrq
<1>4. ASSUME NEW x \in IoType, NEW n \in {PpcIrq, ArmIrq} PROVE SameEnabled(update_int(set_intr(x, n)), x)
  <2> DEFINE y == set_intr(x, n)
  <2>1. y \in IoType /\ y.irq_enabled = x.irq_enabled
    BY <1>2, <1>3 DEF SameEnabled
  <2> HIDE DEF y
  <2>2. SameEnabled(update_int(y), y)
    BY <1>1, <2>1
  <2> QED
    BY <2>1, <2>2 DEF SameEnabled, y
<1>5. SameEnabled(p, r)
  BY <1>1, <1>4 DEF SameEnabled
<1>6. ipc_update_int(r) =
        IF Flagged(p.armctrl) THEN update_int(IF ArmIrq \in p.irq_active THEN p ELSE set_intr(p, ArmIrq))
        ELSE p
  BY DEF ipc_update_int
<1> HIDE DEF p
<1>7. p \in IoType /\ p.irq_enabled = r.irq_enabled
  BY <1>5 DEF SameEnabled
<1>8. SameEnabled(ipc_update_int(r), p)
  BY <1>1, <1>4, <1>6, <1>7 DEF SameEnabled
<1> QED
  BY <1>7, <1>8 DEF SameEnabled

LEMMA ClearEnabled ==
  ASSUME NEW r \in IoType
  PROVE  SameEnabled(ClearPpcIrq(r), r)
BY DEF ClearPpcIrq, IoType, SameEnabled

LEMMA TakeEnabled ==
  ASSUME NEW r \in IoType
  PROVE  SameEnabled(TakeMessage(r), r) /\ SameEnabled(IdleRegs(r), r)
<1> DEFINE a == TakeAck(r)
           m == TakeMessage(r)
<1>1. {PeerAcked} \in SUBSET CtrlBits /\ {PeerSent, Acked} \in SUBSET CtrlBits
  BY Bits
<1>2. SameEnabled(a, r)
  BY <1>1, SetEnabled DEF TakeAck, SameEnabled
<1>3. a \in IoType /\ a.irq_enabled = r.irq_enabled
  BY <1>2 DEF SameEnabled
<1>4. m = IF NewMessage(r) THEN ipc_set(a, {PeerSent, Acked}) ELSE a
  BY DEF TakeMessage
<1> HIDE DEF a, m
<1>5. SameEnabled(ipc_set(a, {PeerSent, Acked}), a)
  BY <1>1, <1>3, SetEnabled
<1>6. SameEnabled(m, r)
  BY <1>3, <1>4, <1>5 DEF SameEnabled
<1>7. m \in IoType /\ m.irq_enabled = r.irq_enabled
  BY <1>6 DEF SameEnabled
<1>8. SameEnabled(ClearPpcIrq(m), m)
  BY <1>7, ClearEnabled
<1>9. SameEnabled(ClearPpcIrq(m), r)
  BY <1>7, <1>8 DEF SameEnabled
<1> QED
  BY <1>6, <1>9 DEF IdleRegs, m

LEMMA ServeEnabled ==
  ASSUME NEW r \in IoType, NEW m \in ToBridge
  PROVE  SameEnabled(Serve(r, m), r)
<1> DEFINE p == [r EXCEPT !.ppcmsg = m.arg]
<1>1. m.arg \in Nat /\ {Sent} \in SUBSET CtrlBits /\ {Acked} \in SUBSET CtrlBits
  BY Bits DEF ToBridge, Message
<1>2. p \in IoType /\ p.irq_enabled = r.irq_enabled
  BY <1>1 DEF IoType
<1>3. /\ m.msg = "MESSAGE" => Serve(r, m) = ipc_set(p, {Sent})
      /\ m.msg = "ACK" => Serve(r, m) = ipc_set(r, {Acked})
      /\ m.msg # "MESSAGE" /\ m.msg # "ACK" => Serve(r, m) = r
  BY DEF Serve, SendMessage, SendAck
<1> HIDE DEF p
<1>4. SameEnabled(ipc_set(p, {Sent}), p) /\ SameEnabled(ipc_set(r, {Acked}), r)
  BY <1>1, <1>2, SetEnabled
<1> QED
  BY <1>2, <1>3, <1>4 DEF SameEnabled

LEMMA SndAckEnabled ==
  ASSUME NEW r \in IoType
  PROVE  SameEnabled(SndAckRegs(r), r)
<1> DEFINE p == IF GotAck(r) THEN ipc_set(r, {PeerAcked}) ELSE r
<1>1. {PeerAcked} \in SUBSET CtrlBits
  BY Bits
<1>2. p \in IoType /\ p.irq_enabled = r.irq_enabled
  BY <1>1, SetEnabled DEF SameEnabled
<1> HIDE DEF p
<1>3. SameEnabled(ClearPpcIrq(p), p)
  BY <1>2, ClearEnabled
<1> QED
  BY <1>2, <1>3 DEF SameEnabled, SndAckRegs, p

LEMMA PassEnabled ==
  ASSUME IpcType, NEW r, Leave(r),
         \/ r = InitRegs(Entry) \/ r = Entry \/ r = TakeMessage(Entry) \/ r = IdleRegs(Entry)
         \/ r = SndAckRegs(Entry) \/ \E m \in ToBridge : r = Serve(IdleRegs(Entry), m)
  PROVE  io'.irq_enabled = io.irq_enabled
<1> DEFINE e == Entry
<1>1. io \in IoType
  BY DEF IpcType
<1>2. e \in IoType /\ e.irq_enabled = io.irq_enabled
  BY <1>1, UpdateEnabled DEF Entry, SameEnabled
<1> HIDE DEF e
<1>3. SameEnabled(r, e)
  <2>1. CASE r = InitRegs(e)
    <3>1. {PeerAcked, PeerSent, MsgIrq, AckIrq} \in SUBSET CtrlBits
      BY Bits
    <3> QED
      BY <1>2, <2>1, <3>1, WriteEnabled DEF InitRegs
  <2>2. CASE r = e
    BY <1>2, <2>2 DEF SameEnabled
  <2>3. CASE r = TakeMessage(e) \/ r = IdleRegs(e)
    BY <1>2, <2>3, TakeEnabled
  <2>4. CASE r = SndAckRegs(e)
    BY <1>2, <2>4, SndAckEnabled
  <2>5. CASE \E m \in ToBridge : r = Serve(IdleRegs(e), m)
    <3>1. PICK m \in ToBridge : r = Serve(IdleRegs(e), m)
      BY <2>5
    <3>2. IdleRegs(e) \in IoType /\ IdleRegs(e).irq_enabled = e.irq_enabled
      BY <1>2, TakeEnabled DEF SameEnabled
    <3>3. SameEnabled(r, IdleRegs(e))
      BY <3>1, <3>2, ServeEnabled
    <3> QED
      BY <3>2, <3>3 DEF SameEnabled
  <2> QED
    BY <2>1, <2>2, <2>3, <2>4, <2>5 DEF e
<1>4. r \in IoType /\ r.irq_enabled = e.irq_enabled
  BY <1>3 DEF SameEnabled
<1>5. SameEnabled(io', r)
  BY <1>4, UpdateEnabled DEF Leave
<1> QED
  BY <1>2, <1>4, <1>5 DEF SameEnabled

-----------------------------------------------------------------------------
(* The places of the requests, from one state to the next.                  *)

Tracked == TrackInv /\ OwnInv

\* A step that takes no request and delivers no result.
LEMMA StepTracked ==
  ASSUME Tracked, hist'.taken = hist.taken, hist'.results = hist.results,
         hist.issued \in Nat, hist'.issued \in {hist.issued, hist.issued + 1}, hist.taken \in Seq(Block),
         Undisturbed' => Undisturbed, "nested" \notin hist'.races => "nested" \notin hist.races,
         "reacked" \in hist'.races => "reacked" \in hist.races,
         Undisturbed' /\ ~bridge'.exited => PlaceInv',
         Undisturbed' /\ ~bridge'.exited /\ "nested" \notin hist'.races =>
           OneRead(ToServe, Coming, client.stack, client.requests)'
  PROVE  Tracked'
<1>1. Len(hist.taken) \in Nat
  OBVIOUS
<1>2. ASSUME Undisturbed'
      PROVE  /\ "reacked" \notin hist'.races
             /\ \A i \in 1..Len(hist'.taken) : hist'.taken[i] = Request(i)
             /\ Len(hist'.taken) <= hist'.issued
             /\ ~bridge'.exited => PlaceInv'
  BY <1>1, <1>2 DEF Tracked, TrackInv
<1>3. ASSUME Undisturbed', "nested" \notin hist'.races
      PROVE  /\ \A i \in Ids : hist'.results[i] \in {Nothing, Result(i)}
             /\ ~bridge'.exited => OneRead(ToServe, Coming, client.stack, client.requests)'
  BY <1>3 DEF Tracked, OwnInv
<1>4. TrackInv'
  BY <1>2 DEF TrackInv
<1>5. OwnInv'
  BY <1>3 DEF OwnInv
<1> QED
  BY <1>4, <1>5 DEF Tracked

\* What the invariants say while nothing has disturbed the requests.
LEMMA TrackedIs ==
  ASSUME Inv, ~SigPipeIgnored, ~bridge.exited, Tracked, Undisturbed
  PROVE  /\ PlaceInv /\ "reacked" \notin hist.races
         /\ Acked \in io.armctrl => bridge.ipcs = "SNDACK"
         /\ PeerSent \in io.armctrl => bridge.ipcs = "SNDACK" /\ io.ppcmsg \in Slots
         /\ client.acks = 0
         /\ "nested" \notin hist.races => OneRead(ToServe, Coming, client.stack, client.requests)
<1>1. IpcType /\ CrossInv /\ ReloadInv /\ SlotInv
  BY DEF Inv, ControlInv
<1>2. PlaceInv /\ "reacked" \notin hist.races
  BY DEF Tracked, TrackInv
<1>3. Told + Announced <= hist.reloads /\ Told <= hist.reloads /\ hist.reloads = 0
  BY <1>1, <1>2 DEF ReloadInv, Undisturbed
<1>4. Told \in Nat /\ Announced \in {0, 1} /\ hist.launched \in Nat /\ client.acks \in Nat
  BY <1>1, Fields DEF IpcType, HistType, ClientType
<1>5. Announced = 0
  BY <1>3, <1>4
<1>6. Acked \in io.armctrl => bridge.ipcs = "SNDACK"
  BY <1>5 DEF Announced
<1>7. client.acks = 0
  <2> DEFINE a == IF client.conn = 0 THEN 0 ELSE Cardinality(Of(net.s2c[client.conn], "ACK"))
  <2>1. a \in Nat
    BY <1>1, Fields, OfFinite
  <2>2. Told = hist.launched + client.acks + a
    BY DEF Told
  <2> HIDE DEF a
  <2>3. \A x, y, z \in Nat : x + y + z <= 0 => y = 0
    OBVIOUS
  <2>4. hist.launched + client.acks + a <= 0
    BY <1>3, <2>2
  <2> QED
    BY <1>4, <2>1, <2>3, <2>4
<1> QED
  BY <1>1, <1>2, <1>6, <1>7 DEF CrossInv, SlotInv, Tracked, OwnInv

LEMMA PlaceTypes ==
  ASSUME IpcType
  PROVE  /\ ToServe \in Seq(ToBridge) /\ Coming \in Seq(ToClient)
         /\ client.requests \in [Slots -> Nat] /\ client.stack \in Seq(Slots) /\ mem \in [Slots -> Block]
         /\ hist.taken \in Seq(Block) /\ Len(hist.taken) \in Nat /\ hist.issued \in Nat /\ Handed \in Nat
         /\ guest.todo \in SUBSET [slot : Slots, id : Nat]
         /\ Conns \subseteq Nat /\ 0 \notin Conns
<1>1. /\ client.requests \in [Slots -> Nat] /\ client.stack \in Seq(Slots) /\ mem \in [Slots -> Block]
      /\ hist.taken \in Seq(Block) /\ hist.issued \in Nat
      /\ guest.todo \in SUBSET [slot : Slots, id : Nat]
  BY DEF IpcType, ClientType, HistType, GuestType
<1>2. client.conn \in Nat /\ (client.conn > 0 => client.conn \in Conns)
      /\ \A k \in Conns : net.s2c[k] \in Seq(ToClient) /\ net.c2s[k] \in Seq(ToBridge)
  BY Fields
<1>3. ToServe \in Seq(ToBridge) /\ Coming \in Seq(ToClient)
  BY <1>2 DEF ToServe, Coming
<1>4. Len(hist.taken) \in Nat
  BY <1>1
<1>5. Handed \in Nat
  <2> DEFINE h == Len(hist.taken)
             d == IF PeerSent \in io.armctrl THEN 1 ELSE 0
  <2>1. d \in Nat
    OBVIOUS
  <2> HIDE DEF h, d
  <2>2. h + d \in Nat
    BY <1>4, <2>1 DEF h
  <2> QED
    BY <2>2 DEF Handed, h, d
<1>6. Conns \subseteq Nat /\ 0 \notin Conns
  BY BoundsAssumption DEF Conns
<1> QED
  BY <1>1, <1>3, <1>4, <1>5, <1>6

LEMMA QuietPass ==
  ASSUME QuietInv, io'.irq_enabled = io.irq_enabled, guest' = guest, Acked \notin io'.armctrl,
         PeerSent \in io.armctrl => PeerSent \in io'.armctrl \/ guest.pc # "irq"
  PROVE  QuietInv'
BY DEF QuietInv

LEMMA PlacesKept ==
  ASSUME PlaceInv, QuietInv', BackInv', OldInv', ToServe' = ToServe,
         client'.requests = client.requests, mem' = mem, guest'.todo = guest.todo,
         hist'.taken = hist.taken, hist'.issued = hist.issued,
         PeerSent \in io'.armctrl <=> PeerSent \in io.armctrl, io'.ppcmsg = io.ppcmsg
  PROVE  PlaceInv'
<1>1. Handed' = Handed
  BY DEF Handed
<1>2. QueueInv'
  BY <1>1 DEF PlaceInv, QueueInv
<1>3. MailboxInv' /\ TodoInv'
  BY DEF PlaceInv, MailboxInv, TodoInv
<1> QED
  BY <1>1, <1>2, <1>3 DEF PlaceInv

LEMMA BackKept ==
  ASSUME BackInv, Coming' = Coming, client'.stack = client.stack, client'.requests = client.requests,
         mem' = mem, guest'.todo = guest.todo, hist'.taken = hist.taken, io'.armmsg = io.armmsg,
         Sent \in io'.armctrl => Sent \in io.armctrl
  PROVE  BackInv'
BY DEF BackInv

LEMMA OldKept ==
  ASSUME OldInv, client'.conn = client.conn,
         \A k \in Conns : k # client.conn => net'.c2s[k] = net.c2s[k]
  PROVE  OldInv'
BY DEF OldInv

\* A pass that sends nothing and takes nothing from the socket.
LEMMA PassTracked ==
  ASSUME Inv, ~SigPipeIgnored, ~bridge.exited, Tracked,
         net' = net, client' = client, hist' = hist, mem' = mem, guest' = guest,
         io'.irq_enabled = io.irq_enabled, io'.ppcmsg = io.ppcmsg, io'.armmsg = io.armmsg,
         Sent \in io'.armctrl => Sent \in io.armctrl,
         Undisturbed /\ ~bridge'.exited => /\ Acked \notin io'.armctrl
                                           /\ PeerSent \in io'.armctrl <=> PeerSent \in io.armctrl
  PROVE  Tracked'
<1>1. IpcType
  BY DEF Inv, ControlInv
<1>2. ToServe' = ToServe /\ Coming' = Coming /\ (Undisturbed' <=> Undisturbed)
  BY DEF ToServe, Coming, Undisturbed
<1>3. ASSUME Undisturbed, ~bridge'.exited
      PROVE  /\ PlaceInv'
             /\ "nested" \notin hist.races => OneRead(ToServe, Coming, client.stack, client.requests)'
  <2>1. PlaceInv /\ ("nested" \notin hist.races => OneRead(ToServe, Coming, client.stack, client.requests))
    BY <1>3, TrackedIs
  <2>2. QuietInv'
    BY <1>3, <2>1, QuietPass DEF PlaceInv
  <2>3. BackInv' /\ OldInv'
    BY <1>2, <2>1, BackKept, OldKept DEF PlaceInv
  <2>4. PlaceInv'
    BY <1>2, <1>3, <2>1, <2>2, <2>3, PlacesKept
  <2> QED
    BY <1>2, <2>1, <2>4
<1>4. hist.issued \in Nat /\ hist.taken \in Seq(Block)
  BY <1>1, PlaceTypes
<1> QED
  BY <1>2, <1>3, <1>4, StepTracked

LEMMA PassInitTracked ==
  ASSUME Inv, ~SigPipeIgnored, ~bridge.exited, Tracked, PassInit
  PROVE  Tracked'
<1>1. IpcType /\ MirrorInv /\ InitInv
  BY DEF Inv, ControlInv
<1>2. /\ MirrorInv' /\ io'.ppcmsg = io.ppcmsg /\ io'.armmsg = io.armmsg
      /\ Sent \notin io'.ppcctrl /\ PeerSent \notin io'.ppcctrl /\ PeerAcked \notin io'.ppcctrl
  BY <1>1, InitPass
<1>3. Sent \notin io'.armctrl /\ Acked \notin io'.armctrl /\ PeerSent \notin io'.armctrl
  BY <1>2 DEF MirrorInv, Mirrored
<1>4. PeerSent \notin io.armctrl
  BY <1>1, Bits DEF InitInv, PassInit
<1>5. io'.irq_enabled = io.irq_enabled
  BY <1>1, PassEnabled DEF PassInit
<1>6. net' = net /\ client' = client /\ hist' = hist /\ mem' = mem /\ guest' = guest
  BY DEF PassInit
<1> QED
  BY <1>2, <1>3, <1>4, <1>5, <1>6, PassTracked

LEMMA AcceptNoneTracked ==
  ASSUME Inv, ~SigPipeIgnored, ~bridge.exited, Tracked, AcceptNone
  PROVE  Tracked'
<1>1. IpcType /\ MirrorInv
  BY DEF Inv, ControlInv
<1>2. Leave(Entry) /\ bridge.ipcs = "ACCEPT" /\ bridge.ipcs # "SNDACK"
      /\ net' = net /\ client' = client /\ hist' = hist /\ mem' = mem /\ guest' = guest
  BY DEF AcceptNone
<1>3. io'.armctrl = io.armctrl /\ io'.ppcmsg = io.ppcmsg /\ io'.armmsg = io.armmsg
  BY <1>1, <1>2, AcceptPass DEF SameMailbox
<1>4. io'.irq_enabled = io.irq_enabled
  BY <1>1, <1>2, PassEnabled
<1>5. Undisturbed => Acked \notin io'.armctrl
  BY <1>2, <1>3, TrackedIs
<1> QED
  BY <1>2, <1>3, <1>4, <1>5, PassTracked

LEMMA IdleGoneTracked ==
  ASSUME Inv, ~SigPipeIgnored, ~bridge.exited, Tracked, IdleForwardFails \/ IdleHangup
  PROVE  Tracked'
<1>1. IpcType /\ MirrorInv /\ InitInv
  BY DEF Inv, ControlInv
<1>2. /\ bridge.ipcs = "IDLE" /\ net' = net /\ client' = client /\ hist' = hist /\ mem' = mem /\ guest' = guest
      /\ Leave(TakeMessage(Entry)) \/ Leave(IdleRegs(Entry))
  BY DEF IdleForwardFails, IdleHangup
<1>3. Irqs \subseteq io.ppcctrl /\ bridge.ipcs # "SNDACK"
  BY <1>1, <1>2 DEF InitInv
<1>4. /\ MirrorInv' /\ io'.ppcmsg = io.ppcmsg /\ io'.armmsg = io.armmsg
      /\ PeerSent \notin io'.ppcctrl /\ PeerAcked \notin io'.ppcctrl
      /\ Sent \in io'.ppcctrl => Sent \in io.ppcctrl
  BY <1>1, <1>2, <1>3, IdlePass
<1>5. /\ Sent \notin io'.armctrl /\ Acked \notin io'.armctrl
      /\ PeerSent \in io'.armctrl => PeerSent \in io.armctrl
  BY <1>1, <1>4 DEF MirrorInv, Mirrored
<1>6. io'.irq_enabled = io.irq_enabled
  BY <1>1, <1>2, PassEnabled
<1>7. Undisturbed => PeerSent \notin io.armctrl
  BY <1>3, TrackedIs
<1> QED
  BY <1>2, <1>4, <1>5, <1>6, <1>7, PassTracked

LEMMA PassSndAckTracked ==
  ASSUME Inv, ~SigPipeIgnored, ~bridge.exited, Tracked, PassSndAck
  PROVE  Tracked'
<1>1. IpcType /\ MirrorInv /\ InitInv
  BY DEF Inv, ControlInv
<1>2. /\ bridge.ipcs = "SNDACK" /\ net' = net /\ client' = client /\ hist' = hist /\ mem' = mem /\ guest' = guest
      /\ Leave(SndAckRegs(Entry))
  BY DEF PassSndAck
<1>3. Irqs \subseteq io.ppcctrl
  BY <1>1, <1>2 DEF InitInv
<1>4. /\ MirrorInv' /\ io'.ppcmsg = io.ppcmsg /\ io'.armmsg = io.armmsg
      /\ IF PeerAcked \in io.ppcctrl
         THEN Sent \notin io'.ppcctrl /\ PeerSent \notin io'.ppcctrl /\ PeerAcked \notin io'.ppcctrl
         ELSE SameMailbox(io', io)
  BY <1>1, <1>2, <1>3, SndAckPass
<1>5. io'.irq_enabled = io.irq_enabled
  BY <1>1, <1>2, PassEnabled
<1>6. Undisturbed /\ Acked \in io.armctrl => PeerSent \notin io.armctrl
  BY TrackedIs DEF PlaceInv, QuietInv
<1>7. CASE PeerAcked \in io.ppcctrl
  <2>1. /\ Acked \in io.armctrl /\ Sent \notin io'.armctrl /\ Acked \notin io'.armctrl
        /\ PeerSent \notin io'.armctrl
    BY <1>1, <1>4, <1>7 DEF MirrorInv, Mirrored
  <2> QED
    BY <1>2, <1>4, <1>5, <1>6, <2>1, PassTracked
<1>8. CASE PeerAcked \notin io.ppcctrl
  <2>1. Acked \notin io.armctrl /\ io'.armctrl = io.armctrl
    BY <1>1, <1>4, <1>8 DEF MirrorInv, Mirrored, SameMailbox
  <2> QED
    BY <1>2, <1>4, <1>5, <2>1, PassTracked
<1> QED
  BY <1>7, <1>8

\* What the bridge sends besides what it forwards: a result, if it was asked for.
LEMMA RepliesAre ==
  ASSUME IpcType, NEW m \in ToBridge, NEW x, x = READ(m.arg, mem[m.arg]), NEW rest,
         \/ rest = <<>> /\ m.msg = "EXIT"
         \/ rest = StatusChange
         \/ rest = Answer(m) \o StatusChange
  PROVE  /\ rest \in Seq(ToClient) /\ Of(rest, "MESSAGE") = {} /\ Single(rest, x)
         /\ Of(rest, "READ") # {} => m.msg = "READ"
         /\ rest = StatusChange => Of(rest, "READ") = {}
<1> DEFINE a == Answer(m)
           c == StatusChange
<1>1. x.msg = "READ"
  BY RequestsAre
<1>2. rest \in Seq(ToClient)
  BY Replies
<1>3. c \in Seq(ToClient) /\ \A type : type # "STATUS" => Of(c, type) = {}
  <2>1. CASE io.ppc_running = bridge.last
    BY <2>1, None DEF StatusChange
  <2>2. CASE io.ppc_running # bridge.last
    <3> DEFINE s == STATUS(io.ppc_running)
    <3>1. c = <<s>>
      BY <2>2 DEF StatusChange
    <3>2. s \in ToClient /\ s.msg = "STATUS"
      BY Messages DEF IpcType, IoType
    <3> HIDE DEF s, c
    <3> QED
      BY <3>1, <3>2, One
  <2> QED
    BY <2>1, <2>2
<1>4. /\ a \in Seq(ToClient) /\ Single(a, x) /\ Of(a, "MESSAGE") = {}
      /\ Of(a, "READ") # {} => m.msg = "READ"
  <2>1. CASE m.msg = "READ"
    <3>1. a = <<x>>
      BY <2>1 DEF Answer
    <3>2. m.arg \in Slots /\ mem[m.arg] \in Block
      BY <2>1 DEF ToBridge, IpcType
    <3>3. x \in ToClient
      BY <3>2, Messages
    <3> HIDE DEF a
    <3>4. a \in Seq(ToClient) /\ \A type : Of(a, type) = IF x.msg = type THEN {1} ELSE {}
      BY <3>1, <3>3, One, Zenon
    <3>5. Single(a, x)
      BY <3>1, SingleOne
    <3> QED
      BY <1>1, <2>1, <3>4, <3>5
  <2>2. CASE m.msg # "READ"
    <3>1. a = <<>>
      BY <2>2 DEF Answer
    <3> HIDE DEF a
    <3>2. a \in Seq(ToClient) /\ \A type : Of(a, type) = {}
      BY <3>1, None
    <3> QED
      BY <3>2, SingleNone
  <2> QED
    BY <2>1, <2>2
<1> HIDE DEF a, c
<1>5. CASE rest = <<>> /\ m.msg = "EXIT"
  <2>1. \A type : Of(rest, type) = {}
    BY <1>5, None
  <2> QED
    BY <1>2, <2>1, SingleNone
<1>6. CASE rest = c
  <2>1. Of(rest, "MESSAGE") = {} /\ Of(rest, "READ") = {}
    BY <1>3, <1>6
  <2> QED
    BY <1>1, <1>2, <2>1, SingleNone
<1>7. CASE rest = a \o c /\ rest # c
  <2>1. Of(c, x.msg) = {} /\ Of(c, "MESSAGE") = {} /\ Of(c, "READ") = {}
    BY <1>1, <1>3
  <2>2. a \in Seq(ToClient) /\ c \in Seq(ToClient) /\ rest = a \o c
    BY <1>3, <1>4, <1>7
  <2>3. Single(rest, x)
    <3> DEFINE w == x
    <3>1. Single(a, w) /\ Of(c, w.msg) = {}
      BY <1>4, <2>1
    <3> HIDE DEF w
    <3>2. Single(rest, w)
      BY <2>2, <3>1, SingleConcatenated
    <3> QED
      BY <3>2 DEF w
  <2>4. Of(c, "MESSAGE") = {} => Of(rest, "MESSAGE") = Of(a, "MESSAGE")
    BY <2>2, OfSame
  <2>5. Of(c, "READ") = {} => Of(rest, "READ") = Of(a, "READ")
    BY <2>2, OfSame
  <2> QED
    BY <1>2, <1>4, <1>7, <2>1, <2>3, <2>4, <2>5 DEF c
<1> QED
  BY <1>5, <1>6, <1>7 DEF a, c

\* What the bridge forwards when no acknowledgement stands: a reply, if one does.
LEMMA ForwardedReply ==
  ASSUME IpcType, MirrorInv, Irqs \subseteq io.ppcctrl, PeerAcked \notin io.ppcctrl,
         NEW rest \in Seq(ToClient), Of(rest, "MESSAGE") = {}, NEW out, out = Forwarded(Entry) \o rest,
         NEW x, x.msg = "READ", Single(rest, x)
  PROVE  /\ out \in Seq(ToClient) /\ Single(out, MESSAGE(io.armmsg)) /\ Single(out, x)
         /\ Of(out, "MESSAGE") # {} => PeerSent \in io.ppcctrl
         /\ Of(out, "READ") # {} => Of(rest, "READ") # {}
<1> DEFINE y == MESSAGE(io.armmsg)
           f == Forwarded(Entry)
           z == IF NewMessage(Entry) THEN <<y>> ELSE <<>>
<1>1. ~ExtraAck(Entry) /\ (NewMessage(Entry) <=> PeerSent \in io.ppcctrl)
  BY IdleTakes
<1>2. Entry.armmsg = io.armmsg
  BY EntryIs DEF SameMailbox
<1>3. io.armmsg \in Nat
  BY DEF IpcType, IoType
<1>4. y \in ToClient /\ y.msg = "MESSAGE"
  BY <1>3, Messages
<1>5. f = <<>> \o z
  BY <1>1, <1>2 DEF Forwarded
<1> HIDE DEF y, f
<1>6. /\ z \in Seq(ToClient) /\ Single(z, y) /\ Of(z, "READ") = {}
      /\ Of(z, "MESSAGE") # {} => PeerSent \in io.ppcctrl
  <2>1. CASE NewMessage(Entry)
    <3>1. z = <<y>>
      BY <2>1
    <3> HIDE DEF z
    <3>2. z \in Seq(ToClient) /\ \A type : Of(z, type) = IF y.msg = type THEN {1} ELSE {}
      BY <1>4, <3>1, One, Zenon
    <3>3. Single(z, y)
      BY <3>1, SingleOne
    <3> QED
      BY <1>1, <1>4, <2>1, <3>2, <3>3
  <2>2. CASE ~NewMessage(Entry)
    <3>1. z = <<>>
      BY <2>2
    <3> HIDE DEF z
    <3>2. z \in Seq(ToClient) /\ \A type : Of(z, type) = {}
      BY <3>1, None
    <3> QED
      BY <3>2, SingleNone
  <2> QED
    BY <2>1, <2>2
<1> HIDE DEF z
<1>7. f = z
  BY <1>5, <1>6, ConcatEmptySeq
<1>8. out = z \o rest
  BY <1>7 DEF f
<1>9. Single(z, y) /\ Of(rest, y.msg) = {} => Single(out, y)
  BY <1>6, <1>8, SingleConcatenated
<1>12. Of(rest, "MESSAGE") = {} => Of(out, "MESSAGE") = Of(z, "MESSAGE")
  BY <1>6, <1>8, OfSame
<1>13. Of(rest, "READ") = {} => Of(out, "READ") = Of(z, "READ")
  BY <1>6, <1>8, OfSame
<1>10. Single(rest, x) /\ Of(z, x.msg) = {} => Single(out, x)
  BY <1>6, <1>8, SingleConcatenated
<1>11. out \in Seq(ToClient)
  BY <1>6, <1>8, Concatenate
<1> QED
  BY <1>4, <1>6, <1>9, <1>10, <1>11, <1>12, <1>13 DEF y

\* A pass that sends to the script, and perhaps stores a block it has written.
LEMMA BackPass ==
  ASSUME IpcType, BackInv, client' = client, guest' = guest, hist' = hist,
         NEW out \in Seq(ToClient), Coming' = Coming \o out, Single(out, MESSAGE(io.armmsg)),
         io'.armmsg = io.armmsg, Sent \in io'.armctrl => Sent \in io.armctrl,
         Of(out, "MESSAGE") # {} => Sent \in io.armctrl /\ Sent \notin io'.armctrl,
         \A s \in Slots : client.requests[s] \in 1..Len(hist.taken) => mem'[s] = mem[s]
  PROVE  BackInv'
<1> DEFINE req == client.requests
           stack == client.stack
           todo == guest.todo
           n == Len(hist.taken)
           p == Coming
           a == io.armmsg
           x == MESSAGE(a)
           b == mem
           d == mem'
           c == Coming'
<1>1. x.msg = "MESSAGE" /\ x.arg = a
  BY RequestsAre
<1>2. p \in Seq(ToClient) /\ c = p \o out /\ Single(out, x)
  BY PlaceTypes
<1>3. \A s : Answered(s, req, b, todo, n) => Answered(s, req, d, todo, n)
  BY DEF Answered
<1>4. Returning(p, stack, req, b, todo, n)
  BY DEF BackInv
<1>5. Sent \in io.armctrl => Answered(a, req, b, todo, n) /\ Apart(a, p, stack)
  BY DEF BackInv
<1> HIDE DEF req, stack, todo, n, p, a, x, b, d, c
<1>6. Returning(p, stack, req, d, todo, n)
  BY <1>3, <1>4, ReturningKept
<1>7. Of(out, "MESSAGE") # {} => Answered(a, req, d, todo, n) /\ Apart(a, p, stack)
  BY <1>3, <1>5
<1>8. /\ Returning(c, stack, req, d, todo, n)
      /\ \A s : Apart(s, p, stack) /\ Of(out, "MESSAGE") = {} => Apart(s, c, stack)
  BY <1>1, <1>2, <1>6, <1>7, ReturningExtended
<1>9. Sent \in io'.armctrl => Answered(a, req, d, todo, n) /\ Apart(a, c, stack)
  BY <1>3, <1>5, <1>8
<1> QED
  BY <1>8, <1>9 DEF BackInv, req, stack, todo, n, a, d, c

LEMMA PassTellsTracked ==
  ASSUME Inv, ~SigPipeIgnored, ~bridge.exited, Tracked,
         client' = client, hist' = hist, mem' = mem, guest' = guest,
         net'.c2s = net.c2s, NEW out \in Seq(ToClient), Coming' = Coming \o out,
         io'.irq_enabled = io.irq_enabled, io'.ppcmsg = io.ppcmsg, io'.armmsg = io.armmsg,
         Sent \in io'.armctrl => Sent \in io.armctrl,
         Undisturbed => /\ Acked \notin io'.armctrl
                        /\ PeerSent \in io'.armctrl <=> PeerSent \in io.armctrl
                        /\ Of(out, "READ") = {} /\ Single(out, MESSAGE(io.armmsg))
                        /\ Of(out, "MESSAGE") # {} => Sent \in io.armctrl /\ Sent \notin io'.armctrl
  PROVE  Tracked'
<1>1. IpcType
  BY DEF Inv, ControlInv
<1>2. ToServe' = ToServe /\ (Undisturbed' <=> Undisturbed)
  BY DEF ToServe, Undisturbed
<1>3. ASSUME Undisturbed
      PROVE  /\ PlaceInv'
             /\ "nested" \notin hist.races => OneRead(ToServe, Coming, client.stack, client.requests)'
  <2>1. PlaceInv /\ ("nested" \notin hist.races => OneRead(ToServe, Coming, client.stack, client.requests))
    BY <1>3, TrackedIs
  <2>2. QuietInv'
    BY <1>3, <2>1, QuietPass DEF PlaceInv
  <2>3. OldInv'
    BY <2>1, OldKept DEF PlaceInv
  <2>4. BackInv'
    BY <1>1, <1>3, <2>1, BackPass DEF PlaceInv
  <2>5. PlaceInv'
    BY <1>2, <1>3, <2>1, <2>2, <2>3, <2>4, PlacesKept
  <2>6. ASSUME "nested" \notin hist.races PROVE OneRead(ToServe, Coming, client.stack, client.requests)'
    <3> DEFINE q == ToServe
               p == Coming
               d == Coming'
               stack == client.stack
               req == client.requests
    <3>1. OneRead(q, p, stack, req) /\ p \in Seq(ToClient) /\ d = p \o out /\ Of(out, "READ") = {}
      BY <1>1, <1>3, <2>1, <2>6, PlaceTypes
    <3> HIDE DEF q, p, d, stack, req
    <3>2. OneRead(q, d, stack, req)
      BY <3>1, OneReadTold
    <3> QED
      BY <1>2, <3>2 DEF q, d, stack, req
  <2> QED
    BY <2>5, <2>6
<1>4. hist.issued \in Nat /\ hist.taken \in Seq(Block)
  BY <1>1, PlaceTypes
<1> QED
  BY <1>2, <1>3, <1>4, StepTracked

LEMMA ExitedTracked ==
  ASSUME Inv, Tracked, hist' = hist, bridge'.exited
  PROVE  Tracked'
<1>1. hist.issued \in Nat /\ hist.taken \in Seq(Block)
  BY PlaceTypes DEF Inv, ControlInv
<1>2. Undisturbed' <=> Undisturbed
  BY DEF Undisturbed
<1> QED
  BY <1>1, <1>2, StepTracked

\* The script that is there is the one on the last connection.
LEMMA ScriptIs ==
  ASSUME IpcType, LinkInv, NEW k \in Conns, Up(k)
  PROVE  k = client.conn /\ client.conn # 0 /\ ToServe = net.c2s[k] /\ Coming = net.s2c[k]
<1>1. k = client.conn /\ k # 0
  BY PlaceTypes DEF LinkInv, Up
<1> QED
  BY <1>1 DEF ToServe, Coming

LEMMA AcceptClientTracked ==
  ASSUME Inv, ~SigPipeIgnored, ~bridge.exited, Tracked, NEW k \in Conns, AcceptClient(k)
  PROVE  Tracked'
<1>1. IpcType /\ MirrorInv /\ LinkInv /\ bridge \in BridgeType /\ net \in NetType
  BY DEF Inv, ControlInv, IpcType
<1>2. /\ Leave(Entry) /\ bridge.ipcs # "SNDACK"
      /\ client' = client /\ hist' = hist /\ mem' = mem /\ guest' = guest
  BY DEF AcceptClient
<1>3. CASE ~Up(k)
  <2>1. bridge' = [bridge EXCEPT !.exited = TRUE, !.bsock = k]
    BY <1>3 DEF AcceptClient, SendFailed
  <2>2. bridge'.exited
    BY <1>1, <2>1 DEF BridgeType
  <2> QED
    BY <1>2, <2>2, ExitedTracked
<1>4. CASE Up(k)
  <2> DEFINE status == STATUS(io.ppc_running)
             out == <<status>>
             x == MESSAGE(io.armmsg)
  <2>1. status \in ToClient /\ status.msg = "STATUS" /\ x.msg = "MESSAGE"
    BY <1>1, Fields, Messages, RequestsAre
  <2>2. net' = Enqueue(net, k, out)
    BY <1>4 DEF AcceptClient
  <2> HIDE DEF status, x
  <2>3. out \in Seq(ToClient) /\ \A type : Of(out, type) = IF status.msg = type THEN {1} ELSE {}
    BY <2>1, One, Zenon
  <2> HIDE DEF out
  <2>4. Of(out, "READ") = {} /\ Of(out, "MESSAGE") = {} /\ Of(out, x.msg) = {}
    BY <2>1, <2>3
  <2>5. Single(out, x)
    BY <2>4, SingleNone
  <2>6. net'.c2s = net.c2s /\ net'.s2c[k] = net.s2c[k] \o out
    <3>1. Delivers(net, net', k, out)
      BY <1>1, <2>2, <2>3, EnqueueIs
    <3> QED
      BY <3>1, Zenon DEF Delivers
  <2>7. k = client.conn /\ client.conn # 0 /\ Coming = net.s2c[k]
    BY <1>1, <1>4, ScriptIs
  <2>8. Coming' = Coming \o out
    BY <1>2, <2>6, <2>7 DEF Coming
  <2>9. io'.armctrl = io.armctrl /\ io'.ppcmsg = io.ppcmsg /\ io'.armmsg = io.armmsg
    BY <1>1, <1>2, AcceptPass DEF SameMailbox
  <2>10. io'.irq_enabled = io.irq_enabled
    BY <1>1, <1>2, PassEnabled
  <2>11. Undisturbed => Acked \notin io'.armctrl
    BY <1>2, <2>9, TrackedIs
  <2> QED
    BY <1>2, <2>3, <2>4, <2>5, <2>6, <2>8, <2>9, <2>10, <2>11, PassTellsTracked DEF x
<1> QED
  BY <1>3, <1>4

LEMMA IdleQuietTracked ==
  ASSUME Inv, ~SigPipeIgnored, ~bridge.exited, Tracked, IdleQuiet
  PROVE  Tracked'
<1> DEFINE k == bridge.bsock
           rest == StatusChange
           out == Forwarded(Entry) \o rest
           x == READ(ACK.arg, mem[ACK.arg])
<1>1. IpcType /\ MirrorInv /\ LinkInv /\ InitInv /\ net \in NetType
  BY DEF Inv, ControlInv, IpcType
<1>2. /\ bridge.ipcs = "IDLE" /\ Up(k) /\ net' = Enqueue(net, k, out)
      /\ mem' = mem /\ guest' = guest /\ client' = client /\ hist' = hist
      /\ Leave(IdleRegs(Entry))
  BY DEF IdleQuiet
<1>3. Irqs \subseteq io.ppcctrl /\ bridge.ipcs # "SNDACK"
  BY <1>1, <1>2 DEF InitInv
<1>4. /\ MirrorInv' /\ io'.ppcmsg = io.ppcmsg /\ io'.armmsg = io.armmsg
      /\ PeerSent \notin io'.ppcctrl /\ PeerAcked \notin io'.ppcctrl
      /\ Sent \in io'.ppcctrl => Sent \in io.ppcctrl
  BY <1>1, <1>2, <1>3, IdlePass
<1>5. /\ Sent \notin io'.armctrl /\ Acked \notin io'.armctrl
      /\ PeerSent \in io'.armctrl => PeerSent \in io.armctrl
      /\ PeerSent \in io.ppcctrl <=> Sent \in io.armctrl
      /\ PeerAcked \in io.ppcctrl <=> Acked \in io.armctrl
  BY <1>1, <1>4 DEF MirrorInv, Mirrored
<1>6. io'.irq_enabled = io.irq_enabled
  BY <1>1, <1>2, PassEnabled
<1>7. Undisturbed => PeerSent \notin io.armctrl /\ Acked \notin io.armctrl
  BY <1>3, TrackedIs
<1>8. k \in Conns
  BY <1>1, <1>2, Fields DEF LinkInv
<1>9. ACK \in ToBridge /\ x.msg = "READ"
  BY Messages, RequestsAre
<1>10. rest \in Seq(ToClient) /\ Of(rest, "MESSAGE") = {} /\ Single(rest, x) /\ Of(rest, "READ") = {}
  BY <1>1, <1>9, RepliesAre
<1>11. out \in Seq(ToClient)
  <2>1. rest \in Seq(ToClient) /\ Forwarded(Entry) \in Seq(ToClient)
    BY <1>1, <1>3, <1>10, Forwards
  <2> QED
    BY <2>1, Concatenate
<1>12. Undisturbed =>
         /\ Single(out, MESSAGE(io.armmsg)) /\ (Of(out, "MESSAGE") # {} => PeerSent \in io.ppcctrl)
         /\ Of(out, "READ") = {}
  <2> HIDE DEF rest, x
  <2> QED
    BY <1>1, <1>3, <1>5, <1>7, <1>9, <1>10, ForwardedReply
<1> HIDE DEF k, out
<1>13. net'.c2s = net.c2s /\ net'.s2c[k] = net.s2c[k] \o out
  <2>1. Delivers(net, net', k, out)
    BY <1>1, <1>2, <1>8, <1>11, EnqueueIs
  <2> QED
    BY <2>1, Zenon DEF Delivers
<1>14. k = client.conn /\ client.conn # 0 /\ Coming = net.s2c[k]
  BY <1>1, <1>2, <1>8, ScriptIs
<1>15. Coming' = Coming \o out
  BY <1>2, <1>13, <1>14 DEF Coming
<1> QED
  BY <1>2, <1>4, <1>5, <1>6, <1>7, <1>11, <1>12, <1>13, <1>15, PassTellsTracked

\* What a pass that serves a message takes from the socket and puts into it.
Served(k, m, x, out) ==
  /\ out \in Seq(ToClient) /\ net'.s2c[k] = net.s2c[k] \o out
  /\ net'.c2s[k] = Tail(net.c2s[k])
  /\ \A j \in Conns : j # k => net'.s2c[j] = net.s2c[j] /\ net'.c2s[j] = net.c2s[j]
  /\ Single(out, MESSAGE(io.armmsg)) /\ Single(out, x)
  /\ Of(out, "MESSAGE") # {} => PeerSent \in io.ppcctrl
  /\ Of(out, "READ") # {} => m.msg = "READ"

LEMMA ServedIs ==
  ASSUME Inv, IdleServe, NEW k \in Conns, k = bridge.bsock, NEW m \in ToBridge, m = Head(net.c2s[k]),
         PeerAcked \notin io.ppcctrl, NEW x, x = READ(m.arg, mem[m.arg])
  PROVE  \E out : Served(k, m, x, out)
<1> DEFINE rest == IF m.msg = "EXIT" THEN <<>> ELSE Answer(m) \o StatusChange
           all == Forwarded(Entry) \o rest
           n == [net EXCEPT !.c2s[k] = Tail(net.c2s[k])]
<1>1. IpcType /\ MirrorInv /\ InitInv
  BY DEF Inv, ControlInv
<1>2. bridge.ipcs = "IDLE" /\ net.c2s[k] # <<>> /\ net' = IF Up(k) THEN Enqueue(n, k, all) ELSE n
  BY DEF IdleServe
<1>3. Irqs \subseteq io.ppcctrl /\ net \in NetType /\ net.c2s[k] \in Seq(ToBridge) /\ net.s2c[k] \in Seq(ToClient)
  BY <1>1, <1>2, Fields DEF InitInv, IpcType
<1>4. /\ n \in NetType /\ n.s2c = net.s2c /\ n.c2s[k] = Tail(net.c2s[k])
      /\ \A j \in Conns : j # k => n.c2s[j] = net.c2s[j]
  <2>1. Tail(net.c2s[k]) \in Seq(ToBridge)
    BY <1>2, <1>3, TailIs
  <2>2. n = Uplink(net, k, Tail(net.c2s[k]))
    BY DEF Uplink
  <2> HIDE DEF n
  <2>3. Uplinks(net, n, k, Tail(net.c2s[k]))
    BY <1>3, <2>1, <2>2, UplinkIs
  <2> QED
    BY <2>3, Zenon DEF Uplinks
<1>5. x.msg = "READ"
  BY RequestsAre
<1>6. /\ rest \in Seq(ToClient) /\ Of(rest, "MESSAGE") = {} /\ Single(rest, x)
      /\ Of(rest, "READ") # {} => m.msg = "READ"
  <2>1. CASE m.msg = "EXIT"
    <3>1. rest = <<>>
      BY <2>1
    <3> HIDE DEF rest
    <3> QED
      BY <1>1, <2>1, <3>1, RepliesAre
  <2>2. CASE m.msg # "EXIT"
    <3>1. rest = Answer(m) \o StatusChange
      BY <2>2
    <3> HIDE DEF rest
    <3> QED
      BY <1>1, <3>1, RepliesAre
  <2> QED
    BY <2>1, <2>2
<1> HIDE DEF rest, n
<1>7. /\ all \in Seq(ToClient) /\ Single(all, MESSAGE(io.armmsg)) /\ Single(all, x)
      /\ Of(all, "MESSAGE") # {} => PeerSent \in io.ppcctrl
      /\ Of(all, "READ") # {} => Of(rest, "READ") # {}
  BY <1>1, <1>3, <1>5, <1>6, ForwardedReply
<1> HIDE DEF all
<1>8. CASE Up(k)
  <2>1. Delivers(n, net', k, all)
    BY <1>2, <1>4, <1>7, <1>8, EnqueueIs
  <2>2. /\ net'.c2s = n.c2s /\ net'.s2c[k] = n.s2c[k] \o all
        /\ \A j \in Conns : j # k => net'.s2c[j] = n.s2c[j]
    BY <2>1, Zenon DEF Delivers
  <2>3. Served(k, m, x, all)
    BY <1>4, <1>6, <1>7, <2>2, Zenon DEF Served
  <2> QED
    BY <2>3
<1>9. CASE ~Up(k)
  <2> DEFINE out == <<>>
  <2>1. net' = n
    BY <1>2, <1>9
  <2>2. net'.s2c[k] = net.s2c[k] \o out
    BY <1>3, <1>4, <2>1, ConcatEmptySeq
  <2>3. out \in Seq(ToClient) /\ \A type : Of(out, type) = {}
    BY None
  <2> HIDE DEF out
  <2>4. Single(out, MESSAGE(io.armmsg)) /\ Single(out, x)
    BY <2>3, SingleNone
  <2>5. Served(k, m, x, out)
    BY <1>4, <2>1, <2>2, <2>3, <2>4, Zenon DEF Served
  <2> QED
    BY <2>5
<1> QED
  BY <1>8, <1>9

\* An old connection has nothing to say about requests.
LEMMA ServeOldTracked ==
  ASSUME IpcType, PlaceInv, client' = client, guest' = guest, hist' = hist,
         NEW k \in Conns, k # client.conn, net.c2s[k] # <<>>, NEW m, m = Head(net.c2s[k]), NEW x, NEW out,
         mem' = Stored(m), Served(k, m, x, out), QuietInv', io'.armmsg = io.armmsg, Sent \notin io'.armctrl,
         m.msg # "MESSAGE" => io'.ppcmsg = io.ppcmsg /\ PeerSent \notin io'.armctrl,
         PeerSent \notin io.armctrl
  PROVE  PlaceInv' /\ ToServe' = ToServe /\ Coming' = Coming
<1>1. net.c2s[k] \in Seq(ToBridge) /\ (client.conn # 0 => client.conn \in Conns)
  BY Fields
<1>2. /\ \A j \in Conns : j # k => net'.s2c[j] = net.s2c[j] /\ net'.c2s[j] = net.c2s[j]
      /\ net'.c2s[k] = Tail(net.c2s[k])
  BY DEF Served
<1>3. ToServe' = ToServe /\ Coming' = Coming
  BY <1>1, <1>2 DEF ToServe, Coming
<1> DEFINE q == net.c2s[k]
           c == net'.c2s[k]
<1>4. /\ c = Tail(q) /\ q \in Seq(ToBridge) /\ q # <<>> /\ m = q[1]
      /\ \A i \in 1..Len(q) : q[i].msg \notin {"MESSAGE", "WRITE"}
  BY <1>1, <1>2, TailIs DEF PlaceInv, OldInv
<1> HIDE DEF q, c
<1>5. /\ Len(q) = Len(c) + 1 /\ Len(c) \in Nat /\ 1 \in 1..Len(q) /\ \A i \in 1..Len(c) : c[i] = q[i + 1]
  BY <1>4, TailIs
<1>6. \A i \in 1..Len(c) : c[i] = q[i + 1] /\ i + 1 \in 1..Len(q)
  BY <1>5
<1>7. m.msg \notin {"MESSAGE", "WRITE"} /\ \A i \in 1..Len(c) : c[i].msg \notin {"MESSAGE", "WRITE"}
  BY <1>4, <1>5, <1>6
<1>8. mem' = mem
  BY <1>7 DEF Stored
<1>9. OldInv'
  BY <1>2, <1>7 DEF PlaceInv, OldInv, c
<1>10. BackInv'
  BY <1>3, <1>8, BackKept DEF PlaceInv
<1> QED
  BY <1>3, <1>7, <1>8, <1>9, <1>10, PlacesKept

\* The script's own connection: the next request is handed to the guest.
LEMMA ServeScriptTracked ==
  ASSUME IpcType, PlaceInv, client' = client, guest' = guest, hist' = hist,
         NEW k \in Conns, k = client.conn, net.c2s[k] # <<>>, NEW m, m = Head(net.c2s[k]),
         NEW x, x = READ(m.arg, mem[m.arg]), NEW out,
         mem' = Stored(m), Served(k, m, x, out), QuietInv', io'.armmsg = io.armmsg, Sent \notin io'.armctrl,
         m.msg = "MESSAGE" => io'.ppcmsg = m.arg /\ PeerSent \in io'.armctrl,
         m.msg # "MESSAGE" => PeerSent \notin io'.armctrl, PeerSent \notin io.armctrl,
         PeerSent \in io.ppcctrl => Sent \in io.armctrl
  PROVE  /\ PlaceInv'
         /\ OneRead(ToServe, Coming, client.stack, client.requests) =>
              OneRead(ToServe, Coming, client.stack, client.requests)'
<1> DEFINE q == ToServe
           c == ToServe'
           p == Coming
           d == Coming'
           req == client.requests
           stack == client.stack
           b == mem
           n == Len(hist.taken)
           issued == hist.issued
           mm == mem'
           hh == Handed'
           y == m
<1>1. k # 0 /\ client.conn # 0
  BY PlaceTypes
<1>2. /\ out \in Seq(ToClient) /\ net'.s2c[k] = net.s2c[k] \o out /\ net'.c2s[k] = Tail(net.c2s[k])
      /\ \A j \in Conns : j # k => net'.s2c[j] = net.s2c[j] /\ net'.c2s[j] = net.c2s[j]
      /\ Single(out, MESSAGE(io.armmsg)) /\ Single(out, x)
      /\ Of(out, "MESSAGE") # {} => PeerSent \in io.ppcctrl
      /\ Of(out, "READ") # {} => m.msg = "READ"
  BY Zenon DEF Served
<1>3. q = net.c2s[k] /\ c = net'.c2s[k] /\ p = net.s2c[k] /\ d = net'.s2c[k]
  BY <1>1 DEF ToServe, Coming
<1>4. /\ q \in Seq(ToBridge) /\ p \in Seq(ToClient) /\ req \in [Slots -> Nat] /\ b \in [Slots -> Block]
      /\ n \in Nat /\ issued \in Nat /\ stack \in Seq(Slots)
  BY PlaceTypes
<1>5. q # <<>> /\ c = Tail(q) /\ d = p \o out /\ m = q[1]
  BY <1>2, <1>3, <1>4, TailIs
<1>6. Handed = n /\ Handed' = IF m.msg = "MESSAGE" THEN n + 1 ELSE n
  <2>1. Handed = n + 0 /\ Handed' = n + IF m.msg = "MESSAGE" THEN 1 ELSE 0
    BY DEF Handed
  <2> HIDE DEF n
  <2> QED
    BY <1>4, <2>1
<1>7. mm = IF y.msg = "WRITE" THEN [b EXCEPT ![y.arg] = y.buf] ELSE b
  BY DEF Stored
<1>8. Queued(q, req, b, n, issued) /\ n <= issued
  BY <1>6 DEF PlaceInv, QueueInv
<1>9. hh = (IF y.msg = "MESSAGE" THEN n + 1 ELSE n) /\ y = q[1]
  BY <1>5, <1>6
<1> HIDE DEF q, c, p, d, req, stack, b, n, issued, mm, hh, y
<1>18. /\ Queued(c, req, mm, hh, issued)
       /\ y.msg = "MESSAGE" => /\ y.arg \in Slots /\ req[y.arg] = n + 1 /\ b[y.arg] = Request(n + 1)
                               /\ n + 1 <= issued
       /\ y.msg = "WRITE" => y.arg \in Slots /\ req[y.arg] > n
  <2>1. TakesFirst(q, c, y, b, mm, n, hh)
    BY <1>5, <1>7, <1>9 DEF TakesFirst
  <2> QED
    BY <1>4, <1>8, <2>1, QueuedServed
<1>10. QueueInv' /\ (Handed <= hist.issued)'
  BY <1>8, <1>9, <1>18 DEF QueueInv, c, req, issued, mm, hh
<1>11. MailboxInv'
  BY <1>7, <1>18 DEF MailboxInv, req, n, b, mm, y
<1>12. TodoInv'
  BY DEF PlaceInv, TodoInv
<1>13. OldInv'
  BY <1>2, OldKept DEF PlaceInv
<1>14. \A s \in Slots : req[s] \in 1..n => mm[s] = b[s]
  <2>1. CASE y.msg = "WRITE"
    <3>1. \A s \in Slots : req[s] \in 1..n => s # y.arg
      BY <1>4, <1>18, <2>1
    <3> QED
      BY <1>4, <1>7, <2>1, <3>1
  <2>2. CASE y.msg # "WRITE"
    BY <1>7, <2>2
  <2> QED
    BY <2>1, <2>2
<1>15. BackInv'
  <2>1. Coming' = Coming \o out
    BY <1>5 DEF p, d
  <2>2. Of(out, "MESSAGE") # {} => Sent \in io.armctrl /\ Sent \notin io'.armctrl
    BY <1>2
  <2>3. \A s \in Slots : client.requests[s] \in 1..Len(hist.taken) => mem'[s] = mem[s]
    BY <1>14 DEF req, n, b, mm
  <2>4. BackInv
    BY DEF PlaceInv
  <2> QED
    BY <1>2, <2>1, <2>2, <2>3, <2>4, BackPass
<1>16. PlaceInv'
  BY <1>10, <1>11, <1>12, <1>13, <1>15 DEF PlaceInv
<1>17. ASSUME OneRead(q, p, stack, req) PROVE OneRead(c, d, stack, req)
  <2>1. x.msg = "READ" /\ x.buf = b[m.arg]
    BY DEF READ, Msg, b
  <2>2. ASSUME m.msg = "READ" PROVE x.buf = Result(req[m.arg])
    <3>1. 1 \in 1..Len(q)
      BY <1>4, <1>5, TailIs
    <3>2. Len(stack) = 1 /\ m.arg = stack[1]
      BY <1>5, <1>17, <2>2, <3>1 DEF OneRead
    <3>3. Answered(stack[1], req, b, guest.todo, n)
      BY <3>2 DEF PlaceInv, BackInv, Returning, stack, req, b, n
    <3> QED
      BY <2>1, <3>2, <3>3 DEF Answered
  <2>3. Of(out, "READ") # {} => q[1].msg = "READ" /\ x.buf = Result(req[q[1].arg])
    BY <1>2, <1>5, <2>2
  <2> QED
    BY <1>2, <1>4, <1>5, <1>17, <2>1, <2>3, OneReadServed
<1> QED
  BY <1>16, <1>17 DEF q, c, p, d, stack, req

LEMMA IdleServeTracked ==
  ASSUME Inv, ~SigPipeIgnored, ~bridge.exited, Tracked, IdleServe
  PROVE  Tracked'
<1> DEFINE k == bridge.bsock
           m == Head(net.c2s[k])
           x == READ(m.arg, mem[m.arg])
<1>1. IpcType /\ MirrorInv /\ InitInv
  BY DEF Inv, ControlInv
<1>2. /\ bridge.ipcs = "IDLE" /\ net.c2s[k] # <<>> /\ mem' = Stored(m)
      /\ guest' = guest /\ client' = client /\ hist' = hist /\ Leave(Serve(IdleRegs(Entry), m))
  BY DEF IdleServe
<1>3. k \in Conns /\ m \in ToBridge
  BY ServeEffect
<1>4. Irqs \subseteq io.ppcctrl /\ bridge.ipcs # "SNDACK"
  BY <1>1, <1>2 DEF InitInv
<1>5. /\ MirrorInv' /\ io'.armmsg = io.armmsg /\ PeerSent \notin io'.ppcctrl /\ PeerAcked \notin io'.ppcctrl
      /\ IF m.msg = "MESSAGE" THEN Sent \in io'.ppcctrl /\ io'.ppcmsg = m.arg
         ELSE io'.ppcmsg = io.ppcmsg /\ (Sent \in io'.ppcctrl => Sent \in io.ppcctrl)
  BY <1>1, <1>2, <1>3, <1>4, ServePass
<1>6. io'.irq_enabled = io.irq_enabled
  BY <1>1, <1>2, <1>3, PassEnabled
<1> HIDE DEF k, m, x
<1>7. /\ Sent \notin io'.armctrl /\ Acked \notin io'.armctrl
      /\ m.msg = "MESSAGE" => io'.ppcmsg = m.arg /\ PeerSent \in io'.armctrl
      /\ m.msg # "MESSAGE" => io'.ppcmsg = io.ppcmsg /\ (PeerSent \in io'.armctrl => PeerSent \in io.armctrl)
      /\ PeerSent \in io.ppcctrl <=> Sent \in io.armctrl
      /\ PeerAcked \in io.ppcctrl <=> Acked \in io.armctrl
  BY <1>1, <1>5 DEF MirrorInv, Mirrored
<1>8. ASSUME Undisturbed
      PROVE  /\ PlaceInv'
             /\ "nested" \notin hist.races => OneRead(ToServe, Coming, client.stack, client.requests)'
  <2>1. /\ PlaceInv /\ PeerSent \notin io.armctrl /\ Acked \notin io.armctrl
        /\ "nested" \notin hist.races => OneRead(ToServe, Coming, client.stack, client.requests)
    BY <1>4, <1>8, TrackedIs
  <2>2. QuietInv'
    BY <1>2, <1>6, <1>7, <2>1, QuietPass DEF PlaceInv
  <2>3. PICK out : Served(k, m, x, out)
    <3>1. k = bridge.bsock /\ m = Head(net.c2s[k]) /\ x = READ(m.arg, mem[m.arg]) /\ PeerAcked \notin io.ppcctrl
      BY <1>7, <2>1 DEF k, m, x
    <3> QED
      BY <1>3, <3>1, ServedIs
  <2>4. m = Head(net.c2s[k]) /\ x = READ(m.arg, mem[m.arg])
    BY DEF k, m, x
  <2>5. CASE k # client.conn
    <3>1. PlaceInv' /\ ToServe' = ToServe /\ Coming' = Coming
      BY <1>1, <1>2, <1>3, <1>5, <1>7, <2>1, <2>2, <2>3, <2>4, <2>5, ServeOldTracked
    <3> QED
      BY <1>2, <2>1, <3>1
  <2>6. CASE k = client.conn
    BY <1>1, <1>2, <1>3, <1>5, <1>7, <2>1, <2>2, <2>3, <2>4, <2>6, ServeScriptTracked
  <2> QED
    BY <2>5, <2>6
<1>9. hist.issued \in Nat /\ hist.taken \in Seq(Block)
  BY <1>1, PlaceTypes
<1>10. Undisturbed' <=> Undisturbed
  BY <1>2 DEF Undisturbed
<1> QED
  BY <1>2, <1>8, <1>9, <1>10, StepTracked

\* A step of the guest that neither takes a request nor answers one.
LEMMA GuestTracked ==
  ASSUME Inv, ~SigPipeIgnored, ~bridge.exited, Tracked, bridge' = bridge, net' = net, client' = client,
         mem' = mem, guest'.todo = guest.todo, hist'.taken = hist.taken, hist'.results = hist.results,
         hist'.issued = hist.issued, Undisturbed' => Undisturbed,
         "nested" \notin hist'.races => "nested" \notin hist.races,
         "reacked" \in hist'.races => "reacked" \in hist.races,
         io'.ppcmsg = io.ppcmsg, io'.armmsg = io.armmsg,
         Undisturbed' => /\ QuietInv' /\ (PeerSent \in io'.armctrl <=> PeerSent \in io.armctrl)
                         /\ Sent \in io'.armctrl => Sent \in io.armctrl
  PROVE  Tracked'
<1>1. IpcType
  BY DEF Inv, ControlInv
<1>2. ToServe' = ToServe /\ Coming' = Coming
  BY DEF ToServe, Coming
<1>3. ASSUME Undisturbed'
      PROVE  /\ PlaceInv'
             /\ "nested" \notin hist'.races => OneRead(ToServe, Coming, client.stack, client.requests)'
  <2>1. PlaceInv /\ ("nested" \notin hist.races => OneRead(ToServe, Coming, client.stack, client.requests))
    BY <1>3, TrackedIs
  <2>2. BackInv' /\ OldInv'
    BY <1>2, <1>3, <2>1, BackKept, OldKept DEF PlaceInv
  <2>3. PlaceInv'
    BY <1>2, <1>3, <2>1, <2>2, PlacesKept
  <2> QED
    BY <1>2, <2>1, <2>3
<1>4. hist.issued \in Nat /\ hist.taken \in Seq(Block)
  BY <1>1, PlaceTypes
<1> QED
  BY <1>3, <1>4, StepTracked

LEMMA GuestBootTracked ==
  ASSUME Inv, ~SigPipeIgnored, ~bridge.exited, Tracked, GuestBoot
  PROVE  Tracked'
<1> DEFINE data == Latched \cup Irqs
           r == ArmCtrlWrite(io, data)
<1>1. IpcType /\ MirrorInv /\ BootInv /\ io \in IoType /\ guest \in GuestType
  BY DEF Inv, ControlInv, IpcType
<1>2. data \in SUBSET CtrlBits /\ Sent \notin data /\ Acked \notin data /\ PeerSent \in data
  BY Bits
<1>3. io' = [r EXCEPT !.irq_enabled = {ArmIrq}, !.ppc_running = 1]
  BY DEF GuestBoot
<1>4. guest' = [guest EXCEPT !.pc = "run"] /\ guest.pc = "boot"
      /\ bridge' = bridge /\ net' = net /\ client' = client /\ mem' = mem /\ hist' = hist
  BY DEF GuestBoot
<1>5. Coherent(io)
  BY <1>1 DEF MirrorInv, Coherent
<1> HIDE DEF data, r
<1>6. /\ r \in IoType /\ r.ppcmsg = io.ppcmsg /\ r.armmsg = io.armmsg
      /\ Sent \notin r.armctrl /\ Acked \notin r.armctrl /\ PeerSent \notin r.armctrl
  BY <1>1, <1>2, <1>5, GuestWrite DEF r
<1>7. /\ io'.armctrl = r.armctrl /\ io'.ppcmsg = r.ppcmsg /\ io'.armmsg = r.armmsg
      /\ io'.irq_enabled = {ArmIrq}
  BY <1>3, <1>6 DEF IoType
<1>8. guest'.pc = "run" /\ guest'.todo = guest.todo
  BY <1>1, <1>4 DEF GuestType
<1>9. QuietInv'
  BY <1>6, <1>7, <1>8 DEF QuietInv
<1>10. Undisturbed => PeerSent \notin io.armctrl
  BY <1>1, <1>4, TrackedIs DEF BootInv
<1>11. Undisturbed' <=> Undisturbed
  BY <1>4 DEF Undisturbed
<1> QED
  BY <1>4, <1>6, <1>7, <1>8, <1>9, <1>10, <1>11, GuestTracked

LEMMA GuestIrqTracked ==
  ASSUME Inv, ~SigPipeIgnored, ~bridge.exited, Tracked, GuestIrq
  PROVE  Tracked'
<1>1. guest \in GuestType
  BY DEF Inv, ControlInv, IpcType
<1>2. /\ guest.pc = "run" /\ io.irqLow /\ guest' = [guest EXCEPT !.pc = "irq", !.ctrl = io.armctrl]
      /\ io' = io /\ bridge' = bridge /\ net' = net /\ client' = client /\ mem' = mem /\ hist' = hist
  BY DEF GuestIrq
<1>3. guest'.pc = "irq" /\ guest'.ctrl = io.armctrl /\ guest'.todo = guest.todo
  BY <1>1, <1>2 DEF GuestType
<1>4. Undisturbed' <=> Undisturbed
  BY <1>2 DEF Undisturbed
<1>5. ASSUME Undisturbed PROVE QuietInv'
  <2>1. QuietInv
    BY <1>5, TrackedIs DEF PlaceInv
  <2>2. Acked \notin io.armctrl
    BY <1>2, <2>1, Zenon DEF QuietInv
  <2>3. io.irq_enabled \subseteq {ArmIrq}
    BY <2>1 DEF QuietInv
  <2> QED
    BY <1>2, <1>3, <2>2, <2>3 DEF QuietInv
<1> QED
  BY <1>2, <1>3, <1>4, <1>5, GuestTracked

LEMMA GuestEoiTracked ==
  ASSUME Inv, ~SigPipeIgnored, ~bridge.exited, Tracked, GuestEoi
  PROVE  Tracked'
<1>1. guest \in GuestType /\ io \in IoType
  BY DEF Inv, ControlInv, IpcType
<1>2. /\ guest.pc = "eoi" /\ guest' = [guest EXCEPT !.pc = "run"]
      /\ io' = update_int([io EXCEPT !.irq_active = @ \ {ArmIrq}])
      /\ bridge' = bridge /\ net' = net /\ client' = client /\ mem' = mem /\ hist' = hist
  BY DEF GuestEoi
<1>3. guest'.pc = "run" /\ guest'.todo = guest.todo
  BY <1>1, <1>2 DEF GuestType
<1>4. /\ io'.armctrl = io.armctrl /\ io'.ppcmsg = io.ppcmsg /\ io'.armmsg = io.armmsg
      /\ io'.irq_enabled = io.irq_enabled
      /\ io'.irqLow = ((io.irq_active \ {ArmIrq}) \cap io.irq_enabled # {})
  BY <1>1, <1>2 DEF update_int, IoType
<1>5. Undisturbed' <=> Undisturbed
  BY <1>2 DEF Undisturbed
<1>6. ASSUME Undisturbed PROVE QuietInv'
  <2>1. QuietInv
    BY <1>6, TrackedIs DEF PlaceInv
  <2>2. io.irq_enabled \subseteq {ArmIrq} /\ (Acked \in io.armctrl => PeerSent \notin io.armctrl)
    BY <2>1 DEF QuietInv
  <2>3. (io.irq_active \ {ArmIrq}) \cap io.irq_enabled = {}
    BY <2>2
  <2>4. ~io'.irqLow
    BY <1>4, <2>3, Zenon
  <2> QED
    BY <1>3, <1>4, <2>2, <2>4 DEF QuietInv
<1> QED
  BY <1>2, <1>3, <1>4, <1>5, <1>6, GuestTracked

LEMMA GuestFlipPpcTracked ==
  ASSUME Inv, ~SigPipeIgnored, ~bridge.exited, Tracked, GuestFlipPpc
  PROVE  Tracked'
<1>1. io \in IoType /\ hist \in HistType
  BY DEF Inv, ControlInv, IpcType
<1>2. /\ io' = [io EXCEPT !.ppc_running = 1 - @] /\ hist' = [hist EXCEPT !.flips = @ + 1]
      /\ guest' = guest /\ bridge' = bridge /\ net' = net /\ client' = client /\ mem' = mem
  BY DEF GuestFlipPpc
<1>3. /\ io'.armctrl = io.armctrl /\ io'.ppcmsg = io.ppcmsg /\ io'.armmsg = io.armmsg
      /\ io'.irq_enabled = io.irq_enabled /\ io'.irqLow = io.irqLow
  BY <1>1, <1>2 DEF IoType
<1>4. /\ hist'.taken = hist.taken /\ hist'.results = hist.results /\ hist'.issued = hist.issued
      /\ hist'.races = hist.races /\ hist'.reloads = hist.reloads
  BY <1>1, <1>2 DEF HistType
<1>5. Undisturbed' <=> Undisturbed
  BY <1>4 DEF Undisturbed
<1>6. Undisturbed => QuietInv
  BY TrackedIs DEF PlaceInv
<1>7. QuietInv => QuietInv'
  BY <1>2, <1>3, Zenon DEF QuietInv
<1> QED
  BY <1>2, <1>3, <1>4, <1>5, <1>6, <1>7, GuestTracked

LEMMA GuestReloadTracked ==
  ASSUME Inv, Tracked, GuestReload
  PROVE  Tracked'
<1>1. hist \in HistType
  BY DEF Inv, ControlInv, IpcType
<1>2. hist'.reloads # 0
  BY <1>1 DEF GuestReload, HistType
<1>3. ~Undisturbed'
  BY <1>2 DEF Undisturbed
<1> QED
  BY <1>3 DEF Tracked, TrackInv, OwnInv

\* The handler takes the request in the mailbox: it was the next one.
LEMMA TakeTracked ==
  ASSUME IpcType, PlaceInv, QuietInv', bridge' = bridge, net' = net, client' = client, mem' = mem,
         PeerSent \in io.armctrl, PeerSent \notin io'.armctrl, io.ppcmsg \in Slots, io'.armmsg = io.armmsg,
         Sent \in io'.armctrl => Sent \in io.armctrl,
         guest'.todo = guest.todo \cup {[slot |-> io.ppcmsg, id |-> mem[io.ppcmsg].id]},
         hist'.taken = Append(hist.taken, mem[io.ppcmsg]), hist'.issued = hist.issued,
         \A i \in 1..Len(hist.taken) : hist.taken[i] = Request(i)
  PROVE  /\ PlaceInv' /\ Len(hist'.taken) <= hist'.issued
         /\ \A i \in 1..Len(hist'.taken) : hist'.taken[i] = Request(i)
<1> DEFINE n == Len(hist.taken)
           t == io.ppcmsg
           w == [slot |-> t, id |-> mem[t].id]
           req == client.requests
           todo == guest.todo
           left == guest'.todo
<1>1. /\ hist.taken \in Seq(Block) /\ n \in Nat /\ hist.issued \in Nat /\ mem \in [Slots -> Block]
      /\ req \in [Slots -> Nat] /\ todo \in SUBSET [slot : Slots, id : Nat]
  BY PlaceTypes
<1>2. req[t] = n + 1 /\ mem[t] = Request(n + 1)
  BY DEF PlaceInv, MailboxInv
<1>3. w.slot = t /\ w.id = n + 1
  BY <1>2 DEF Request
<1>4. /\ Len(hist'.taken) = n + 1 /\ hist'.taken[n + 1] = Request(n + 1)
      /\ \A i \in 1..n : hist'.taken[i] = hist.taken[i]
  BY <1>1, <1>2, AppendIs
<1>5. ToServe' = ToServe /\ Coming' = Coming
  BY DEF ToServe, Coming
<1>6. Handed = n + 1 /\ Handed' = n + 1
  <2>1. Handed = n + 1 /\ Handed' = Len(hist'.taken) + 0
    BY DEF Handed
  <2> QED
    BY <1>1, <1>4, <2>1
<1>7. Len(hist'.taken) <= hist'.issued
  BY <1>4, <1>6 DEF PlaceInv
<1>8. left = todo \cup {w}
  OBVIOUS
<1> HIDE DEF n, t, w, req, todo, left
<1>9. \A i \in 1..n + 1 : hist'.taken[i] = Request(i)
  <2>1. \A i \in 1..n : hist.taken[i] = Request(i)
    BY DEF n
  <2> QED
    BY <1>1, <1>4, <2>1
<1>10. TodoInv'
  <2>1. \A v \in todo : req[v.slot] = v.id /\ v.id \in 1..n
    BY DEF PlaceInv, TodoInv, req, todo, n
  <2>2. \A v \in left : req[v.slot] = v.id /\ v.id \in 1..n + 1
    BY <1>1, <1>2, <1>3, <1>8, <2>1
  <2> QED
    BY <1>4, <2>2 DEF TodoInv, req, left
<1>11. QueueInv' /\ MailboxInv' /\ (Handed <= hist.issued)'
  BY <1>5, <1>6 DEF PlaceInv, QueueInv, MailboxInv
<1>12. OldInv'
  BY OldKept DEF PlaceInv
<1>13. \A s : Answered(s, req, mem, todo, n) => Answered(s, req, mem, left, n + 1)
  <2> SUFFICES ASSUME NEW s, Answered(s, req, mem, todo, n) PROVE Answered(s, req, mem, left, n + 1)
    OBVIOUS
  <2>1. s \in Slots /\ req[s] \in 1..n /\ mem[s] = Result(req[s]) /\ \A v \in todo : v.slot # s
    BY DEF Answered
  <2>2. s # t
    BY <1>1, <1>2, <2>1
  <2>3. \A v \in left : v.slot # s
    BY <1>3, <1>8, <2>1, <2>2
  <2>4. req[s] \in 1..n + 1
    BY <1>1, <2>1
  <2> QED
    BY <2>1, <2>3, <2>4 DEF Answered
<1>14. BackInv'
  <2> DEFINE p == Coming
             stack == client.stack
             a == io.armmsg
             b == mem
  <2>1. Returning(p, stack, req, b, todo, n)
    BY DEF PlaceInv, BackInv, req, todo, n
  <2>2. Sent \in io.armctrl => Answered(a, req, b, todo, n) /\ Apart(a, p, stack)
    BY DEF PlaceInv, BackInv, req, todo, n
  <2>3. \A s : Answered(s, req, b, todo, n) => Answered(s, req, b, left, n + 1)
    BY <1>13
  <2> HIDE DEF p, stack, a, b
  <2>4. Returning(p, stack, req, b, left, n + 1)
    BY <2>1, <2>3, ReturningKept
  <2> QED
    BY <1>4, <1>5, <2>2, <2>3, <2>4 DEF BackInv, p, stack, a, b, req, left
<1> QED
  BY <1>4, <1>7, <1>9, <1>10, <1>11, <1>12, <1>14 DEF PlaceInv

LEMMA GuestHandleTracked ==
  ASSUME Inv, ~SigPipeIgnored, ~bridge.exited, Tracked, GuestHandle
  PROVE  Tracked'
<1> DEFINE data == (guest.ctrl \cap {Sent, Acked, PeerSent, PeerAcked}) \cup Irqs
                     \cup (IF PeerSent \in guest.ctrl THEN {Acked} ELSE {})
           got == PeerSent \in guest.ctrl
<1>1. IpcType /\ MirrorInv /\ io \in IoType /\ guest \in GuestType /\ hist \in HistType
  BY DEF Inv, ControlInv, IpcType
<1>2. /\ guest.pc = "irq" /\ bridge' = bridge /\ net' = net /\ client' = client /\ mem' = mem
      /\ io' = IF guest.ctrl \cap Latched = {} THEN io ELSE ArmCtrlWrite(io, data)
  BY DEF GuestHandle
<1>3. /\ guest'.pc = "eoi"
      /\ guest'.todo = IF got THEN guest.todo \cup {[slot |-> io.ppcmsg, id |-> mem[io.ppcmsg].id]}
                       ELSE guest.todo
  BY <1>1 DEF GuestHandle, GuestType
<1>4. /\ hist'.taken = IF got THEN Append(hist.taken, mem[io.ppcmsg]) ELSE hist.taken
      /\ hist'.races = hist.races \cup (IF Sent \in data \ io.armctrl THEN {"resent"} ELSE {})
                                  \cup (IF Acked \in guest.ctrl \ io.armctrl THEN {"reacked"} ELSE {})
      /\ hist'.results = hist.results /\ hist'.issued = hist.issued /\ hist'.reloads = hist.reloads
  BY <1>1 DEF GuestHandle, HistType
<1>5. data \in SUBSET CtrlBits /\ (Sent \in data <=> Sent \in guest.ctrl)
  BY <1>1, Bits DEF GuestType
<1> HIDE DEF data
<1>6. io'.ppcmsg = io.ppcmsg /\ io'.armmsg = io.armmsg /\ io'.irq_enabled = io.irq_enabled
  <2>1. Coherent(io)
    BY <1>1 DEF MirrorInv, Coherent
  <2>2. /\ ArmCtrlWrite(io, data).ppcmsg = io.ppcmsg /\ ArmCtrlWrite(io, data).armmsg = io.armmsg
    BY <1>1, <1>5, <2>1, GuestWrite
  <2>3. ArmCtrlWrite(io, data).irq_enabled = io.irq_enabled
    BY <1>1, <1>5, WriteEnabled DEF SameEnabled
  <2> QED
    BY <1>2, <2>2, <2>3
<1>7. /\ guest.ctrl \cap Latched = {} => io' = io
      /\ guest.ctrl \cap Latched # {} =>
           /\ Sent \in io'.armctrl <=> Sent \in guest.ctrl
           /\ Acked \in io'.armctrl <=> Acked \in guest.ctrl \/ PeerSent \in guest.ctrl
           /\ PeerSent \in io'.armctrl <=> PeerSent \in io.armctrl /\ PeerSent \notin guest.ctrl
  BY <1>1, HandlerWrites
<1>8. (Undisturbed' => Undisturbed) /\ ("nested" \notin hist'.races => "nested" \notin hist.races)
  BY <1>4 DEF Undisturbed
<1>9. Undisturbed' => (Sent \in guest.ctrl => Sent \in io.armctrl)
  BY <1>4, <1>5 DEF Undisturbed
<1>10. ASSUME Undisturbed
       PROVE  /\ PlaceInv /\ Acked \notin io.armctrl /\ Acked \notin guest.ctrl /\ (got => PeerSent \in io.armctrl)
              /\ io.irq_enabled \subseteq {ArmIrq} /\ (PeerSent \in io.armctrl => io.ppcmsg \in Slots)
              /\ "nested" \notin hist.races => OneRead(ToServe, Coming, client.stack, client.requests)
  <2>1. /\ PlaceInv /\ (PeerSent \in io.armctrl => io.ppcmsg \in Slots)
        /\ "nested" \notin hist.races => OneRead(ToServe, Coming, client.stack, client.requests)
    BY <1>10, TrackedIs
  <2> QED
    BY <1>2, <2>1 DEF PlaceInv, QuietInv
<1>11. Undisturbed => ("reacked" \in hist'.races => "reacked" \in hist.races)
  BY <1>4, <1>10
<1>12. CASE ~got
  <2>1. hist'.taken = hist.taken /\ guest'.todo = guest.todo
    BY <1>3, <1>4, <1>12
  <2>2. ASSUME Undisturbed'
        PROVE  /\ QuietInv' /\ (PeerSent \in io'.armctrl <=> PeerSent \in io.armctrl)
               /\ Sent \in io'.armctrl => Sent \in io.armctrl
    <3>1. Acked \notin io'.armctrl
      BY <1>7, <1>8, <1>10, <1>12, <2>2
    <3> QED
      BY <1>3, <1>6, <1>7, <1>8, <1>9, <1>10, <1>12, <2>2, <3>1 DEF QuietInv
  <2>3. CASE Undisturbed
    BY <1>2, <1>4, <1>6, <1>8, <1>11, <2>1, <2>2, <2>3, GuestTracked
  <2>4. CASE ~Undisturbed
    BY <1>8, <2>4 DEF Tracked, TrackInv, OwnInv
  <2> QED
    BY <2>3, <2>4
<1>13. CASE got
  <2>1. guest.ctrl \cap Latched # {}
    BY <1>13, Bits
  <2>2. /\ hist'.taken = Append(hist.taken, mem[io.ppcmsg])
        /\ guest'.todo = guest.todo \cup {[slot |-> io.ppcmsg, id |-> mem[io.ppcmsg].id]}
    BY <1>3, <1>4, <1>13
  <2>3. ASSUME Undisturbed'
        PROVE  /\ PlaceInv' /\ Len(hist'.taken) <= hist'.issued
               /\ \A i \in 1..Len(hist'.taken) : hist'.taken[i] = Request(i)
               /\ "reacked" \notin hist'.races
    <3>1. QuietInv'
      BY <1>3, <1>6, <1>7, <1>8, <1>10, <1>13, <2>1, <2>3 DEF QuietInv
    <3>2. /\ PlaceInv /\ PeerSent \in io.armctrl /\ PeerSent \notin io'.armctrl /\ io.ppcmsg \in Slots
          /\ Sent \in io'.armctrl => Sent \in io.armctrl
      BY <1>7, <1>8, <1>9, <1>10, <1>13, <2>1, <2>3
    <3>3. (\A i \in 1..Len(hist.taken) : hist.taken[i] = Request(i)) /\ "reacked" \notin hist.races
      BY <1>8, <2>3 DEF Tracked, TrackInv
    <3>4. "reacked" \notin hist'.races
      BY <1>8, <1>11, <2>3, <3>3
    <3> QED
      BY <1>1, <1>2, <1>4, <1>6, <2>2, <3>1, <3>2, <3>3, <3>4, TakeTracked
  <2>4. TrackInv'
    BY <2>3 DEF TrackInv
  <2>5. ToServe' = ToServe /\ Coming' = Coming
    BY <1>2 DEF ToServe, Coming
  <2>6. ASSUME Undisturbed', "nested" \notin hist'.races
        PROVE  /\ \A i \in Ids : hist'.results[i] \in {Nothing, Result(i)}
               /\ OneRead(ToServe, Coming, client.stack, client.requests)'
    <3>1. \A i \in Ids : hist.results[i] \in {Nothing, Result(i)}
      BY <1>8, <2>6 DEF Tracked, OwnInv
    <3> QED
      BY <1>2, <1>4, <1>8, <1>10, <2>5, <2>6, <3>1
  <2>7. OwnInv'
    BY <2>6 DEF OwnInv
  <2> QED
    BY <2>4, <2>7 DEF Tracked
<1> QED
  BY <1>12, <1>13

LEMMA GuestReplyTracked ==
  ASSUME Inv, ~SigPipeIgnored, ~bridge.exited, Tracked, NEW w \in guest.todo, GuestReply(w)
  PROVE  Tracked'
<1> DEFINE n == Len(hist.taken)
           s == w.slot
           req == client.requests
           todo == guest.todo
           left == guest'.todo
           b == mem
           d == mem'
           r == [io EXCEPT !.armmsg = w.slot]
           data == Irqs \cup {Sent}
<1>1. IpcType /\ MirrorInv /\ io \in IoType /\ guest \in GuestType
  BY DEF Inv, ControlInv, IpcType
<1>2. /\ guest.pc = "run" /\ Idle(io) /\ mem' = [mem EXCEPT ![w.slot] = Result(w.id)]
      /\ io' = ArmCtrlWrite(r, data) /\ guest' = [guest EXCEPT !.todo = @ \ {w}]
      /\ bridge' = bridge /\ net' = net /\ client' = client /\ hist' = hist
  BY DEF GuestReply
<1>3. /\ hist.taken \in Seq(Block) /\ n \in Nat /\ hist.issued \in Nat /\ b \in [Slots -> Block]
      /\ req \in [Slots -> Nat] /\ todo \in SUBSET [slot : Slots, id : Nat] /\ ToServe \in Seq(ToBridge)
  BY <1>1, PlaceTypes
<1>4. w \in [slot : Slots, id : Nat] /\ s \in Slots /\ w.id \in Nat
  BY <1>3
<1>5. guest'.pc = "run" /\ left = todo \ {w}
  BY <1>1, <1>2 DEF GuestType
<1>6. r \in IoType /\ r.ppcctrl = io.ppcctrl /\ r.armctrl = io.armctrl /\ r.ppcmsg = io.ppcmsg
      /\ r.armmsg = s /\ r.irq_enabled = io.irq_enabled
  BY <1>1, <1>4, SlotsAssumption DEF IoType
<1>7. Sent \in {Sent, Acked} /\ data \in SUBSET CtrlBits
  BY Bits
<1> HIDE DEF r
<1>8. /\ io'.ppcmsg = io.ppcmsg /\ Acked \notin io'.armctrl
      /\ PeerSent \in io'.armctrl <=> PeerSent \in io.armctrl
  <2>1. Acked # Sent
    BY Bits
  <2> QED
    BY <1>1, <1>2, <1>6, <1>7, <2>1, DriverWrites
<1> HIDE DEF data
<1>9. io'.armmsg = s
  <2>1. Coherent(r)
    BY <1>1, <1>6 DEF MirrorInv, Coherent
  <2> QED
    BY <1>2, <1>6, <1>7, <2>1, GuestWrite
<1>10. io'.irq_enabled = io.irq_enabled
  BY <1>2, <1>6, <1>7, WriteEnabled DEF SameEnabled
<1>11. ToServe' = ToServe /\ Coming' = Coming /\ (Undisturbed' <=> Undisturbed)
  BY <1>2 DEF ToServe, Coming, Undisturbed
<1>12. d = [b EXCEPT ![s] = Result(w.id)]
  BY <1>2
<1>13. ASSUME Undisturbed
       PROVE  /\ PlaceInv'
              /\ "nested" \notin hist.races => OneRead(ToServe, Coming, client.stack, client.requests)'
  <2>1. /\ PlaceInv /\ (PeerSent \in io.armctrl => io.ppcmsg \in Slots)
        /\ "nested" \notin hist.races => OneRead(ToServe, Coming, client.stack, client.requests)
    BY <1>13, TrackedIs
  <2> HIDE DEF n, s, req, todo, left, b, d
  <2>2. QuietInv'
    BY <1>5, <1>8, <1>10, <2>1 DEF PlaceInv, QuietInv
  <2>3. \A v \in todo : req[v.slot] = v.id /\ v.id \in 1..n
    BY <2>1 DEF PlaceInv, TodoInv, req, todo, n
  <2>4. req[s] = w.id /\ w.id \in 1..n /\ w \in todo /\ d[s] = Result(w.id) /\ \A t \in Slots : t # s => d[t] = b[t]
    BY <1>3, <1>4, <1>12, <2>3 DEF s, todo
  <2>5. TodoInv'
    BY <1>2, <1>5, <2>3 DEF TodoInv, req, left, n
  <2>6. Handed' = Handed /\ Handed \in Nat /\ n <= Handed
    <3>1. Handed' = Handed
      BY <1>2, <1>8 DEF Handed
    <3>2. Handed \in {n + 0, n + 1}
      BY DEF Handed, n
    <3> QED
      BY <1>3, <3>1, <3>2
  <2>7. QueueInv'
    <3> DEFINE q == ToServe
               handed == Handed
               issued == hist.issued
    <3>1. Queued(q, req, b, handed, issued) /\ q \in Seq(ToBridge)
      BY <1>3, <2>1 DEF PlaceInv, QueueInv, req, b
    <3>2. \A t \in Slots : req[t] > handed => req[t] = req[t] /\ d[t] = b[t]
      BY <1>3, <2>4, <2>6
    <3> HIDE DEF q, handed, issued
    <3>3. Queued(q, req, d, handed, issued)
      BY <3>1, <3>2, QueuedKept
    <3> QED
      BY <1>2, <1>11, <2>6, <3>3 DEF QueueInv, q, handed, issued, req, d
  <2>8. MailboxInv'
    <3> SUFFICES ASSUME PeerSent \in io.armctrl
                 PROVE  req[io.ppcmsg] = n + 1 /\ d[io.ppcmsg] = Request(n + 1)
      BY <1>2, <1>8 DEF MailboxInv, req, d, n
    <3>1. req[io.ppcmsg] = n + 1 /\ b[io.ppcmsg] = Request(n + 1) /\ io.ppcmsg \in Slots
      BY <2>1 DEF PlaceInv, MailboxInv, req, b, n
    <3>2. io.ppcmsg # s
      BY <1>3, <2>4, <3>1
    <3> QED
      BY <2>4, <3>1, <3>2
  <2>9. OldInv'
    BY <1>2, <2>1, OldKept DEF PlaceInv
  <2>10. \A t : Answered(t, req, b, todo, n) => t # s /\ Answered(t, req, d, left, n)
    <3> SUFFICES ASSUME NEW t, Answered(t, req, b, todo, n) PROVE t # s /\ Answered(t, req, d, left, n)
      OBVIOUS
    <3>1. t \in Slots /\ req[t] \in 1..n /\ b[t] = Result(req[t]) /\ \A v \in todo : v.slot # t
      BY DEF Answered
    <3>2. t # s
      BY <2>4, <3>1 DEF s
    <3>3. \A v \in left : v.slot # t
      BY <1>5, <3>1
    <3> QED
      BY <2>4, <3>1, <3>2, <3>3 DEF Answered
  <2>11. Answered(s, req, d, left, n)
    <3>1. ASSUME NEW v \in left PROVE v.slot # s
      <4>1. v \in todo /\ v # w /\ v \in [slot : Slots, id : Nat]
        BY <1>3, <1>5, <3>1
      <4>2. v.slot = s => v.id = w.id
        BY <2>3, <2>4, <4>1
      <4>3. v.slot = w.slot /\ v.id = w.id => v = w
        BY <1>4, <4>1
      <4> QED
        BY <4>1, <4>2, <4>3 DEF s
    <3> QED
      BY <1>4, <2>4, <3>1 DEF Answered
  <2>12. BackInv'
    <3> DEFINE p == Coming
               stack == client.stack
    <3>1. Returning(p, stack, req, b, todo, n)
      BY <2>1 DEF PlaceInv, BackInv, req, b, todo, n
    <3> HIDE DEF p, stack
    <3>2. Returning(p, stack, req, d, left, n)
      BY <2>10, <3>1, ReturningKept
    <3>3. Apart(s, p, stack)
      BY <2>10, <3>1 DEF Returning, Apart
    <3> QED
      BY <1>2, <1>9, <1>11, <2>11, <3>2, <3>3 DEF BackInv, p, stack, req, d, left, n
  <2> QED
    BY <1>2, <1>11, <2>1, <2>2, <2>5, <2>6, <2>7, <2>8, <2>9, <2>12 DEF PlaceInv
<1> QED
  BY <1>2, <1>3, <1>11, <1>13, StepTracked

\* A step of the script that neither begins a request nor ends one.
LEMMA ScriptTracked ==
  ASSUME Inv, ~SigPipeIgnored, ~bridge.exited, Tracked, io' = io, mem' = mem, bridge' = bridge, guest' = guest,
         client'.conn = client.conn, client'.requests = client.requests,
         \A k \in Conns : k # client.conn => net'.c2s[k] = net.c2s[k],
         hist'.taken = hist.taken, hist'.results = hist.results, hist'.issued = hist.issued,
         Undisturbed' => Undisturbed, "nested" \notin hist'.races => "nested" \notin hist.races,
         "reacked" \in hist'.races => "reacked" \in hist.races,
         Undisturbed /\ PlaceInv => QueueInv' /\ BackInv',
         Undisturbed /\ "nested" \notin hist'.races
           /\ OneRead(ToServe, Coming, client.stack, client.requests) =>
                OneRead(ToServe, Coming, client.stack, client.requests)'
  PROVE  Tracked'
<1>1. IpcType
  BY DEF Inv, ControlInv
<1>2. ASSUME Undisturbed'
      PROVE  /\ PlaceInv'
             /\ "nested" \notin hist'.races => OneRead(ToServe, Coming, client.stack, client.requests)'
  <2>1. PlaceInv /\ ("nested" \notin hist.races => OneRead(ToServe, Coming, client.stack, client.requests))
    BY <1>2, TrackedIs
  <2>2. QuietInv' /\ MailboxInv' /\ TodoInv'
    BY <2>1 DEF PlaceInv, QuietInv, MailboxInv, TodoInv
  <2>3. (Handed <= hist.issued)'
    BY <2>1 DEF PlaceInv, Handed
  <2>4. OldInv'
    BY <2>1, OldKept DEF PlaceInv
  <2>5. QueueInv' /\ BackInv'
    BY <1>2, <2>1
  <2>6. PlaceInv'
    BY <2>2, <2>3, <2>4, <2>5 DEF PlaceInv
  <2> QED
    BY <1>2, <2>1, <2>6
<1>3. hist.issued \in Nat /\ hist.taken \in Seq(Block)
  BY <1>1, PlaceTypes
<1> QED
  BY <1>2, <1>3, StepTracked

LEMMA WaitPpcTracked ==
  ASSUME Inv, ~SigPipeIgnored, ~bridge.exited, Tracked, WaitPpc
  PROVE  Tracked'
<1> DEFINE c == [client EXCEPT !.phase = "waitdead"]
<1>1. IpcType /\ client \in ClientType
  BY DEF Inv, ControlInv, IpcType
<1>2. /\ client' = Waited(c) /\ io' = io /\ mem' = mem /\ bridge' = bridge /\ guest' = guest
      /\ net' = net /\ hist' = hist
  BY DEF WaitPpc
<1>3. c \in ClientType /\ c.conn = client.conn /\ c.requests = client.requests /\ c.stack = client.stack
  BY <1>1 DEF ClientType
<1> HIDE DEF c
<1>4. client'.conn = client.conn /\ client'.requests = client.requests /\ client'.stack = client.stack
  BY <1>2, <1>3, WaitedIs
<1>5. ToServe' = ToServe /\ Coming' = Coming /\ (Undisturbed' <=> Undisturbed)
  BY <1>2, <1>4 DEF ToServe, Coming, Undisturbed
<1>6. PlaceInv => QueueInv' /\ BackInv'
  <2>1. Handed' = Handed
    BY <1>2 DEF Handed
  <2> QED
    BY <1>2, <1>4, <1>5, <2>1, BackKept DEF PlaceInv, QueueInv
<1>7. OneRead(ToServe, Coming, client.stack, client.requests) =>
        OneRead(ToServe, Coming, client.stack, client.requests)'
  BY <1>4, <1>5
<1> QED
  BY <1>2, <1>4, <1>5, <1>6, <1>7, ScriptTracked

LEMMA LaunchedTracked ==
  ASSUME Inv, ~SigPipeIgnored, ~bridge.exited, Tracked, Launched
  PROVE  Tracked'
<1>1. hist \in HistType /\ client \in ClientType
  BY DEF Inv, ControlInv, IpcType
<1>2. client.acks > 0 /\ client.acks \in Nat
  BY <1>1 DEF Launched, ClientType
<1>3. ~Undisturbed
  BY <1>2, TrackedIs
<1>4. hist'.reloads = hist.reloads /\ hist'.races = hist.races
  BY <1>1 DEF Launched, HistType
<1>5. ~Undisturbed'
  BY <1>3, <1>4 DEF Undisturbed
<1> QED
  BY <1>5 DEF Tracked, TrackInv, OwnInv

LEMMA ExitTracked ==
  ASSUME Inv, ~SigPipeIgnored, ~bridge.exited, Tracked, Exit
  PROVE  Tracked'
<1> DEFINE k == client.conn
           out == <<EXIT>>
<1>1. IpcType /\ client \in ClientType /\ net \in NetType
  BY DEF Inv, ControlInv, IpcType
<1>2. /\ client.phase = "ready" /\ client' = [client EXCEPT !.phase = "leaving"] /\ net' = Send(k, out)
      /\ io' = io /\ mem' = mem /\ bridge' = bridge /\ guest' = guest /\ hist' = hist
  BY DEF Exit
<1>3. client'.conn = client.conn /\ client'.requests = client.requests /\ client'.stack = client.stack
  BY <1>1, <1>2 DEF ClientType
<1>4. k \in Conns /\ k # 0 /\ net.c2s[k] \in Seq(ToBridge)
  BY <1>1, <1>2, ScriptRuns, PlaceTypes, Fields
<1>5. EXIT \in ToBridge /\ EXIT.msg = "EXIT"
  BY Messages
<1>6. Append(net.c2s[k], EXIT) \in Seq(ToBridge)
  BY <1>4, <1>5, AppendIs
<1>7. net' = Uplink(net, k, Append(net.c2s[k], EXIT))
  <2>1. Append(net.c2s[k], EXIT) = net.c2s[k] \o out
    BY <1>4, <1>5, AppendIsConcat
  <2> HIDE DEF out
  <2>2. net' = [net EXCEPT !.c2s[k] = net.c2s[k] \o out]
    BY <1>2 DEF Send
  <2> QED
    BY <2>1, <2>2 DEF Uplink
<1> HIDE DEF k
<1>8. /\ net'.s2c = net.s2c /\ net'.c2s[k] = Append(net.c2s[k], EXIT)
      /\ \A j \in Conns : j # k => net'.c2s[j] = net.c2s[j]
  <2>1. Uplinks(net, net', k, Append(net.c2s[k], EXIT))
    BY <1>1, <1>4, <1>6, <1>7, UplinkIs
  <2> QED
    BY <2>1, Zenon DEF Uplinks
<1>9. ToServe' = Append(ToServe, EXIT) /\ Coming' = Coming /\ (Undisturbed' <=> Undisturbed)
  BY <1>2, <1>3, <1>4, <1>8 DEF ToServe, Coming, Undisturbed, k
<1>10. ToServe \in Seq(ToBridge)
  BY <1>1, PlaceTypes
<1> DEFINE q == ToServe
           c == ToServe'
<1> HIDE DEF q, c
<1>11. q \in Seq(ToBridge) /\ c = Append(q, EXIT)
  BY <1>9, <1>10 DEF q, c
<1>12. PlaceInv => QueueInv' /\ BackInv'
  <2> SUFFICES ASSUME PlaceInv PROVE QueueInv' /\ BackInv'
    OBVIOUS
  <2>1. Handed' = Handed
    BY <1>2 DEF Handed
  <2>2. Queued(q, client.requests, mem, Handed, hist.issued)
    BY DEF PlaceInv, QueueInv, q
  <2>3. Queued(c, client.requests, mem, Handed, hist.issued)
    BY <1>5, <1>11, <2>2, QueuedAppended
  <2> QED
    BY <1>2, <1>3, <1>9, <2>1, <2>3, BackKept DEF PlaceInv, QueueInv, c
<1>13. OneRead(ToServe, Coming, client.stack, client.requests) =>
         OneRead(ToServe, Coming, client.stack, client.requests)'
  <2>1. OneRead(q, Coming, client.stack, client.requests) => OneRead(c, Coming, client.stack, client.requests)
    BY <1>5, <1>11, OneReadSent
  <2> QED
    BY <1>3, <1>9, <2>1 DEF q, c
<1> QED
  BY <1>2, <1>3, <1>8, <1>9, <1>12, <1>13, ScriptTracked DEF k

LEMMA DisconnectTracked ==
  ASSUME Inv, ~SigPipeIgnored, ~bridge.exited, Tracked, Disconnect
  PROVE  Tracked'
<1> DEFINE k == client.conn
<1>1. IpcType /\ client \in ClientType /\ net \in NetType
  BY DEF Inv, ControlInv, IpcType
<1>2. /\ client.phase # "off" /\ client' = [client EXCEPT !.phase = "off"]
      /\ net' = [net EXCEPT !.up[k] = "closed", !.s2c[k] = <<>>]
      /\ io' = io /\ mem' = mem /\ bridge' = bridge /\ guest' = guest /\ hist' = hist
  BY DEF Disconnect
<1>3. client'.conn = client.conn /\ client'.requests = client.requests /\ client'.stack = client.stack
  BY <1>1, <1>2 DEF ClientType
<1>4. k \in Conns /\ k # 0
  BY <1>1, <1>2, ScriptRuns, PlaceTypes
<1>5. net'.c2s = net.c2s /\ net'.s2c[k] = <<>>
  BY <1>1, <1>2, <1>4 DEF NetType
<1>6. ToServe' = ToServe /\ Coming' = <<>> /\ (Undisturbed' <=> Undisturbed)
  BY <1>2, <1>3, <1>4, <1>5 DEF ToServe, Coming, Undisturbed
<1>7. Len(<<>>) = 0
  OBVIOUS
<1>8. PlaceInv => QueueInv' /\ BackInv'
  <2> SUFFICES ASSUME PlaceInv PROVE QueueInv' /\ BackInv'
    OBVIOUS
  <2>1. Handed' = Handed
    BY <1>2 DEF Handed
  <2>2. BackInv'
    BY <1>2, <1>3, <1>6, <1>7 DEF PlaceInv, BackInv, Returning, Apart
  <2> QED
    BY <1>2, <1>3, <1>6, <2>1, <2>2 DEF PlaceInv, QueueInv
<1>9. OneRead(ToServe, Coming, client.stack, client.requests) =>
        OneRead(ToServe, Coming, client.stack, client.requests)'
  BY <1>3, <1>6, <1>7 DEF OneRead
<1> QED
  BY <1>2, <1>3, <1>5, <1>6, <1>8, <1>9, ScriptTracked

\* With no request outstanding there is none anywhere.
LEMMA NothingOutstanding ==
  ASSUME IpcType, PlaceInv, Outstanding = {}, PeerSent \in io.armctrl => io.ppcmsg \in Slots
  PROVE  /\ PeerSent \notin io.armctrl /\ Sent \notin io.armctrl /\ guest.todo = {}
         /\ Handed = hist.issued
         /\ \A i \in 1..Len(ToServe) : ToServe[i].msg \notin {"MESSAGE", "WRITE"}
<1> DEFINE q == ToServe
           req == client.requests
           n == Len(hist.taken)
<1>1. /\ q \in Seq(ToBridge) /\ req \in [Slots -> Nat] /\ n \in Nat /\ hist.issued \in Nat /\ Handed \in Nat
      /\ guest.todo \in SUBSET [slot : Slots, id : Nat]
  BY PlaceTypes
<1>2. \A s \in Slots : req[s] = 0
  BY DEF Outstanding
<1>3. Queued(q, req, mem, Handed, hist.issued) /\ Handed <= hist.issued
  BY DEF PlaceInv, QueueInv
<1>4. PeerSent \notin io.armctrl
  <2>1. PeerSent \in io.armctrl => req[io.ppcmsg] = n + 1
    BY DEF PlaceInv, MailboxInv
  <2> HIDE DEF req, n
  <2> QED
    BY <1>1, <1>2, <2>1
<1>5. Sent \notin io.armctrl
  <2>1. Sent \in io.armctrl => io.armmsg \in Slots /\ req[io.armmsg] \in 1..n
    BY DEF PlaceInv, BackInv, Answered
  <2> HIDE DEF req, n
  <2> QED
    BY <1>1, <1>2, <2>1
<1>6. guest.todo = {}
  <2>1. \A w \in guest.todo : req[w.slot] = w.id /\ w.id \in 1..n
    BY DEF PlaceInv, TodoInv
  <2> HIDE DEF req, n
  <2>2. \A w \in guest.todo : w.slot \in Slots
    BY <1>1
  <2> QED
    BY <1>1, <1>2, <2>1, <2>2
<1> HIDE DEF q, req, n
<1>7. \A i \in 1..Len(q) : q[i].msg # "MESSAGE"
  <2> SUFFICES ASSUME NEW i \in 1..Len(q), q[i].msg = "MESSAGE" PROVE FALSE
    OBVIOUS
  <2>1. q[i].arg \in Slots
    BY <1>1, AddressIs
  <2>2. req[q[i].arg] > Handed
    BY <1>3 DEF Queued, Written
  <2> QED
    BY <1>1, <1>2, <2>1, <2>2
<1>8. \A i \in 1..Len(q) : q[i].msg # "WRITE"
  <2> SUFFICES ASSUME NEW i \in 1..Len(q), q[i].msg = "WRITE" PROVE FALSE
    OBVIOUS
  <2>1. i < Len(q) /\ q[i + 1] = MESSAGE(q[i].arg)
    BY <1>3 DEF Queued, Paired
  <2>2. i + 1 \in 1..Len(q) /\ q[i + 1].msg = "MESSAGE"
    BY <1>1, <2>1, RequestsAre
  <2> QED
    BY <1>7, <2>2
<1>9. Handed = hist.issued
  <2> SUFFICES ASSUME Handed # hist.issued PROVE FALSE
    OBVIOUS
  <2>1. Handed + 1 \in (Handed + 1)..hist.issued
    BY <1>1, <1>3
  <2>2. \E i \in 1..Len(q) : q[i].msg = "MESSAGE"
    BY <1>3, <2>1 DEF Queued, Covering
  <2> QED
    BY <1>7, <2>2
<1> QED
  BY <1>4, <1>5, <1>6, <1>7, <1>8, <1>9 DEF q

LEMMA ConnectTracked ==
  ASSUME Inv, ~SigPipeIgnored, ~bridge.exited, Tracked, Connect
  PROVE  Tracked'
<1> DEFINE k == client.conn
           j == client.conn + 1
<1>1. IpcType /\ LinkInv /\ client \in ClientType /\ net \in NetType /\ hist \in HistType
  BY DEF Inv, ControlInv, IpcType
<1>2. /\ client.conn < MaxConn /\ net' = [net EXCEPT !.up[j] = "up"]
      /\ io' = io /\ mem' = mem /\ bridge' = bridge /\ guest' = guest
  BY DEF Connect
<1>3. client'.conn = j /\ client'.requests = Fresh /\ client'.stack = <<>>
  BY <1>1 DEF Connect, ClientType
<1>4. /\ hist'.taken = hist.taken /\ hist'.results = hist.results /\ hist'.issued = hist.issued
      /\ hist'.reloads = hist.reloads
      /\ hist'.races = hist.races \cup (IF Outstanding = {} THEN {} ELSE {"orphan"})
  BY <1>1 DEF Connect, HistType
<1>5. k \in Nat /\ j \in Conns /\ j # 0 /\ j > k /\ bridge.bsock \in Nat /\ j > bridge.bsock
  BY <1>1, <1>2, Fields, BoundsAssumption DEF LinkInv, Conns
<1>6. net'.c2s = net.c2s /\ net'.s2c = net.s2c
  BY <1>1, <1>2 DEF NetType
<1>7. net.c2s[j] = <<>> /\ net.s2c[j] = <<>>
  BY <1>1, <1>5 DEF LinkInv
<1> HIDE DEF j
<1>8. ToServe' = <<>> /\ Coming' = <<>>
  BY <1>3, <1>5, <1>6, <1>7 DEF ToServe, Coming
<1>9. (Undisturbed' => Undisturbed /\ Outstanding = {}) /\ ("nested" \notin hist'.races => "nested" \notin hist.races)
  BY <1>4 DEF Undisturbed
<1>10. "reacked" \in hist'.races => "reacked" \in hist.races
  BY <1>4
<1>11. Len(<<>>) = 0 /\ 1..0 = {}
  OBVIOUS
<1>12. hist.issued \in Nat /\ hist.taken \in Seq(Block)
  BY <1>1, PlaceTypes
<1>13. ASSUME Undisturbed' PROVE PlaceInv'
  <2>1. PlaceInv /\ (PeerSent \in io.armctrl => io.ppcmsg \in Slots) /\ Outstanding = {}
    BY <1>9, <1>13, TrackedIs
  <2>2. /\ PeerSent \notin io.armctrl /\ Sent \notin io.armctrl /\ guest.todo = {} /\ Handed = hist.issued
        /\ \A i \in 1..Len(ToServe) : ToServe[i].msg \notin {"MESSAGE", "WRITE"}
    BY <1>1, <2>1, NothingOutstanding
  <2>3. QuietInv' /\ MailboxInv' /\ TodoInv'
    BY <1>2, <2>1, <2>2 DEF PlaceInv, QuietInv, MailboxInv, TodoInv
  <2>4. Handed' = hist.issued
    BY <1>2, <1>4, <2>2 DEF Handed
  <2>5. QueueInv'
    <3>1. (hist.issued + 1)..hist.issued = {}
      BY <1>12
    <3>2. Queued(<<>>, Fresh, mem, hist.issued, hist.issued)
      BY <1>11, <3>1 DEF Queued, Written, Paired, Ascending, Covering
    <3> QED
      BY <1>2, <1>3, <1>4, <1>8, <2>4, <3>2 DEF QueueInv
  <2>6. BackInv'
    BY <1>2, <1>3, <1>8, <1>11, <2>2 DEF BackInv, Returning
  <2>7. OldInv'
    <3> SUFFICES ASSUME NEW h \in Conns, h # j
                 PROVE  \A i \in 1..Len(net.c2s[h]) : net.c2s[h][i].msg \notin {"MESSAGE", "WRITE"}
      BY <1>3, <1>6 DEF OldInv
    <3>1. CASE h # k
      BY <2>1, <3>1 DEF PlaceInv, OldInv
    <3>2. CASE h = k
      <4>1. client.conn # 0
        BY <1>1, <3>2, PlaceTypes
      <4> QED
        BY <2>2, <3>2, <4>1 DEF ToServe
    <3> QED
      BY <3>1, <3>2
  <2>8. (Handed <= hist.issued)'
    BY <1>4, <1>12, <2>4
  <2> QED
    BY <2>3, <2>5, <2>6, <2>7, <2>8 DEF PlaceInv
<1>14. OneRead(ToServe, Coming, client.stack, client.requests)'
  BY <1>3, <1>8, <1>11 DEF OneRead
<1> QED
  BY <1>4, <1>9, <1>10, <1>12, <1>13, <1>14, StepTracked

LEMMA IssueTracked ==
  ASSUME Inv, ~SigPipeIgnored, ~bridge.exited, Tracked, Issue
  PROVE  Tracked'
<1> DEFINE k == client.conn
           id == hist.issued + 1
           req == client.requests
           n == Len(hist.taken)
<1>1. IpcType /\ client \in ClientType /\ net \in NetType /\ hist \in HistType
  BY DEF Inv, ControlInv, IpcType
<1>2. PICK s \in Slots \ Outstanding :
         /\ client' = [client EXCEPT !.requests[s] = id]
         /\ net' = Send(k, <<WRITE(s, Request(id)), MESSAGE(s)>>)
  BY DEF Issue
<1>3. /\ client.phase = "ready" /\ client.stack = <<>> /\ hist' = [hist EXCEPT !.issued = @ + 1]
      /\ io' = io /\ mem' = mem /\ bridge' = bridge /\ guest' = guest
  BY DEF Issue
<1>4. /\ hist.taken \in Seq(Block) /\ n \in Nat /\ hist.issued \in Nat /\ req \in [Slots -> Nat]
      /\ ToServe \in Seq(ToBridge) /\ Handed \in Nat /\ id \in Nat
      /\ guest.todo \in SUBSET [slot : Slots, id : Nat]
  BY <1>1, PlaceTypes
<1>5. s \in Slots /\ req[s] = 0
  BY <1>2 DEF Outstanding
<1>6. /\ hist'.taken = hist.taken /\ hist'.results = hist.results /\ hist'.issued = id
      /\ hist'.reloads = hist.reloads /\ hist'.races = hist.races
  BY <1>1, <1>3 DEF HistType
<1>7. k \in Conns /\ k # 0 /\ net.c2s[k] \in Seq(ToBridge)
  BY <1>1, <1>3, ScriptRuns, PlaceTypes, Fields
<1> DEFINE new == client'.requests
<1>8. /\ new = [req EXCEPT ![s] = id] /\ client'.conn = k /\ client'.stack = <<>>
  BY <1>1, <1>2, <1>3 DEF ClientType
<1> DEFINE x == WRITE(s, Request(id))
           y == MESSAGE(s)
           a == Append(ToServe, x)
           c == Append(a, y)
<1>9. x \in ToBridge /\ y \in ToBridge /\ x.msg = "WRITE" /\ y.msg = "MESSAGE"
  BY <1>4, <1>5, Messages
<1> HIDE DEF id, req, n, new, x, y
<1>10. a \in Seq(ToBridge) /\ c \in Seq(ToBridge)
  BY <1>4, <1>9, AppendIs
<1>11. ToServe = net.c2s[k] /\ c = net.c2s[k] \o <<x, y>>
  <2>1. ToServe = net.c2s[k]
    BY <1>7 DEF ToServe
  <2>2. c = ToServe \o <<x, y>>
    BY <1>4, <1>9
  <2> QED
    BY <2>1, <2>2
<1> HIDE DEF k, a, c
<1>12. net' = Uplink(net, k, c)
  BY <1>2, <1>11 DEF Send, Uplink, x, y
<1>13. net'.s2c = net.s2c /\ net'.c2s[k] = c /\ \A j \in Conns : j # k => net'.c2s[j] = net.c2s[j]
  <2>1. Uplinks(net, net', k, c)
    BY <1>1, <1>7, <1>10, <1>12, UplinkIs
  <2> QED
    BY <2>1, Zenon DEF Uplinks
<1>14. ToServe' = c /\ Coming' = Coming /\ (Undisturbed' <=> Undisturbed)
  BY <1>6, <1>7, <1>8, <1>13 DEF ToServe, Coming, Undisturbed, k
<1>15. new[s] = id /\ \A t \in Slots : t # s => new[t] = req[t]
  BY <1>4, <1>5, <1>8
<1>16. \A t \in Slots : req[t] # 0 => t # s /\ new[t] = req[t]
  BY <1>5, <1>15
<1>17. ASSUME Undisturbed PROVE PlaceInv'
  <2>1. PlaceInv /\ (PeerSent \in io.armctrl => io.ppcmsg \in Slots)
    BY <1>17, TrackedIs
  <2>2. Handed' = Handed /\ Handed <= hist.issued
    BY <1>3, <1>6, <2>1 DEF Handed, PlaceInv
  <2>3. QuietInv'
    BY <1>3, <2>1 DEF PlaceInv, QuietInv
  <2>4. QueueInv'
    <3> DEFINE q == ToServe
               issued == hist.issued
               handed == Handed
               b == mem
    <3>1. Queued(q, req, b, handed, issued) /\ q \in Seq(ToBridge) /\ handed \in Nat /\ issued \in Nat
          /\ handed <= issued
      BY <1>4, <2>1, <2>2 DEF PlaceInv, QueueInv, req
    <3>2. /\ a = Append(q, WRITE(s, Request(issued + 1))) /\ c = Append(a, MESSAGE(s))
          /\ new = [req EXCEPT ![s] = issued + 1]
      BY <1>8 DEF a, c, x, y, id
    <3> HIDE DEF q, issued, handed, b
    <3>3. Queued(c, new, b, handed, issued + 1)
      BY <1>4, <1>5, <3>1, <3>2, QueuedIssued
    <3> QED
      BY <1>3, <1>6, <1>14, <2>2, <3>3 DEF QueueInv, new, b, handed, issued, id
  <2>5. MailboxInv'
    <3> SUFFICES ASSUME PeerSent \in io.armctrl
                 PROVE  new[io.ppcmsg] = n + 1 /\ mem[io.ppcmsg] = Request(n + 1)
      BY <1>3, <1>6 DEF MailboxInv, new, n
    <3>1. req[io.ppcmsg] = n + 1 /\ mem[io.ppcmsg] = Request(n + 1) /\ io.ppcmsg \in Slots
      BY <2>1 DEF PlaceInv, MailboxInv, req, n
    <3> QED
      BY <1>4, <1>16, <3>1
  <2>6. TodoInv'
    <3> SUFFICES ASSUME NEW w \in guest.todo PROVE new[w.slot] = w.id /\ w.id \in 1..n
      BY <1>3, <1>6 DEF TodoInv, new, n
    <3>1. req[w.slot] = w.id /\ w.id \in 1..n /\ w.slot \in Slots
      BY <1>4, <2>1 DEF PlaceInv, TodoInv, req, n
    <3> QED
      BY <1>4, <1>16, <3>1
  <2>7. \A t : Answered(t, req, mem, guest.todo, n) => Answered(t, new, mem, guest.todo, n)
    <3> SUFFICES ASSUME NEW t, Answered(t, req, mem, guest.todo, n) PROVE Answered(t, new, mem, guest.todo, n)
      OBVIOUS
    <3>1. t \in Slots /\ req[t] \in 1..n /\ mem[t] = Result(req[t]) /\ \A w \in guest.todo : w.slot # t
      BY DEF Answered
    <3>2. new[t] = req[t]
      BY <1>4, <1>16, <3>1
    <3> QED
      BY <3>1, <3>2 DEF Answered
  <2>8. BackInv'
    <3> DEFINE p == Coming
               b == mem
               todo == guest.todo
               stack == client.stack
    <3>1. Returning(p, stack, req, b, todo, n)
      BY <2>1 DEF PlaceInv, BackInv, req, n
    <3>2. \A t : Answered(t, req, b, todo, n) => Answered(t, new, b, todo, n)
      BY <2>7
    <3>3. Sent \in io.armctrl => Answered(io.armmsg, req, b, todo, n) /\ Apart(io.armmsg, p, stack)
      BY <2>1 DEF PlaceInv, BackInv, req, n
    <3>4. client'.stack = stack
      BY <1>3, <1>8
    <3> HIDE DEF p, b, todo, stack
    <3>5. Returning(p, stack, new, b, todo, n)
      BY <3>1, <3>2, ReturningKept
    <3> QED
      BY <1>3, <1>6, <1>14, <3>2, <3>3, <3>4, <3>5 DEF BackInv, p, b, todo, new, n
  <2>9. OldInv'
    BY <1>8, <1>13, <2>1, OldKept DEF PlaceInv, k
  <2>10. (Handed <= hist.issued)'
    BY <1>4, <1>6, <2>2 DEF id
  <2> QED
    BY <2>3, <2>4, <2>5, <2>6, <2>8, <2>9, <2>10 DEF PlaceInv
<1>18. ASSUME Undisturbed, "nested" \notin hist.races
       PROVE  OneRead(ToServe, Coming, client.stack, client.requests)'
  <2> DEFINE q == ToServe
             p == Coming
             stack == client.stack
  <2>1. OneRead(q, p, stack, req) /\ q \in Seq(ToBridge) /\ a = Append(q, x) /\ c = Append(a, y)
    BY <1>4, <1>18, TrackedIs DEF req, a, c
  <2>2. stack = <<>> /\ Len(<<>>) = 0
    BY <1>3
  <2> HIDE DEF q, p, stack
  <2>3. OneRead(a, p, stack, req)
    BY <1>9, <2>1, OneReadSent
  <2>4. OneRead(c, p, stack, req)
    BY <1>9, <1>10, <2>1, <2>3, OneReadSent
  <2>5. OneRead(c, p, <<>>, new)
    BY <2>2, <2>4 DEF OneRead
  <2> QED
    BY <1>8, <1>14, <2>5 DEF p, new
<1> QED
  BY <1>4, <1>6, <1>14, <1>17, <1>18, StepTracked DEF id

\* The script takes the first message that has come.
LEMMA ScriptGets ==
  ASSUME Inv, ProcessMsg, NEW k, k = client.conn, NEW rest, rest = [net EXCEPT !.s2c[k] = Tail(@)]
  PROVE  /\ k \in Conns /\ k # 0 /\ Coming # <<>> /\ Coming[1] = Head(net.s2c[k]) /\ Coming' = Tail(Coming)
         /\ client'.conn = client.conn /\ io' = io /\ mem' = mem /\ bridge' = bridge /\ guest' = guest
         /\ \A j \in Conns : j # client.conn => net'.c2s[j] = net.c2s[j]
         /\ net' = rest => ToServe' = ToServe
         /\ \A r \in ToBridge : net' = [rest EXCEPT !.c2s[k] = Append(@, r)] => ToServe' = Append(ToServe, r)
<1>1. IpcType /\ net \in NetType
  BY DEF Inv, ControlInv, IpcType
<1>2. k \in Conns /\ net.s2c[k] # <<>> /\ k # 0
  <2>1. client.phase # "off" \/ Outstanding # {}
    BY DEF ProcessMsg
  <2> QED
    BY <1>1, <2>1, ScriptRuns, PlaceTypes DEF ProcessMsg
<1>3. /\ client'.conn = k
      /\ net' = rest \/ \E r \in ToBridge : net' = [rest EXCEPT !.c2s[k] = Append(@, r)]
  <2> DEFINE c == client.conn
             m == Head(net.s2c[c])
             d == [net EXCEPT !.s2c[c] = Tail(@)]
  <2>1. /\ client' \in ClientType /\ client'.conn = c /\ hist' \in HistType
        /\ client'.phase = "off" <=> client.phase = "off"
        /\ client'.ppcstat = IF m.msg = "STATUS" THEN m.arg ELSE client.ppcstat
        /\ client'.acks = IF m.msg = "ACK" THEN client.acks + 1 ELSE client.acks
        /\ Outstanding' \subseteq Outstanding
        /\ hist'.reloads = hist.reloads /\ hist'.launched = hist.launched
        /\ "reacked" \notin hist'.races => "reacked" \notin hist.races
        /\ net' = d \/ \E r \in ToBridge : net' = [d EXCEPT !.c2s[c] = Append(@, r)]
        /\ client.phase \in {"off", "init"} /\ Outstanding = {} /\ (m.msg = "STATUS" => m.arg = 0) =>
             client'.phase = client.phase /\ net' = d
    BY Processes
  <2> QED
    BY <2>1
<1>4. io' = io /\ mem' = mem /\ bridge' = bridge /\ guest' = guest
  BY DEF ProcessMsg
<1>5. net.s2c[k] \in Seq(ToClient) /\ net.c2s[k] \in Seq(ToBridge)
  BY <1>1, <1>2, Fields
<1> DEFINE t == Tail(net.s2c[k])
<1>6. rest = Downlink(net, k, t)
  BY DEF Downlink
<1>7. t \in Seq(ToClient) /\ Head(net.s2c[k]) = net.s2c[k][1]
  BY <1>2, <1>5, TailIs
<1>8. /\ net'.s2c[k] = t
      /\ \A j \in Conns : j # k => net'.s2c[j] = net.s2c[j] /\ net'.c2s[j] = net.c2s[j]
      /\ net' = rest => net'.c2s = net.c2s
  <2> DEFINE n == net'
             d == rest
  <2>1. n = d \/ \E r \in ToBridge : n = Uplink(d, k, Append(d.c2s[k], r))
    BY <1>3 DEF Uplink
  <2>2. d = Downlink(net, k, Tail(net.s2c[k]))
    BY <1>6
  <2> HIDE DEF n, d
  <2>3. /\ n.s2c[k] = t
        /\ \A j \in Conns : j # k => n.s2c[j] = net.s2c[j] /\ n.c2s[j] = net.c2s[j]
        /\ n = d => n.c2s = net.c2s
    BY <1>1, <1>2, <2>1, <2>2, Receives
  <2> QED
    BY <2>3 DEF n, d
<1> HIDE DEF t
<1>9. rest \in NetType /\ rest.c2s = net.c2s
  <2> DEFINE d == Downlink(net, k, t)
  <2>1. Downlinks(net, d, k, t)
    BY <1>1, <1>2, <1>7, DownlinkIs
  <2>2. d \in NetType /\ d.c2s = net.c2s
    BY <2>1, Zenon DEF Downlinks
  <2> QED
    BY <1>6, <2>2
<1>10. ASSUME NEW r \in ToBridge, net' = [rest EXCEPT !.c2s[k] = Append(@, r)]
       PROVE  net'.c2s[k] = Append(net.c2s[k], r)
  <2> DEFINE c == Append(net.c2s[k], r)
             d == rest
  <2>1. c \in Seq(ToBridge)
    BY <1>5, AppendIs
  <2>2. d \in NetType /\ net' = Uplink(d, k, c)
    BY <1>9, <1>10 DEF Uplink
  <2> HIDE DEF c, d
  <2>3. Uplinks(d, net', k, c)
    BY <1>2, <2>1, <2>2, UplinkIs
  <2>4. net'.c2s[k] = c
    BY <2>3 DEF Uplinks
  <2> QED
    BY <2>4 DEF c
<1>11. Coming = net.s2c[k] /\ Coming' = t /\ ToServe = net.c2s[k] /\ ToServe' = net'.c2s[k]
  BY <1>2, <1>3, <1>8 DEF Coming, ToServe
<1>12. Coming' = Tail(Coming) /\ Coming[1] = Head(net.s2c[k])
  BY <1>7, <1>11 DEF t
<1> QED
  BY <1>2, <1>3, <1>4, <1>8, <1>10, <1>11, <1>12

\* It takes a message that is neither a reply nor a result, or a reply to no
\* request of its own; it may send an acknowledgement.
LEMMA GetsTracked ==
  ASSUME Inv, ~SigPipeIgnored, ~bridge.exited, Tracked, ProcessMsg,
         client'.requests = client.requests, client'.stack = client.stack, hist' = hist,
         ToServe' = ToServe \/ ToServe' = Append(ToServe, ACK)
  PROVE  Tracked'
<1>1. IpcType
  BY DEF Inv, ControlInv
<1>2. /\ Coming # <<>> /\ Coming' = Tail(Coming)
      /\ client'.conn = client.conn /\ io' = io /\ mem' = mem /\ bridge' = bridge /\ guest' = guest
      /\ \A j \in Conns : j # client.conn => net'.c2s[j] = net.c2s[j]
  <2> DEFINE k == client.conn
             rest == [net EXCEPT !.s2c[k] = Tail(@)]
  <2>1. k = client.conn /\ rest = [net EXCEPT !.s2c[k] = Tail(@)]
    OBVIOUS
  <2> HIDE DEF k, rest
  <2> QED
    BY <2>1, ScriptGets
<1>3. ToServe \in Seq(ToBridge) /\ Coming \in Seq(ToClient) /\ client.stack \in Seq(Slots)
  BY <1>1, PlaceTypes
<1>4. ACK \in ToBridge /\ ACK.msg = "ACK"
  BY Messages
<1> DEFINE q == ToServe
           c == ToServe'
           p == Coming
           t == Coming'
           stack == client.stack
           req == client.requests
           n == Len(hist.taken)
<1>5. /\ q \in Seq(ToBridge) /\ (c = q \/ c = Append(q, ACK)) /\ p \in Seq(ToClient) /\ p # <<>>
      /\ t = Tail(p) /\ stack \in Seq(Slots)
  BY <1>2, <1>3
<1>6. PlaceInv => QueueInv' /\ BackInv'
  <2> SUFFICES ASSUME PlaceInv PROVE QueueInv' /\ BackInv'
    OBVIOUS
  <2>1. Handed' = Handed
    BY <1>2 DEF Handed
  <2>2. Queued(q, req, mem, Handed, hist.issued) /\ Returning(p, stack, req, mem, guest.todo, n)
    BY DEF PlaceInv, QueueInv, BackInv
  <2>3. Sent \in io.armctrl => Answered(io.armmsg, req, mem, guest.todo, n) /\ Apart(io.armmsg, p, stack)
    BY DEF PlaceInv, BackInv
  <2> HIDE DEF q, c, p, t, stack, req, n
  <2>4. Queued(c, req, mem, Handed, hist.issued)
    <3>1. CASE c = q
      BY <2>2, <3>1
    <3>2. CASE c = Append(q, ACK)
      BY <1>4, <1>5, <2>2, <3>2, QueuedAppended
    <3> QED
      BY <1>5, <3>1, <3>2
  <2>5. /\ Returning(t, stack, req, mem, guest.todo, n)
        /\ \A s : Apart(s, p, stack) => Apart(s, t, stack)
    <3> DEFINE b == mem
               todo == guest.todo
    <3>1. Returning(p, stack, req, b, todo, n)
      BY <2>2
    <3> HIDE DEF b, todo
    <3>2. FirstReceived(p, stack, req, b, todo, n)
      BY <1>5, <3>1, ReturningReceived
    <3> QED
      BY <1>5, <3>2 DEF FirstReceived, b, todo
  <2>6. QueueInv'
    BY <1>2, <2>1, <2>4 DEF QueueInv, c, req
  <2>7. BackInv'
    BY <1>2, <2>3, <2>5 DEF BackInv, t, stack, req, n
  <2> QED
    BY <2>6, <2>7
<1>7. OneRead(ToServe, Coming, client.stack, client.requests) =>
        OneRead(ToServe, Coming, client.stack, client.requests)'
  <2> SUFFICES ASSUME OneRead(q, p, stack, req) PROVE OneRead(c, t, stack, req)
    OBVIOUS
  <2> HIDE DEF q, c, p, t, stack, req, n
  <2>1. OneRead(q, t, stack, req)
    BY <1>5, OneReadReceived DEF ReadReceived
  <2>2. CASE c = q
    BY <2>1, <2>2
  <2>3. CASE c = Append(q, ACK)
    <3>1. ACK.msg # "READ"
      BY <1>4
    <3> QED
      BY <1>4, <1>5, <2>1, <2>3, <3>1, OneReadSent
  <2> QED
    BY <1>5, <2>2, <2>3
<1>8. Undisturbed' <=> Undisturbed
  BY DEF Undisturbed
<1> QED
  BY <1>2, <1>6, <1>7, <1>8, ScriptTracked

\* It takes a reply, and begins to read the result.
LEMMA ReplyTracked ==
  ASSUME Inv, ~SigPipeIgnored, ~bridge.exited, Tracked, ProcessMsg, NEW s, s = Coming[1].arg, s \in Slots,
         Coming[1].msg = "MESSAGE",
         client'.requests = client.requests, client'.stack = Append(client.stack, s),
         hist' = [hist EXCEPT !.races = @ \cup (IF client.stack = <<>> THEN {} ELSE {"nested"})],
         ToServe' = Append(ToServe, READ(s, Nothing))
  PROVE  Tracked'
<1>1. IpcType /\ hist \in HistType
  BY DEF Inv, ControlInv, IpcType
<1>2. /\ Coming # <<>> /\ Coming' = Tail(Coming)
      /\ client'.conn = client.conn /\ io' = io /\ mem' = mem /\ bridge' = bridge /\ guest' = guest
      /\ \A j \in Conns : j # client.conn => net'.c2s[j] = net.c2s[j]
  <2> DEFINE k == client.conn
             rest == [net EXCEPT !.s2c[k] = Tail(@)]
  <2>1. k = client.conn /\ rest = [net EXCEPT !.s2c[k] = Tail(@)]
    OBVIOUS
  <2> HIDE DEF k, rest
  <2> QED
    BY <2>1, ScriptGets
<1>3. ToServe \in Seq(ToBridge) /\ Coming \in Seq(ToClient) /\ client.stack \in Seq(Slots)
  BY <1>1, PlaceTypes
<1>4. READ(s, Nothing) \in ToBridge /\ READ(s, Nothing).msg = "READ"
  BY Messages, RequestsAre
<1>5. /\ hist'.taken = hist.taken /\ hist'.results = hist.results /\ hist'.issued = hist.issued
      /\ hist'.reloads = hist.reloads
      /\ hist'.races = hist.races \cup (IF client.stack = <<>> THEN {} ELSE {"nested"})
  BY <1>1 DEF HistType
<1> DEFINE q == ToServe
           c == ToServe'
           p == Coming
           t == Coming'
           stack == client.stack
           deep == client'.stack
           req == client.requests
           n == Len(hist.taken)
           x == p[1]
           r == READ(s, Nothing)
<1>6. /\ q \in Seq(ToBridge) /\ c = Append(q, r) /\ p \in Seq(ToClient) /\ p # <<>>
      /\ t = Tail(p) /\ stack \in Seq(Slots) /\ deep = Append(stack, x.arg) /\ x.msg = "MESSAGE" /\ x = p[1]
      /\ x.arg = s
  BY <1>2, <1>3
<1>7. r \in ToBridge /\ r.msg \notin {"MESSAGE", "WRITE"}
  BY <1>4
<1>8. PlaceInv => QueueInv' /\ BackInv'
  <2> SUFFICES ASSUME PlaceInv PROVE QueueInv' /\ BackInv'
    OBVIOUS
  <2>1. Handed' = Handed
    BY <1>2, <1>5 DEF Handed
  <2>2. Queued(q, req, mem, Handed, hist.issued) /\ Returning(p, stack, req, mem, guest.todo, n)
    BY DEF PlaceInv, QueueInv, BackInv
  <2>3. Sent \in io.armctrl => Answered(io.armmsg, req, mem, guest.todo, n) /\ Apart(io.armmsg, p, stack)
    BY DEF PlaceInv, BackInv
  <2> HIDE DEF q, c, p, t, stack, deep, req, n, x, r
  <2>4. Queued(c, req, mem, Handed, hist.issued)
    BY <1>6, <1>7, <2>2, QueuedAppended
  <2>5. /\ Returning(t, deep, req, mem, guest.todo, n)
        /\ \A a : Apart(a, p, stack) => Apart(a, t, deep)
    <3> DEFINE b == mem
               todo == guest.todo
    <3>1. Returning(p, stack, req, b, todo, n)
      BY <2>2
    <3> HIDE DEF b, todo
    <3>2. FirstReceived(p, stack, req, b, todo, n)
      BY <1>6, <3>1, ReturningReceived
    <3> QED
      BY <1>6, <3>2 DEF FirstReceived, b, todo
  <2>6. QueueInv'
    BY <1>2, <1>5, <2>1, <2>4 DEF QueueInv, c, req
  <2>7. BackInv'
    BY <1>2, <1>5, <2>3, <2>5 DEF BackInv, t, deep, req, n
  <2> QED
    BY <2>6, <2>7
<1>9. "nested" \notin hist'.races /\ OneRead(ToServe, Coming, client.stack, client.requests) =>
        OneRead(ToServe, Coming, client.stack, client.requests)'
  <2> SUFFICES ASSUME "nested" \notin hist'.races, OneRead(q, p, stack, req) PROVE OneRead(c, t, deep, req)
    OBVIOUS
  <2>1. stack = <<>>
    BY <1>5
  <2> HIDE DEF q, c, p, t, stack, deep, req, n, x
  <2>2. p[1].msg = "MESSAGE" /\ p[1].arg = s
    BY <1>6
  <2>3. ReadReceived(q, p, stack, req)
    BY <1>6, OneReadReceived
  <2>4. OneRead(Append(q, READ(p[1].arg, Nothing)), t, Append(stack, p[1].arg), req)
    BY <1>6, <2>1, <2>2, <2>3 DEF ReadReceived
  <2> QED
    BY <1>6, <2>2, <2>4
<1>10. /\ Undisturbed' => Undisturbed
       /\ "nested" \notin hist'.races => "nested" \notin hist.races
       /\ "reacked" \in hist'.races => "reacked" \in hist.races
  BY <1>5 DEF Undisturbed
<1> QED
  BY <1>2, <1>5, <1>8, <1>9, <1>10, ScriptTracked

\* It takes a result, and every request it was reading ends.
LEMMA ResultTracked ==
  ASSUME Inv, ~SigPipeIgnored, ~bridge.exited, Tracked, ProcessMsg, Coming[1].msg = "READ",
         Coming[1] \in ToClient, FinishReads(Coming[1].buf), ToServe' = ToServe
  PROVE  Tracked'
<1> DEFINE done == {client.stack[i] : i \in 1..Len(client.stack)}
           new == [s \in Slots |-> IF s \in done THEN 0 ELSE client.requests[s]]
           results == [i \in Ids |-> IF \E s \in done : client.requests[s] = i
                                     THEN Coming[1].buf ELSE hist.results[i]]
<1>1. IpcType /\ client \in ClientType /\ hist \in HistType
  BY DEF Inv, ControlInv, IpcType
<1>2. /\ client'.requests = new /\ client'.stack = <<>> /\ hist'.results = results
       /\ hist'.taken = hist.taken /\ hist'.issued = hist.issued /\ hist'.reloads = hist.reloads
       /\ hist'.races = hist.races
  <2> DEFINE c == [client EXCEPT !.stack = <<>>, !.requests = new]
  <2>1. client' = Waited(c) /\ hist' = [hist EXCEPT !.results = results]
    BY DEF FinishReads
  <2>2. new \in [Slots -> Nat] /\ results \in [Ids -> Block] /\ <<>> \in Seq(Slots)
    BY <1>1 DEF ClientType, HistType, ToClient, Message
  <2> HIDE DEF new, results
  <2>3. c \in ClientType /\ c.requests = new /\ c.stack = <<>>
    BY <1>1, <2>2 DEF ClientType
  <2>4. /\ hist'.results = results /\ hist'.taken = hist.taken /\ hist'.issued = hist.issued
        /\ hist'.reloads = hist.reloads /\ hist'.races = hist.races
    BY <1>1, <2>1, <2>2 DEF HistType
  <2> HIDE DEF c
  <2>5. client'.requests = new /\ client'.stack = <<>>
    BY <2>1, <2>3, WaitedIs
  <2> QED
    BY <2>4, <2>5
<1>3. /\ Coming # <<>> /\ Coming' = Tail(Coming)
      /\ client'.conn = client.conn /\ io' = io /\ mem' = mem /\ bridge' = bridge /\ guest' = guest
      /\ \A j \in Conns : j # client.conn => net'.c2s[j] = net.c2s[j]
  <2> DEFINE k == client.conn
             rest == [net EXCEPT !.s2c[k] = Tail(@)]
  <2>1. k = client.conn /\ rest = [net EXCEPT !.s2c[k] = Tail(@)]
    OBVIOUS
  <2> HIDE DEF k, rest
  <2> QED
    BY <2>1, ScriptGets
<1>4. /\ ToServe \in Seq(ToBridge) /\ Coming \in Seq(ToClient) /\ client.stack \in Seq(Slots)
      /\ client.requests \in [Slots -> Nat] /\ Len(hist.taken) \in Nat /\ Handed \in Nat
      /\ guest.todo \in SUBSET [slot : Slots, id : Nat]
  BY <1>1, PlaceTypes
<1> DEFINE q == ToServe
           p == Coming
           t == Coming'
           stack == client.stack
           req == client.requests
           n == Len(hist.taken)
           b == mem
           todo == guest.todo
           handed == Handed
           left == client'.requests
<1>5. /\ q \in Seq(ToBridge) /\ p \in Seq(ToClient) /\ p # <<>> /\ t = Tail(p) /\ stack \in Seq(Slots)
      /\ req \in [Slots -> Nat] /\ n \in Nat /\ handed \in Nat /\ p[1].msg = "READ"
  BY <1>3, <1>4
<1>6. \A s \in Slots : (\A i \in 1..Len(stack) : stack[i] # s) => left[s] = req[s]
  BY <1>2
<1>7. n <= handed
  <2>1. handed = n \/ handed = n + 1
    <3>1. CASE PeerSent \in io.armctrl
      BY <3>1 DEF Handed
    <3>2. CASE PeerSent \notin io.armctrl
      <4>1. n + 0 = n
        BY <1>5
      <4> QED
        BY <3>2, <4>1 DEF Handed
    <3> QED
      BY <3>1, <3>2
  <2> HIDE DEF n, handed
  <2> QED
    BY <1>5, <2>1
<1>8. Undisturbed' <=> Undisturbed
  BY <1>2 DEF Undisturbed
<1>9. ASSUME Undisturbed PROVE PlaceInv'
  <2>1. PlaceInv /\ (PeerSent \in io.armctrl => io.ppcmsg \in Slots)
    BY <1>9, TrackedIs
  <2>2. Handed' = Handed
    BY <1>2, <1>3 DEF Handed
  <2>3. /\ Queued(q, req, b, handed, hist.issued) /\ Returning(p, stack, req, b, todo, n)
        /\ Sent \in io.armctrl => Answered(io.armmsg, req, b, todo, n) /\ Apart(io.armmsg, p, stack)
    BY <2>1 DEF PlaceInv, QueueInv, BackInv
  <2>4. /\ PeerSent \in io.armctrl => req[io.ppcmsg] = n + 1 /\ b[io.ppcmsg] = Request(n + 1)
        /\ \A w \in todo : req[w.slot] = w.id /\ w.id \in 1..n /\ w.slot \in Slots
    BY <1>4, <2>1 DEF PlaceInv, MailboxInv, TodoInv
  <2> HIDE DEF q, p, t, stack, req, n, b, todo, handed, left, new, results, done
  <2>5. \A i \in 1..Len(stack) : req[stack[i]] \in 1..n /\ \A w \in todo : w.slot # stack[i]
    BY <2>3 DEF Returning, Answered
  <2>6. \A s \in Slots : req[s] > n => left[s] = req[s]
    <3> SUFFICES ASSUME NEW s \in Slots, req[s] > n PROVE left[s] = req[s]
      OBVIOUS
    <3>1. \A i \in 1..Len(stack) : stack[i] # s
      BY <1>5, <2>5
    <3> QED
      BY <1>6, <3>1
  <2>7. QueueInv'
    <3>1. \A s \in Slots : req[s] > handed => left[s] = req[s] /\ b[s] = b[s]
      BY <1>5, <1>7, <2>6
    <3> DEFINE issued == hist.issued
    <3> HIDE DEF issued
    <3>2. Queued(q, req, b, handed, issued)
      BY <2>3 DEF issued
    <3>3. Queued(q, left, b, handed, issued)
      BY <1>5, <3>1, <3>2, QueuedKept
    <3> QED
      BY <1>2, <1>3, <2>2, <3>3 DEF QueueInv, q, b, handed, left, issued
  <2>8. MailboxInv'
    <3> SUFFICES ASSUME PeerSent \in io.armctrl PROVE left[io.ppcmsg] = n + 1 /\ b[io.ppcmsg] = Request(n + 1)
      BY <1>2, <1>3 DEF MailboxInv, n, b, left
    <3>1. io.ppcmsg \in Slots /\ req[io.ppcmsg] = n + 1 /\ b[io.ppcmsg] = Request(n + 1)
      BY <2>1, <2>4
    <3>2. req[io.ppcmsg] > n
      BY <1>5, <3>1
    <3> QED
      BY <2>6, <3>1, <3>2
  <2>9. TodoInv'
    <3> SUFFICES ASSUME NEW w \in todo PROVE left[w.slot] = w.id /\ w.id \in 1..n
      BY <1>2, <1>3 DEF TodoInv, n, todo, left
    <3>1. \A i \in 1..Len(stack) : stack[i] # w.slot
      BY <2>5
    <3> QED
      BY <1>6, <2>4, <3>1
  <2>10. BackInv'
    <3>1. FirstReceived(p, stack, req, b, todo, n)
      BY <1>5, <2>3, ReturningReceived
    <3>2. /\ Returning(t, stack, req, b, todo, n)
          /\ \A s : Apart(s, p, stack) => Apart(s, t, stack)
      BY <1>5, <3>1 DEF FirstReceived
    <3>3. /\ Returning(t, <<>>, left, b, todo, n)
          /\ \A s : Answered(s, req, b, todo, n) /\ Apart(s, t, stack) =>
               Answered(s, left, b, todo, n) /\ Apart(s, t, <<>>)
      BY <1>6, <3>2, ReturningFreed
    <3> QED
      BY <1>2, <1>3, <2>3, <3>2, <3>3 DEF BackInv, t, b, todo, n, left
  <2>11. QuietInv' /\ OldInv' /\ (Handed <= hist.issued)'
    BY <1>2, <1>3, <2>1, <2>2, OldKept DEF PlaceInv, QuietInv
  <2> QED
    BY <2>7, <2>8, <2>9, <2>10, <2>11 DEF PlaceInv
<1>10. TrackInv'
  BY <1>2, <1>3, <1>8, <1>9 DEF Tracked, TrackInv
<1>11. ASSUME Undisturbed, "nested" \notin hist.races
       PROVE  /\ \A i \in Ids : hist'.results[i] \in {Nothing, Result(i)}
              /\ OneRead(ToServe, Coming, client.stack, client.requests)'
  <2>1. OneRead(q, p, stack, req) /\ \A i \in Ids : hist.results[i] \in {Nothing, Result(i)}
    BY <1>11, TrackedIs DEF Tracked, OwnInv
  <2> HIDE DEF q, p, t, stack, req, n, b, todo, handed, left, new, results, done
  <2>2. Len(stack) = 1 /\ p[1].buf = Result(req[stack[1]]) /\ OneRead(q, t, <<>>, left)
    <3>1. ReadReceived(q, p, stack, req)
      BY <1>5, <2>1, OneReadReceived
    <3> QED
      BY <1>5, <3>1 DEF ReadReceived
  <2>3. done = {stack[1]}
    <3>1. 1..1 = {1}
      OBVIOUS
    <3> QED
      BY <2>2, <3>1 DEF stack, done
  <2>4. ASSUME NEW i \in Ids PROVE hist'.results[i] \in {Nothing, Result(i)}
    <3>1. hist'.results[i] = IF \E s \in done : req[s] = i THEN p[1].buf ELSE hist.results[i]
      BY <1>2 DEF req, p, results
    <3>2. CASE req[stack[1]] = i
      BY <2>2, <2>3, <3>1, <3>2
    <3>3. CASE req[stack[1]] # i
      BY <2>1, <2>3, <3>1, <3>3
    <3> QED
      BY <3>2, <3>3
  <2> QED
    BY <1>2, <2>2, <2>4 DEF q, t, left
<1>12. OwnInv'
  BY <1>2, <1>3, <1>8, <1>11 DEF OwnInv
<1> QED
  BY <1>10, <1>12 DEF Tracked

LEMMA ProcessMsgTracked ==
  ASSUME Inv, ~SigPipeIgnored, ~bridge.exited, Tracked, ProcessMsg
  PROVE  Tracked'
<1> DEFINE k == client.conn
           m == Head(net.s2c[k])
           rest == [net EXCEPT !.s2c[k] = Tail(@)]
<1>1. IpcType /\ client \in ClientType /\ hist \in HistType
  BY DEF Inv, ControlInv, IpcType
<1>2. /\ Coming[1] = m /\ Coming # <<>>
      /\ net' = rest => ToServe' = ToServe
      /\ \A r \in ToBridge : net' = [rest EXCEPT !.c2s[k] = Append(@, r)] => ToServe' = Append(ToServe, r)
  <2>1. /\ k \in Conns /\ k # 0 /\ Coming # <<>> /\ Coming[1] = Head(net.s2c[k]) /\ Coming' = Tail(Coming)
        /\ client'.conn = client.conn /\ io' = io /\ mem' = mem /\ bridge' = bridge /\ guest' = guest
        /\ \A j \in Conns : j # client.conn => net'.c2s[j] = net.c2s[j]
        /\ net' = rest => ToServe' = ToServe
        /\ \A r \in ToBridge : net' = [rest EXCEPT !.c2s[k] = Append(@, r)] => ToServe' = Append(ToServe, r)
    BY ScriptGets
  <2> QED
    BY <2>1
<1>3. m \in ToClient
  BY <1>1, <1>2, PlaceTypes, TailIs
<1>4. CASE m.msg = "STATUS"
  <2> DEFINE p == IF client.phase = "init" /\ m.arg = 1 THEN "ready" ELSE client.phase
             c == [client EXCEPT !.ppcstat = m.arg, !.phase = p]
  <2>1. /\ client' = Waited(c) /\ hist' = hist
        /\ net' = IF client.phase = "init" /\ m.arg = 1
                  THEN [rest EXCEPT !.c2s[k] = Append(@, ACK)] ELSE rest
    BY <1>4 DEF ProcessMsg
  <2>2. m.arg \in {0, 1} /\ p \in {"off", "init", "ready", "waitdead", "waitalive", "leaving"}
    BY <1>1, <1>3, <1>4 DEF ToClient, ClientType
  <2> HIDE DEF p, m
  <2>3. c \in ClientType /\ c.requests = client.requests /\ c.stack = client.stack
    BY <1>1, <2>2 DEF ClientType
  <2> HIDE DEF c
  <2>4. client'.requests = client.requests /\ client'.stack = client.stack
    BY <2>1, <2>3, WaitedIs
  <2>5. ToServe' = ToServe \/ ToServe' = Append(ToServe, ACK)
    BY <1>2, <2>1, Messages
  <2> QED
    BY <2>1, <2>4, <2>5, GetsTracked
<1>5. CASE m.msg = "ACK"
  <2>1. client' = [client EXCEPT !.acks = @ + 1] /\ hist' = hist /\ net' = rest
    BY <1>5 DEF ProcessMsg
  <2>2. client'.requests = client.requests /\ client'.stack = client.stack
    BY <1>1, <2>1 DEF ClientType
  <2> QED
    BY <1>2, <2>1, <2>2, GetsTracked
<1>6. CASE m.msg = "MESSAGE"
  <2>1. CASE m.arg \in Outstanding
    <3> DEFINE s == m.arg
    <3>1. /\ client' = [client EXCEPT !.stack = Append(@, s)]
          /\ net' = [rest EXCEPT !.c2s[k] = Append(@, READ(s, Nothing))]
          /\ hist' = [hist EXCEPT !.races = @ \cup (IF client.stack = <<>> THEN {} ELSE {"nested"})]
      BY <1>6, <2>1 DEF ProcessMsg
    <3>2. s \in Slots /\ READ(s, Nothing) \in ToBridge
      BY <2>1, Messages DEF Outstanding
    <3>3. s = Coming[1].arg /\ Coming[1].msg = "MESSAGE"
      BY <1>2, <1>6
    <3>4. ToServe' = Append(ToServe, READ(s, Nothing))
      BY <1>2, <3>1, <3>2
    <3> HIDE DEF s
    <3>5. client'.requests = client.requests /\ client'.stack = Append(client.stack, s)
      BY <1>1, <3>1 DEF ClientType
    <3> QED
      BY <3>1, <3>2, <3>3, <3>4, <3>5, ReplyTracked
  <2>2. CASE m.arg \notin Outstanding
    <3>1. client' = client /\ hist' = hist /\ net' = rest
      BY <1>6, <2>2 DEF ProcessMsg
    <3> QED
      BY <1>2, <3>1, GetsTracked
  <2> QED
    BY <2>1, <2>2
<1>7. CASE m.msg = "READ"
  <2>1. FinishReads(m.buf) /\ net' = rest
    BY <1>7 DEF ProcessMsg
  <2>2. ToServe' = ToServe /\ Coming[1].msg = "READ" /\ Coming[1] \in ToClient /\ FinishReads(Coming[1].buf)
    BY <1>2, <1>3, <1>7, <2>1
  <2> QED
    BY <2>2, ResultTracked
<1> QED
  BY <1>4, <1>5, <1>6, <1>7 DEF ProcessMsg

-----------------------------------------------------------------------------
(* From the first state on.                                                  *)

LEMMA InitialTracked ==
  ASSUME Init
  PROVE  Tracked
<1>1. /\ io.armctrl = {} /\ io.irq_enabled = {} /\ guest.pc = "boot" /\ guest.todo = {}
      /\ net.c2s = [k \in Conns |-> <<>>] /\ client.conn = 0 /\ client.stack = <<>>
      /\ hist.issued = 0 /\ hist.taken = <<>> /\ hist.results = [i \in Ids |-> Nothing] /\ hist.races = {}
  BY DEF Init
<1>2. Len(<<>>) = 0 /\ 1..0 = {} /\ ToServe = <<>> /\ Coming = <<>> /\ Handed = 0 /\ (0 + 1)..0 = {}
  BY <1>1 DEF ToServe, Coming, Handed
<1>3. QuietInv /\ MailboxInv /\ TodoInv /\ BackInv /\ OldInv
  BY <1>1, <1>2 DEF QuietInv, MailboxInv, TodoInv, BackInv, OldInv, Returning
<1>4. QueueInv
  BY <1>1, <1>2 DEF QueueInv, Queued, Written, Paired, Ascending, Covering
<1>5. PlaceInv
  BY <1>1, <1>2, <1>3, <1>4 DEF PlaceInv
<1>6. TrackInv
  BY <1>1, <1>2, <1>5 DEF TrackInv
<1>7. OneRead(ToServe, Coming, client.stack, client.requests)
  BY <1>1, <1>2 DEF OneRead
<1>8. OwnInv
  BY <1>1, <1>7 DEF OwnInv
<1> QED
  BY <1>6, <1>8 DEF Tracked

LEMMA NextTracked ==
  ASSUME ~SigPipeIgnored, Inv, Tracked, [Next]_vars
  PROVE  Tracked'
<1>1. CASE UNCHANGED vars
  <2>1. /\ io' = io /\ mem' = mem /\ bridge' = bridge /\ guest' = guest /\ net' = net
        /\ client' = client /\ hist' = hist
    BY <1>1 DEF vars
  <2>2. ToServe' = ToServe /\ Coming' = Coming /\ Handed' = Handed /\ (Undisturbed' <=> Undisturbed)
    BY <2>1 DEF ToServe, Coming, Handed, Undisturbed
  <2>3. PlaceInv => PlaceInv'
    BY <2>1, <2>2 DEF PlaceInv, QuietInv, QueueInv, MailboxInv, TodoInv, BackInv, OldInv
  <2>4. TrackInv'
    BY <2>1, <2>2, <2>3 DEF Tracked, TrackInv
  <2>5. OwnInv'
    BY <2>1, <2>2 DEF Tracked, OwnInv
  <2> QED
    BY <2>4, <2>5 DEF Tracked
<1>2. CASE Next
  <2>1. ~bridge.exited
    BY <1>2 DEF Next
  <2>2. CASE IoCycle
    BY <2>1, <2>2, PassInitTracked, AcceptNoneTracked, AcceptClientTracked, IdleGoneTracked,
       IdleQuietTracked, IdleServeTracked, PassSndAckTracked DEF IoCycle
  <2>3. CASE GuestDriver
    BY <2>1, <2>3, GuestBootTracked, GuestIrqTracked, GuestHandleTracked, GuestEoiTracked DEF GuestDriver
  <2>4. CASE GuestWork
    BY <2>1, <2>4, GuestReplyTracked DEF GuestWork
  <2>5. CASE GuestReload \/ GuestFlipPpc
    BY <2>1, <2>5, GuestReloadTracked, GuestFlipPpcTracked
  <2>6. CASE Connect \/ Issue \/ WaitPpc \/ ProcessMsg \/ Launched \/ Disconnect \/ Exit
    BY <2>1, <2>6, ConnectTracked, IssueTracked, WaitPpcTracked, ProcessMsgTracked, LaunchedTracked,
       DisconnectTracked, ExitTracked
  <2> QED
    BY <1>2, <2>2, <2>3, <2>4, <2>5, <2>6 DEF Next
<1> QED
  BY <1>1, <1>2

\* With SIGPIPE left to its default, every step of every party keeps track of
\* the requests: until IOS reboots, a script leaves a request behind or a reply
\* is sent twice, the blocks and addresses still on the socket are the requests
\* IOS has not been given, in their order and each written before its address;
\* the mailbox holds the next one; and a reply under way or being read is to a
\* request IOS has answered, whose result is in its block.
THEOREM RequestsAreTracked ==
  ASSUME ~SigPipeIgnored
  PROVE  Spec => []Tracked
<1>1. Init => Tracked
  BY InitialTracked
<1>2. Inv /\ Tracked /\ [Next]_vars => Tracked'
  BY NextTracked
<1> QED
  BY <1>1, <1>2, IpcInvariant, PTL DEF Spec

\* With SIGPIPE left to its default, for any number of scripts, of requests each
\* leaves outstanding and of blocks: until IOS reboots it takes every request
\* once, in the order they were issued, with the block that starlet_do_ipc wrote
\* for it, unless a script dies with a request outstanding or the driver sends a
\* reply twice.
THEOREM RequestsAreTakenInOrder ==
  ASSUME ~SigPipeIgnored
  PROVE  Spec => []TakenInOrder
<1>1. Inv /\ Tracked => TakenInOrder
  <2> SUFFICES ASSUME Inv, Tracked, Undisturbed, NEW i \in DOMAIN hist.taken
               PROVE  hist.taken[i] = Request(i) /\ i <= hist.issued
    BY DEF TakenInOrder, Undisturbed
  <2>1. hist.taken \in Seq(Block) /\ Len(hist.taken) \in Nat /\ hist.issued \in Nat
    BY PlaceTypes DEF Inv, ControlInv
  <2>2. i \in 1..Len(hist.taken)
    BY <2>1
  <2>3. hist.taken[i] = Request(i) /\ Len(hist.taken) <= hist.issued
    BY <2>2 DEF Tracked, TrackInv
  <2> QED
    BY <2>1, <2>2, <2>3
<1> QED
  BY <1>1, IpcInvariant, RequestsAreTracked, PTL

\* With SIGPIPE left to its default, a script with any number of requests
\* outstanding is given the result of the request it asked about, unless IOS
\* rebooted or one of the races OwnUnlessRaced names occurred: one readbuf is
\* enough for readmem() as long as one readmem() runs at a time.
THEOREM ResultsAreTheirOwn ==
  ASSUME ~SigPipeIgnored
  PROVE  Spec => []OwnUnlessRaced
<1>1. Tracked => OwnUnlessRaced
  <2> SUFFICES ASSUME Tracked, hist.reloads = 0, hist.races = {}
               PROVE  \A i \in Ids : hist.results[i] \in {Nothing, Result(i)}
    BY DEF OwnUnlessRaced
  <2>1. Undisturbed /\ "nested" \notin hist.races
    BY DEF Undisturbed
  <2> QED
    BY <2>1 DEF Tracked, OwnInv
<1> QED
  BY <1>1, RequestsAreTracked, PTL
=============================================================================
