--------------------------- MODULE StarletMailbox ---------------------------
(***************************************************************************)
(* The Hollywood IPC mailbox and interrupt registers of the Starlet        *)
(* machine (src/arch/arm/mach/skyeye_mach_starlet.c), as operators on the  *)
(* record io that stands for the part of struct starlet_io_t they touch.   *)
(*                                                                         *)
(* A register is the set of the bits that are set in it.  The two control  *)
(* registers mirror each other: each side sets Sent and Acked, which the   *)
(* other side sees as PeerSent and PeerAcked and clears by writing them.   *)
(***************************************************************************)
EXTENDS Naturals

Sent      == 1     \* I have put a message in my data register
PeerAcked == 2     \* the peer acknowledged; writing it clears it
PeerSent  == 4     \* the peer put a message in its data register
Acked     == 8     \* I acknowledge the peer's message
MsgIrq    == 16    \* interrupt me on PeerSent
AckIrq    == 32    \* interrupt me on PeerAcked

CtrlBits == {Sent, PeerAcked, PeerSent, Acked, MsgIrq, AckIrq}
Own      == {Sent, Acked, MsgIrq, AckIrq}       \* the mask 0x39
Latched  == {PeerAcked, PeerSent}               \* the mask 0x06
Irqs     == {MsgIrq, AckIrq}

PpcIrq == 30       \* raised for the PowerPC side
ArmIrq == 31       \* raised for the ARM guest

(***************************************************************************)
(* A control register write by one side: what becomes of the writer's own  *)
(* register and of the peer's.                                             *)
(***************************************************************************)
OwnAfterWrite(own, data) ==
  ((own \cap Latched) \cup (data \cap Own)) \ (data \cap Latched)

\* The pulses a write sends across: which of the peer's bits it sets and clears.
Signalled(data) ==
  (IF Sent \in data THEN {PeerSent} ELSE {})
    \cup (IF Acked \in data THEN {PeerAcked} ELSE {})
Consumed(data) ==
  (IF PeerAcked \in data THEN {Acked} ELSE {})
    \cup (IF PeerSent \in data THEN {Sent} ELSE {})

\* Slip: the write does not clear what the peer had outstanding.
PeerAfterWrite_Unconsumed(peer, data) == (peer \cap Own) \cup Signalled(data)
PeerAfterWrite(peer, data) ==
  ((peer \cap Own) \cup Signalled(data)) \ Consumed(data)

PpcCtrlWrite(io, data) ==
  [io EXCEPT !.ppcctrl = OwnAfterWrite(io.ppcctrl, data),
             !.armctrl = PeerAfterWrite(io.armctrl, data)]

ArmCtrlWrite(io, data) ==
  [io EXCEPT !.armctrl = OwnAfterWrite(io.armctrl, data),
             !.ppcctrl = PeerAfterWrite(io.ppcctrl, data)]

(***************************************************************************)
(* The bridge's write: everything it reads back in mask 0x3C, and bits.    *)
(* The mask holds PeerSent and leaves out Sent, so the write consumes a    *)
(* message of the guest that is still pending and withdraws its own.       *)
(***************************************************************************)
ipc_set(io, bits) ==
  PpcCtrlWrite(io, (io.ppcctrl \cap {PeerSent, Acked, MsgIrq, AckIrq}) \cup bits)

-----------------------------------------------------------------------------
(* Interrupts.  NirqSig is active low; irqLow stands for NirqSig = LOW.     *)

set_intr(io, n) ==
  [io EXCEPT !.irq_active = @ \cup {n}, !.irq_active_ppc = @ \cup {n}]

update_int(io) ==
  [io EXCEPT !.irqLow = (io.irq_active \cap io.irq_enabled # {})]

Flagged(ctrl) == {PeerSent, MsgIrq} \subseteq ctrl \/ {PeerAcked, AckIrq} \subseteq ctrl

\* Slip: a flag raises its interrupt only if the line is not already asserted.
ipc_update_int_Once(io) ==
  LET ppc == IF Flagged(io.ppcctrl) THEN update_int(set_intr(io, PpcIrq)) ELSE io
  IN  IF Flagged(ppc.armctrl) /\ ~ppc.irqLow THEN update_int(set_intr(ppc, ArmIrq)) ELSE ppc

\* Re-raises the level of a mailbox interrupt whose flag is still standing.
ipc_update_int(io) ==
  LET ppc == IF Flagged(io.ppcctrl)
             THEN update_int(IF PpcIrq \in io.irq_active_ppc THEN io ELSE set_intr(io, PpcIrq))
             ELSE io
  IN  IF Flagged(ppc.armctrl)
      THEN update_int(IF ArmIrq \in ppc.irq_active THEN ppc ELSE set_intr(ppc, ArmIrq))
      ELSE ppc

ClearPpcIrq(io) == [io EXCEPT !.irq_active_ppc = @ \ {PpcIrq}]

-----------------------------------------------------------------------------
(***************************************************************************)
(* What each step of starlet_do_ipc does to the registers; which of them   *)
(* run, and what goes over the socket, is the bridge's control flow.       *)
(***************************************************************************)
InitRegs(io) == PpcCtrlWrite(io, {PeerAcked, PeerSent, MsgIrq, AckIrq})

ExtraAck(io)   == PpcIrq \in io.irq_active_ppc /\ PeerAcked \in io.ppcctrl
TakeAck(io)    == IF ExtraAck(io) THEN ipc_set(io, {PeerAcked}) ELSE io
NewMessage(io) == PpcIrq \in io.irq_active_ppc /\ PeerSent \in TakeAck(io).ppcctrl
TakeMessage(io) ==
  IF NewMessage(io) THEN ipc_set(TakeAck(io), {PeerSent, Acked}) ELSE TakeAck(io)
IdleRegs(io)   == ClearPpcIrq(TakeMessage(io))

SendMessage(io) == ipc_set(io, {Sent})
SendAck(io)     == ipc_set(io, {Acked})

GotAck(io)     == PpcIrq \in io.irq_active_ppc /\ PeerAcked \in io.ppcctrl
\* Slips: the acknowledgement is taken before it came; it is not cleared.
SndAckRegs_Early(io) == ClearPpcIrq(ipc_set(io, {PeerAcked}))
SndAckRegs_Uncleared(io) == ClearPpcIrq(IF GotAck(io) THEN ipc_set(io, {}) ELSE io)
SndAckRegs(io) == ClearPpcIrq(IF GotAck(io) THEN ipc_set(io, {PeerAcked}) ELSE io)

(***************************************************************************)
(* Every message and acknowledgement flag is seen from both sides: what    *)
(* one side has outstanding is what the other has pending.                 *)
(***************************************************************************)
Mirrored(one, other) ==
  /\ (Sent \in one) <=> (PeerSent \in other)
  /\ (Acked \in one) <=> (PeerAcked \in other)
=============================================================================
