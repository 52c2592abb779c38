----------------------------- MODULE StarletIrq -----------------------------
(***************************************************************************)
(* The interrupt side of the Starlet machine: the register file behind     *)
(* 0xd800000..0xd80003c, the timer, the devices that raise interrupts and  *)
(* the periodic starlet_io_do_cycle.  The guest is any program: it may     *)
(* write every register at every moment.  The socket bridge is any         *)
(* sequence of the steps of starlet_do_ipc; StarletIPC has its exact       *)
(* control flow.                                                           *)
(***************************************************************************)
EXTENDS StarletMailbox

CONSTANTS
  GuestLines,  \* interrupt lines the guest enables and clears
  PpcLines,    \* lines it clears on the PowerPC's side
  Devices,     \* lines of devices that raise and then update (NAND, AES, SHA)
  SdhcLines,   \* lines raised without updating the CPU's input: {7} in the code
  TimerMod,    \* the timer counts modulo this: 2^32 in the code
  CtrlData     \* the values written to the two control registers

TimerLine == 0
Lines == Devices \cup SdhcLines \cup {TimerLine, PpcIrq, ArmIrq}

ASSUME TimerModAssumption == TimerMod \in Nat \ {0}
ASSUME LinesAssumption == GuestLines \subseteq Lines /\ PpcLines \subseteq Lines
ASSUME CtrlDataAssumption == CtrlData \subseteq SUBSET CtrlBits

VARIABLE io

IoType ==
  [ppcctrl : SUBSET CtrlBits, armctrl : SUBSET CtrlBits,
   irq_active : SUBSET Lines, irq_active_ppc : SUBSET Lines, irq_enabled : SUBSET Lines,
   irqLow : BOOLEAN, timer : 0..(TimerMod - 1), alarm : 0..(TimerMod - 1)]

\* The registers keep their widths: the counter wraps and no other bit appears.
IrqTypeOK == io \in IoType

\* starlet_io_reset clears the whole structure; NirqSig is HIGH at reset.
Init ==
  io = [ppcctrl |-> {}, armctrl |-> {},
        irq_active |-> {}, irq_active_ppc |-> {}, irq_enabled |-> {},
        irqLow |-> FALSE, timer |-> 0, alarm |-> 0]

-----------------------------------------------------------------------------
(* Guest writes to starlet_hollywood_write.                                 *)

WritePpcCtrl(data) == io' = PpcCtrlWrite(io, data)
WriteArmCtrl(data) == io' = ArmCtrlWrite(io, data)
WriteTimer(v)      == io' = [io EXCEPT !.timer = v]
WriteAlarm(v)      == io' = [io EXCEPT !.alarm = v]
ClearPpcActive(s)  == io' = [io EXCEPT !.irq_active_ppc = @ \ s]
ClearActive(s)     == io' = update_int([io EXCEPT !.irq_active = @ \ s])
\* Slip: masking a line also forgets that it is active.
WriteEnabled_Drops(s) == io' = update_int([io EXCEPT !.irq_enabled = s, !.irq_active = @ \cap s])
WriteEnabled(s)    == io' = update_int([io EXCEPT !.irq_enabled = s])

(* Devices.  The SD controller raises its line and leaves NirqSig alone.    *)

DeviceIrq(n) == io' = update_int(set_intr(io, n))
SdhcIrq(n)   == io' = set_intr(io, n)

-----------------------------------------------------------------------------
(* starlet_io_do_cycle: count, fire the alarm, then the bridge between two   *)
(* updates of the mailbox interrupts.                                       *)

\* Slips: the counter grows past its width; it wraps one count too early.
Tick_Unbounded(r) == [r EXCEPT !.timer = r.timer + 1]
Tick(r) == [r EXCEPT !.timer = (r.timer + 1) % TimerMod]
\* Slip: the alarm becomes active and NirqSig is left to the next write.
Alarm_NoUpdate(r) == IF r.timer = r.alarm THEN set_intr(r, TimerLine) ELSE r
Alarm(r) == IF r.timer = r.alarm THEN update_int(set_intr(r, TimerLine)) ELSE r

\* The register effects one pass of starlet_do_ipc can have: each of its
\* states, cut short where a send can fail, with or without a socket message.
BridgeSteps(r) ==
  {r, InitRegs(r), TakeAck(r), TakeMessage(r), IdleRegs(r), SndAckRegs(r),
   SendMessage(IdleRegs(r)), SendAck(IdleRegs(r))}

IoCycle ==
  \E counted \in {Alarm(Tick(io))} :
    \E updated \in {ipc_update_int(counted)} :
      \E r \in BridgeSteps(updated) : io' = ipc_update_int(r)

Guest ==
  \/ \E data \in CtrlData : WritePpcCtrl(data) \/ WriteArmCtrl(data)
  \/ \E v \in 0..(TimerMod - 1) : WriteTimer(v) \/ WriteAlarm(v)
  \/ \E s \in SUBSET GuestLines : ClearActive(s) \/ WriteEnabled(s)
  \/ \E s \in SUBSET PpcLines : ClearPpcActive(s)

Machine ==
  \/ Guest
  \/ \E n \in Devices : DeviceIrq(n)
  \/ IoCycle

Next == Machine \/ \E n \in SdhcLines : SdhcIrq(n)

\* The emulator's loop calls io_do_cycle after every instruction, whatever the
\* guest executes; the guest and the devices owe nothing.
Spec == Init /\ [][Next]_io /\ WF_io(IoCycle)

-----------------------------------------------------------------------------
(* Properties.                                                              *)

Coherent(r) == Mirrored(r.ppcctrl, r.armctrl) /\ Mirrored(r.armctrl, r.ppcctrl)

\* Whatever the guest and the bridge write, and in whatever order, a message
\* or acknowledgement outstanding on one side is pending on the other
\* (starlet_ipc_write updates both registers from one side's data).
MailboxCoherent == Coherent(io)

Agrees(r) ==
  IF r.irqLow THEN r.irq_active \cap r.irq_enabled # {}
              ELSE r.irq_active \cap r.irq_enabled \subseteq SdhcLines

\* The CPU's interrupt input agrees with the controller: it is never asserted
\* for nothing, and it is late only for the lines starlet_sdhc_fire_irq raises
\* without calling starlet_update_int.
LineAgrees == Agrees(io)

\* The mailbox interrupts are levels: no pass of starlet_io_do_cycle leaves a
\* flag standing with its interrupt enabled and not raised, even when the
\* guest cleared the interrupt before it looked at the flag.
FlagsRaised ==
  /\ Flagged(io.ppcctrl) => PpcIrq \in io.irq_active_ppc
  /\ Flagged(io.armctrl) =>
       /\ ArmIrq \in io.irq_active
       /\ ArmIrq \in io.irq_enabled => io.irqLow
NoLostFlag == [][IoCycle => FlagsRaised']_io

\* Only the guest's write to 0x38 takes an active interrupt away: no device,
\* timer tick or bridge pass loses one that is waiting for the guest.
ActiveUntilCleared ==
  [][io.irq_active \subseteq io'.irq_active
       \/ ClearActive(io.irq_active \ io'.irq_active)]_io

\* Nobody but starlet_io_do_cycle moves the timer, and nobody moves the alarm.
TimerLeftAlone == [][io'.alarm = io.alarm /\ (io'.timer = io.timer \/ IoCycle)]_io

=============================================================================
