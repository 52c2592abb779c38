-------------------------- MODULE StarletIrqProofs --------------------------
(***************************************************************************)
(* Proofs about StarletIrq, for every set of interrupt lines, every timer  *)
(* width and every guest.  Good(r) is the inductive invariant: the types,  *)
(* the mirrored mailbox flags and the agreement of NirqSig with the        *)
(* controller.  Every register operation preserves it, so every step does. *)
(* The second part is about StarletSdhc, whose steps are steps of          *)
(* StarletIrq, for every set of commands.                                  *)
(***************************************************************************)
EXTENDS StarletSdhc, TLAPS

Good(r) == r \in IoType /\ Coherent(r) /\ Agrees(r)

\* What a control register write leaves alone.
LEMMA CtrlWriteFrame ==
  ASSUME NEW r \in IoType, NEW data \in SUBSET CtrlBits
  PROVE  /\ PpcCtrlWrite(r, data) \in IoType
         /\ ArmCtrlWrite(r, data) \in IoType
         /\ Agrees(r) => Agrees(PpcCtrlWrite(r, data)) /\ Agrees(ArmCtrlWrite(r, data))
<1>1. /\ OwnAfterWrite(r.ppcctrl, data) \in SUBSET CtrlBits
      /\ OwnAfterWrite(r.armctrl, data) \in SUBSET CtrlBits
  BY DEF OwnAfterWrite, IoType, Latched, Own, CtrlBits
<1>2. /\ PeerAfterWrite(r.ppcctrl, data) \in SUBSET CtrlBits
      /\ PeerAfterWrite(r.armctrl, data) \in SUBSET CtrlBits
  BY DEF PeerAfterWrite, Signalled, Consumed, IoType, Own, CtrlBits
<1> QED
  BY <1>1, <1>2 DEF PpcCtrlWrite, ArmCtrlWrite, IoType, Agrees

\* One side's write keeps the two registers mirrored, both ways.
LEMMA WriteMirrors ==
  ASSUME NEW own \in SUBSET CtrlBits, NEW peer \in SUBSET CtrlBits, NEW data \in SUBSET CtrlBits,
         Mirrored(own, peer), Mirrored(peer, own)
  PROVE  /\ Mirrored(OwnAfterWrite(own, data), PeerAfterWrite(peer, data))
         /\ Mirrored(PeerAfterWrite(peer, data), OwnAfterWrite(own, data))
  BY DEF Mirrored, OwnAfterWrite, PeerAfterWrite, Signalled, Consumed,
         Own, Latched, CtrlBits, Sent, PeerAcked, PeerSent, Acked, MsgIrq, AckIrq

LEMMA CtrlWriteGood ==
  ASSUME NEW r, Good(r), NEW data \in SUBSET CtrlBits
  PROVE  Good(PpcCtrlWrite(r, data)) /\ Good(ArmCtrlWrite(r, data))
<1>1. r \in IoType /\ r.ppcctrl \in SUBSET CtrlBits /\ r.armctrl \in SUBSET CtrlBits
  BY DEF Good, IoType
<1>2. Coherent(PpcCtrlWrite(r, data)) /\ Coherent(ArmCtrlWrite(r, data))
  BY <1>1, WriteMirrors DEF Good, Coherent, PpcCtrlWrite, ArmCtrlWrite, IoType
<1> QED
  BY <1>1, <1>2, CtrlWriteFrame DEF Good

LEMMA IpcSetGood ==
  ASSUME NEW r, Good(r), NEW bits \in SUBSET CtrlBits
  PROVE  Good(ipc_set(r, bits))
<1>1. (r.ppcctrl \cap {PeerSent, Acked, MsgIrq, AckIrq}) \cup bits \in SUBSET CtrlBits
  BY DEF Good, IoType
<1> QED
  BY <1>1, CtrlWriteGood DEF ipc_set

-----------------------------------------------------------------------------
(* Interrupts.                                                              *)

\* Raising a line and then updating NirqSig, or updating it alone.
LEMMA UpdateGood ==
  ASSUME NEW r \in IoType, Coherent(r)
  PROVE  Good(update_int(r))
  BY DEF Good, IoType, Coherent, Agrees, update_int

LEMMA RaiseTyped ==
  ASSUME NEW r \in IoType, Coherent(r), NEW n \in Lines
  PROVE  set_intr(r, n) \in IoType /\ Coherent(set_intr(r, n))
  BY DEF IoType, Coherent, set_intr

LEMMA RaiseGood ==
  ASSUME NEW r, Good(r), NEW n \in Lines
  PROVE  Good(update_int(set_intr(r, n)))
  BY UpdateGood, RaiseTyped DEF Good

\* The SD controller's line may stay unseen, and only that one.
LEMMA SdhcGood ==
  ASSUME NEW r, Good(r), NEW n \in SdhcLines
  PROVE  Good(set_intr(r, n))
<1>1. n \in Lines
  BY DEF Lines
<1>2. Agrees(set_intr(r, n))
  BY DEF Good, IoType, Agrees, set_intr
<1> QED
  BY <1>1, <1>2, RaiseTyped DEF Good

LEMMA IpcUpdateIntGood ==
  ASSUME NEW r, Good(r)
  PROVE  Good(ipc_update_int(r))
<1>1. PpcIrq \in Lines /\ ArmIrq \in Lines
  BY DEF Lines
<1> DEFINE p == IF Flagged(r.ppcctrl)
                THEN update_int(IF PpcIrq \in r.irq_active_ppc THEN r ELSE set_intr(r, PpcIrq))
                ELSE r
<1>2. Good(p)
  BY <1>1, UpdateGood, RaiseGood DEF Good
<1>3. Good(update_int(IF ArmIrq \in p.irq_active THEN p ELSE set_intr(p, ArmIrq)))
  <2> HIDE DEF p
  <2> QED
    BY <1>1, <1>2, UpdateGood, RaiseGood DEF Good
<1> QED
  BY <1>2, <1>3 DEF ipc_update_int

-----------------------------------------------------------------------------
(* The bridge and the io cycle.                                             *)

LEMMA ClearPpcIrqGood ==
  ASSUME NEW r, Good(r)
  PROVE  Good(ClearPpcIrq(r))
  BY DEF Good, IoType, Coherent, Agrees, ClearPpcIrq

LEMMA BridgeStepsGood ==
  ASSUME NEW r, Good(r)
  PROVE  \A q \in BridgeSteps(r) : Good(q)
<1>b. /\ {PeerAcked, PeerSent, MsgIrq, AckIrq} \in SUBSET CtrlBits
      /\ {PeerSent, Acked} \in SUBSET CtrlBits
      /\ {PeerAcked} \in SUBSET CtrlBits /\ {Sent} \in SUBSET CtrlBits
      /\ {Acked} \in SUBSET CtrlBits
  BY DEF CtrlBits
<1>1. Good(InitRegs(r))
  BY <1>b, CtrlWriteGood DEF InitRegs
<1>2. Good(TakeAck(r))
  BY <1>b, IpcSetGood DEF TakeAck
<1>3. Good(TakeMessage(r))
  BY <1>b, <1>2, IpcSetGood DEF TakeMessage
<1>4. Good(IdleRegs(r))
  BY <1>3, ClearPpcIrqGood DEF IdleRegs
<1>5. Good(SendMessage(IdleRegs(r))) /\ Good(SendAck(IdleRegs(r)))
  BY <1>b, <1>4, IpcSetGood DEF SendMessage, SendAck
<1>6. Good(SndAckRegs(r))
  BY <1>b, IpcSetGood, ClearPpcIrqGood DEF SndAckRegs
<1> QED
  BY <1>1, <1>2, <1>3, <1>4, <1>5, <1>6 DEF BridgeSteps

LEMMA TickGood ==
  ASSUME NEW r, Good(r)
  PROVE  Good(Alarm(Tick(r)))
<1>1. (r.timer + 1) % TimerMod \in 0..(TimerMod - 1)
  BY TimerModAssumption DEF Good, IoType
<1>2. Good(Tick(r))
  BY <1>1 DEF Good, IoType, Coherent, Agrees, Tick
<1>3. TimerLine \in Lines
  BY DEF Lines
<1> QED
  BY <1>2, <1>3, RaiseGood DEF Alarm

-----------------------------------------------------------------------------
(* The invariant.                                                           *)

LEMMA InitGood == Init => Good(io)
  BY TimerModAssumption
     DEF Init, Good, IoType, Coherent, Mirrored, Agrees, Sent, Acked, PeerSent, PeerAcked

LEMMA NextGood ==
  ASSUME Good(io), [Next]_io
  PROVE  Good(io')
<1>1. ASSUME NEW data \in CtrlData, WritePpcCtrl(data) \/ WriteArmCtrl(data)
      PROVE  Good(io')
  BY <1>1, CtrlWriteGood, CtrlDataAssumption DEF WritePpcCtrl, WriteArmCtrl
<1>2. ASSUME NEW v \in 0..(TimerMod - 1), WriteTimer(v) \/ WriteAlarm(v)
      PROVE  Good(io')
  BY <1>2 DEF WriteTimer, WriteAlarm, Good, IoType, Coherent, Agrees
<1>3. ASSUME NEW s \in SUBSET PpcLines, ClearPpcActive(s)
      PROVE  Good(io')
  BY <1>3 DEF ClearPpcActive, Good, IoType, Coherent, Agrees
<1>4. ASSUME NEW s \in SUBSET GuestLines, ClearActive(s)
      PROVE  Good(io')
  <2> DEFINE r == [io EXCEPT !.irq_active = @ \ s]
  <2>1. r \in IoType /\ Coherent(r)
    BY DEF Good, IoType, Coherent
  <2> QED
    BY <1>4, <2>1, UpdateGood DEF ClearActive
<1>5. ASSUME NEW s \in SUBSET GuestLines, WriteEnabled(s)
      PROVE  Good(io')
  <2> DEFINE r == [io EXCEPT !.irq_enabled = s]
  <2>1. r \in IoType /\ Coherent(r)
    BY LinesAssumption DEF Good, IoType, Coherent
  <2> QED
    BY <1>5, <2>1, UpdateGood DEF WriteEnabled
<1>6. ASSUME NEW n \in Devices, DeviceIrq(n)
      PROVE  Good(io')
  BY <1>6, RaiseGood DEF DeviceIrq, Lines
<1>7. ASSUME NEW n \in SdhcLines, SdhcIrq(n)
      PROVE  Good(io')
  BY <1>7, SdhcGood DEF SdhcIrq
<1>8. CASE IoCycle
  BY <1>8, TickGood, IpcUpdateIntGood, BridgeStepsGood DEF IoCycle
<1>9. CASE UNCHANGED io
  BY <1>9
<1> QED
  BY <1>1, <1>2, <1>3, <1>4, <1>5, <1>6, <1>7, <1>8, <1>9 DEF Next, Machine, Guest

Inv == Good(io)

\* The inductive invariant holds in every state.
THEOREM Invariance == Spec => []Inv
<1>1. Init => Inv
  BY InitGood DEF Inv
<1>2. Inv /\ [Next]_io => Inv'
  BY NextGood DEF Inv
<1> QED
  BY <1>1, <1>2, PTL DEF Spec

\* The registers keep their types, whatever the guest writes.
THEOREM IrqTypes == Spec => []IrqTypeOK
<1>1. Inv => IrqTypeOK
  BY DEF Inv, Good, IrqTypeOK
<1> QED
  BY <1>1, Invariance, PTL

\* Whatever the guest and the bridge write through starlet_ipc_write, the two
\* control registers mirror each other.
THEOREM Coherence == Spec => []MailboxCoherent
<1>1. Inv => MailboxCoherent
  BY DEF Inv, Good, MailboxCoherent
<1> QED
  BY <1>1, Invariance, PTL

\* NirqSig is never asserted without cause, and is late only for the lines that
\* are raised without starlet_update_int.
THEOREM LineAgreement == Spec => []LineAgrees
<1>1. Inv => LineAgrees
  BY DEF Inv, Good, LineAgrees
<1> QED
  BY <1>1, Invariance, PTL

-----------------------------------------------------------------------------
(* What a step may never do.                                                *)

\* Raising and updating leave the flags standing and raise what is flagged.
LEMMA IpcUpdateIntRaises ==
  ASSUME NEW r, Good(r)
  PROVE  LET q == ipc_update_int(r)
         IN  /\ Flagged(q.ppcctrl) => PpcIrq \in q.irq_active_ppc
             /\ Flagged(q.armctrl) =>
                  /\ ArmIrq \in q.irq_active
                  /\ ArmIrq \in q.irq_enabled => q.irqLow
<1> DEFINE p == IF Flagged(r.ppcctrl)
                THEN update_int(IF PpcIrq \in r.irq_active_ppc THEN r ELSE set_intr(r, PpcIrq))
                ELSE r
           a == IF ArmIrq \in p.irq_active THEN p ELSE set_intr(p, ArmIrq)
<1>1. /\ p \in IoType
      /\ p.ppcctrl = r.ppcctrl /\ p.armctrl = r.armctrl
      /\ Flagged(r.ppcctrl) => PpcIrq \in p.irq_active_ppc
  BY DEF Good, IoType, set_intr, update_int, Lines
<1>2. /\ update_int(a).ppcctrl = p.ppcctrl /\ update_int(a).armctrl = p.armctrl
      /\ p.irq_active_ppc \subseteq update_int(a).irq_active_ppc
      /\ ArmIrq \in update_int(a).irq_active
      /\ ArmIrq \in update_int(a).irq_enabled => update_int(a).irqLow
  <2> HIDE DEF p
  <2> QED
    BY <1>1 DEF IoType, set_intr, update_int, Lines
<1>3. ipc_update_int(r) = IF Flagged(p.armctrl) THEN update_int(a) ELSE p
  BY DEF ipc_update_int
<1> HIDE DEF p, a
<1> QED
  BY <1>1, <1>2, <1>3

\* No pass of starlet_io_do_cycle leaves a flag standing, its interrupt enabled
\* in the mailbox, and the interrupt not raised.
THEOREM LevelInterrupts == Spec => NoLostFlag
<1>1. ASSUME Good(io), IoCycle
      PROVE  FlagsRaised'
  <2>1. PICK r \in BridgeSteps(ipc_update_int(Alarm(Tick(io)))) : io' = ipc_update_int(r)
    BY <1>1 DEF IoCycle
  <2>2. Good(r)
    BY <1>1, <2>1, TickGood, IpcUpdateIntGood, BridgeStepsGood
  <2> QED
    BY <2>1, <2>2, IpcUpdateIntRaises DEF FlagsRaised
<1>2. Inv /\ [Next]_io => [IoCycle => FlagsRaised']_io
  BY <1>1 DEF Inv
<1> QED
  BY <1>2, Invariance, PTL DEF Spec, NoLostFlag

\* No mailbox operation and no tick takes an active line away.
LEMMA BridgeKeepsActive ==
  ASSUME NEW r, Good(r)
  PROVE  \A q \in BridgeSteps(r) : q.irq_active = r.irq_active
<1>1. \A q \in IoType : \A data : PpcCtrlWrite(q, data).irq_active = q.irq_active
  BY DEF PpcCtrlWrite, IoType
<1>2. \A q \in IoType : \A bits : ipc_set(q, bits).irq_active = q.irq_active
  BY <1>1 DEF ipc_set
<1>3. \A q \in IoType : ClearPpcIrq(q).irq_active = q.irq_active
  BY DEF ClearPpcIrq, IoType
<1>4. \A q \in BridgeSteps(r) : q \in IoType
  BY BridgeStepsGood DEF Good
<1>5. TakeAck(r) \in IoType /\ TakeMessage(r) \in IoType /\ IdleRegs(r) \in IoType
  BY <1>4 DEF BridgeSteps
<1>6. TakeAck(r).irq_active = r.irq_active
  BY <1>2 DEF TakeAck, Good
<1>7. TakeMessage(r).irq_active = r.irq_active
  BY <1>2, <1>5, <1>6 DEF TakeMessage
<1>8. IdleRegs(r).irq_active = r.irq_active
  BY <1>3, <1>5, <1>7 DEF IdleRegs
<1>9. SndAckRegs(r).irq_active = r.irq_active
  <2> DEFINE q == IF GotAck(r) THEN ipc_set(r, {PeerAcked}) ELSE r
  <2>1. q \in IoType
    BY IpcSetGood DEF Good, CtrlBits
  <2>2. q.irq_active = r.irq_active
    BY <1>2 DEF Good
  <2> QED
    BY <2>1, <2>2, <1>3 DEF SndAckRegs
<1>10. InitRegs(r).irq_active = r.irq_active
  BY <1>1 DEF InitRegs, Good
<1>11. /\ SendMessage(IdleRegs(r)).irq_active = r.irq_active
       /\ SendAck(IdleRegs(r)).irq_active = r.irq_active
  BY <1>2, <1>5, <1>8 DEF SendMessage, SendAck
<1> QED
  BY <1>6, <1>7, <1>8, <1>9, <1>10, <1>11 DEF BridgeSteps

LEMMA UpdatesKeepActive ==
  ASSUME NEW r, Good(r)
  PROVE  /\ r.irq_active \subseteq ipc_update_int(r).irq_active
         /\ r.irq_active \subseteq Alarm(Tick(r)).irq_active
<1> DEFINE p == IF Flagged(r.ppcctrl)
                THEN update_int(IF PpcIrq \in r.irq_active_ppc THEN r ELSE set_intr(r, PpcIrq))
                ELSE r
<1>1. p \in IoType /\ r.irq_active \subseteq p.irq_active
  BY DEF Good, IoType, set_intr, update_int, Lines
<1>2. p.irq_active \subseteq
        update_int(IF ArmIrq \in p.irq_active THEN p ELSE set_intr(p, ArmIrq)).irq_active
  <2> HIDE DEF p
  <2> QED
    BY <1>1 DEF IoType, set_intr, update_int
<1>3. r.irq_active \subseteq ipc_update_int(r).irq_active
  BY <1>1, <1>2 DEF ipc_update_int
<1>4. r.irq_active \subseteq Alarm(Tick(r)).irq_active
  BY DEF Good, IoType, Alarm, Tick, set_intr, update_int
<1> QED
  BY <1>3, <1>4

\* Only the guest's own write to 0x38 takes an active interrupt away.
THEOREM NothingLost == Spec => ActiveUntilCleared
<1> DEFINE Kept == io.irq_active \subseteq io'.irq_active
           Cleared == ClearActive(io.irq_active \ io'.irq_active)
<1>1. ASSUME Inv, Next
      PROVE  Kept \/ Cleared
  <2>g. Good(io) /\ io \in IoType
    BY <1>1 DEF Inv, Good
  <2>1. ASSUME NEW data, WritePpcCtrl(data) \/ WriteArmCtrl(data)
        PROVE  Kept
    BY <2>1, <2>g DEF WritePpcCtrl, WriteArmCtrl, PpcCtrlWrite, ArmCtrlWrite, IoType
  <2>2. ASSUME NEW v, WriteTimer(v) \/ WriteAlarm(v)
        PROVE  Kept
    BY <2>2, <2>g DEF WriteTimer, WriteAlarm, IoType
  <2>3. ASSUME NEW s, ClearPpcActive(s) \/ WriteEnabled(s)
        PROVE  Kept
    BY <2>3, <2>g DEF ClearPpcActive, WriteEnabled, update_int, IoType
  <2>4. ASSUME NEW s, ClearActive(s)
        PROVE  Cleared
    <3>1. io'.irq_active = io.irq_active \ s
      BY <2>4, <2>g DEF ClearActive, update_int, IoType
    <3>2. io.irq_active \ (io.irq_active \ io'.irq_active) = io.irq_active \ s
      BY <3>1
    <3> QED
      BY <2>4, <3>2 DEF ClearActive
  <2>5. ASSUME NEW n, DeviceIrq(n) \/ SdhcIrq(n)
        PROVE  Kept
    BY <2>5, <2>g DEF DeviceIrq, SdhcIrq, set_intr, update_int, IoType
  <2>6. CASE IoCycle
    <3> DEFINE r == Alarm(Tick(io))
    <3>1. PICK q \in BridgeSteps(ipc_update_int(r)) : io' = ipc_update_int(q)
      BY <2>6 DEF IoCycle
    <3>2. Good(r) /\ Good(ipc_update_int(r)) /\ Good(q)
      BY <2>g, <3>1, TickGood, IpcUpdateIntGood, BridgeStepsGood
    <3>3. /\ io.irq_active \subseteq r.irq_active
          /\ r.irq_active \subseteq ipc_update_int(r).irq_active
          /\ q.irq_active = ipc_update_int(r).irq_active
          /\ q.irq_active \subseteq io'.irq_active
      BY <2>g, <3>1, <3>2, UpdatesKeepActive, BridgeKeepsActive
    <3> HIDE DEF r
    <3> QED
      BY <3>3
  <2> QED
    BY <1>1, <2>1, <2>2, <2>3, <2>4, <2>5, <2>6 DEF Next, Machine, Guest
<1>2. Inv /\ [Next]_io => [Kept \/ Cleared]_io
  BY <1>1
<1> QED
  BY <1>2, Invariance, PTL DEF Spec, ActiveUntilCleared

-----------------------------------------------------------------------------
(* The SD host beside the interrupt controller.                             *)

\* A write to a register of the SD host is a device interrupt to the
\* interrupt controller, or nothing (starlet_sdhc_fire_irq calls
\* starlet_set_intr and touches nothing else of it).
LEMMA SdhcStep ==
  ASSUME SdhcWrite
  PROVE  Next \/ UNCHANGED io
<1>2. ASSUME NEW command \in Commands, WriteCommand(command)
      PROVE  Next \/ UNCHANGED io
  <2>1. CASE io' = io
    BY <2>1
  <2>2. CASE io' # io
    <3>1. io' = set_intr(io, SdhcLine)
      BY <1>2, <2>2 DEF WriteCommand, fire_irq
    <3>2. SdhcIrq(SdhcLine)
      BY <3>1 DEF SdhcIrq
    <3> QED
      BY <3>2, SdhcAssumption DEF Next
  <2> QED
    BY <2>1, <2>2
<1>3. ASSUME NEW cmd \in BOOLEAN, NEW dat \in BOOLEAN, NEW all \in BOOLEAN, Reset(cmd, dat, all)
      PROVE  UNCHANGED io
  BY <1>3 DEF Reset
<1>4. ASSUME NEW events \in SUBSET Events,
             DismissStatus(events) \/ WriteEnable(events) \/ WriteSignal(events)
      PROVE  UNCHANGED io
  BY <1>4 DEF DismissStatus, WriteEnable, WriteSignal
<1> QED
  BY <1>2, <1>3, <1>4 DEF SdhcWrite

\* Whatever order the guest writes the SD host's registers in, the machine
\* takes only steps of StarletIrq.
THEOREM SdhcImplementsIrq == SdSpec => ImplementsIrq
<1>1. SdInit => Init
  BY DEF SdInit
<1>2. [SdNext]_sdvars => [Next]_io
  <2>1. ASSUME SdhcWrite PROVE [Next]_io
    BY <2>1, SdhcStep
  <2>2. ASSUME Machine PROVE [Next]_io
    BY <2>2 DEF Next
  <2>3. ASSUME UNCHANGED sdvars PROVE [Next]_io
    BY <2>3 DEF sdvars
  <2> QED
    BY <2>1, <2>2, <2>3 DEF SdNext
<1> QED
  BY <1>1, <1>2, PTL DEF SdSpec, ImplementsIrq

\* So the CPU's interrupt input agrees with the controller while the SD host
\* runs, and is late for its line only.
THEOREM SdhcLineAgreement == SdSpec => []LineAgrees
<1>1. Init => Inv
  BY InitGood DEF Inv
<1>2. Inv /\ [Next]_io => Inv'
  BY NextGood DEF Inv
<1>3. Inv => LineAgrees
  BY DEF Inv, Good, LineAgrees
<1> QED
  BY <1>1, <1>2, <1>3, SdhcImplementsIrq, PTL DEF ImplementsIrq

-----------------------------------------------------------------------------
(***************************************************************************)
(* Completions.  What makes CompletionsPosted inductive is where the       *)
(* command register stands between two writes: at 0 before the first use,  *)
(* at the marker ever after.                                               *)
(***************************************************************************)
SdhcType ==
  [command : 0..63 \cup {Marker}, irq_status : SUBSET Events, irq_enable : SUBSET Events,
   irq_signal : SUBSET Events, app_cmd : BOOLEAN]

SdInv ==
  /\ sdhc \in SdhcType
  /\ used \in BOOLEAN
  /\ sdhc.command = IF used THEN Marker ELSE 0
  /\ sdhc.irq_status = owed

LEMMA MarkerIsNoCommand == Marker \notin 0..63
  BY DEF Marker

LEMMA CompletionsAreEvents ==
  ASSUME NEW command, NEW app
  PROVE  Completions(command, app) \subseteq Events
  BY DEF Completions, Events

LEMMA SdInvStep ==
  ASSUME SdInv, [SdNext]_sdvars
  PROVE  SdInv'
<1>1. ASSUME NEW command \in Commands, WriteCommand(command)
      PROVE  SdInv'
  <2> DEFINE events == Completions(command, sdhc.app_cmd)
  <2>1. events \subseteq Events /\ command \in 0..63 /\ command # Marker
    BY CompletionsAreEvents, SdhcAssumption, MarkerIsNoCommand
  <2>w. /\ IF sdhc.command = command
            THEN UNCHANGED <<io, sdhc>>
            ELSE sdhc' = Executed([sdhc EXCEPT !.command = command], events)
        /\ used' = (used \/ command # 0)
        /\ owed' = IF used' THEN owed \cup (events \cap sdhc.irq_enable) ELSE owed
    BY <1>1 DEF WriteCommand
  <2> HIDE DEF events
  <2>2. CASE sdhc.command = command
    BY <2>1, <2>2, <2>w DEF SdInv
  <2>3. CASE sdhc.command # command
    <3>1. used'
      BY <2>3, <2>w DEF SdInv
    <3>2. sdhc' = [sdhc EXCEPT !.irq_status = @ \cup (sdhc.irq_enable \cap events),
                               !.app_cmd = command = APP_CMD /\ ~sdhc.app_cmd,
                               !.command = Marker]
      BY <2>3, <2>w DEF Executed, SdInv, SdhcType
    <3>3. sdhc' \in SdhcType
      BY <3>2, <2>1 DEF SdInv, SdhcType
    <3>4. sdhc'.command = Marker /\ sdhc'.irq_status = owed'
      BY <3>1, <3>2, <2>w DEF SdInv, SdhcType
    <3> QED
      BY <3>1, <3>3, <3>4, <2>w DEF SdInv
  <2> QED
    BY <2>2, <2>3
<1>2. ASSUME NEW cmd \in BOOLEAN, NEW dat \in BOOLEAN, NEW all \in BOOLEAN, Reset(cmd, dat, all)
      PROVE  SdInv'
  BY <1>2 DEF Reset, SdInv, SdhcType
<1>3. ASSUME NEW events \in SUBSET Events, DismissStatus(events)
      PROVE  SdInv'
  BY <1>3 DEF DismissStatus, SdInv, SdhcType
<1>4. ASSUME NEW events \in SUBSET Events, WriteEnable(events) \/ WriteSignal(events)
      PROVE  SdInv'
  BY <1>4 DEF WriteEnable, WriteSignal, SdInv, SdhcType
<1>5. CASE UNCHANGED <<sdhc, owed, used>>
  BY <1>5 DEF SdInv
<1> QED
  BY <1>1, <1>2, <1>3, <1>4, <1>5 DEF SdNext, SdhcWrite, sdvars

\* The status register shows exactly the completions the guest is owed: no
\* command of starlet_sdhc_exec is missed after the first, not even one that
\* repeats the last.
THEOREM SdhcCompletions == SdSpec => []CompletionsPosted
<1>1. SdInit => SdInv
  <2> SUFFICES ASSUME SdInit PROVE SdInv
    OBVIOUS
  <2>1. sdhc \in SdhcType /\ sdhc.command = 0 /\ sdhc.irq_status = owed
    BY DEF SdInit, SdhcType
  <2>2. used \in BOOLEAN /\ ~used
    BY Zenon DEF SdInit
  <2> QED
    BY <2>1, <2>2, Zenon DEF SdInv
<1>2. SdInv /\ [SdNext]_sdvars => SdInv'
  BY SdInvStep
<1>3. SdInv => CompletionsPosted
  BY DEF SdInv, CompletionsPosted
<1> QED
  BY <1>1, <1>2, <1>3, PTL DEF SdSpec
=============================================================================
