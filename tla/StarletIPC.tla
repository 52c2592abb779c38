----------------------------- MODULE StarletIPC -----------------------------
(***************************************************************************)
(* A client script (src/ipc/ipc.py) calls the IOS kernel that runs inside  *)
(* the emulator.  Four parties take steps in any order:                    *)
(*                                                                         *)
(*   - the client process: SkyeyeProtocol and the requests of SkyeyeIPC;   *)
(*   - the Unix socket: one pair of FIFO channels per connection;          *)
(*   - the bridge: one pass of starlet_do_ipc per starlet_io_do_cycle,     *)
(*     which runs between two guest instructions, once in DIVISOR + 1;     *)
(*   - the guest: IOS and its mailbox driver.  It is not part of the       *)
(*     repository; its steps are the ones the registers let a driver make. *)
(*                                                                         *)
(* A request is a block of guest memory (a slot): the client writes it,    *)
(* sends its address, and reads the result from it after the reply.        *)
(***************************************************************************)
EXTENDS StarletMailbox, Sequences, FiniteSets

CONSTANTS
  Slots,            \* addresses of request blocks, in the allocator's order
  MaxReq,           \* requests the clients issue in all
  MaxOutstanding,   \* requests a client leaves unanswered: 1 for sync() and launchbc.py
  MaxConn,          \* connections, one after the other
  MaxReload,        \* times IOS reboots into another IOS
  MaxFlips,         \* times the guest stops or starts the PowerPC
  SigPipeIgnored,   \* is SIGPIPE ignored?  only under the gdb server
  MayExit           \* may a client send MSG_EXIT?

ASSUME SlotsAssumption == Slots \subseteq Nat \ {0}
ASSUME BoundsAssumption ==
  /\ MaxReq \in Nat /\ MaxOutstanding \in Nat /\ MaxConn \in Nat
  /\ MaxReload \in Nat /\ MaxFlips \in Nat
ASSUME FlagsAssumption == SigPipeIgnored \in BOOLEAN /\ MayExit \in BOOLEAN

VARIABLES
  io,       \* the registers
  mem,      \* the request block at each slot
  bridge,   \* ipcs, the connection it serves, last_ppc_state, did it exit
  guest,    \* pc of the driver, the register it read, requests it works on
  net,      \* per connection: is the client's end up, and the two channels
  client,   \* its connection, phase, outstanding requests, readmem stack, acks
  hist      \* requests issued, taken by IOS, results the client got, reloads,
            \* and the races met so far

vars == <<io, mem, bridge, guest, net, client, hist>>

-----------------------------------------------------------------------------
(* Messages and request blocks.                                             *)

Ids   == 1..MaxReq
Conns == 1..MaxConn
Nothing == [what |-> "none", id |-> 0]
Request(i) == [what |-> "req", id |-> i]
Result(i)  == [what |-> "res", id |-> i]
Blocks == {Nothing} \cup {Request(i) : i \in Ids} \cup {Result(i) : i \in Ids}

Msg(m, a, b) == [msg |-> m, arg |-> a, buf |-> b]
MESSAGE(a)  == Msg("MESSAGE", a, Nothing)
ACK         == Msg("ACK", 0, Nothing)
STATUS(s)   == Msg("STATUS", s, Nothing)
READ(a, b)  == Msg("READ", a, b)
WRITE(a, b) == Msg("WRITE", a, b)
EXIT        == Msg("EXIT", 0, Nothing)

Fresh == [s \in Slots |-> 0]    \* no slot belongs to a request

Init ==
  /\ io = [ppcctrl |-> {}, armctrl |-> {}, ppcmsg |-> 0, armmsg |-> 0,
           irq_active |-> {}, irq_active_ppc |-> {}, irq_enabled |-> {}, irqLow |-> FALSE,
           ppc_running |-> 0]
  /\ mem = [s \in Slots |-> Nothing]
  /\ bridge = [ipcs |-> "INIT", bsock |-> 0, last |-> 0, exited |-> FALSE]
  /\ guest = [pc |-> "boot", ctrl |-> {}, todo |-> {}]
  /\ net = [up |-> [k \in Conns |-> "no"], c2s |-> [k \in Conns |-> <<>>],
            s2c |-> [k \in Conns |-> <<>>]]
  /\ client = [conn |-> 0, phase |-> "off", requests |-> Fresh, stack |-> <<>>,
               acks |-> 0, ppcstat |-> 0]
  /\ hist = [issued |-> 0, taken |-> <<>>, results |-> [i \in Ids |-> Nothing],
             reloads |-> 0, launched |-> 0, flips |-> 0, races |-> {}]

-----------------------------------------------------------------------------
(***************************************************************************)
(* The bridge.  Every pass is wrapped in two calls of ipc_update_int.  A   *)
(* send to a client that has gone fails with EPIPE; unless SIGPIPE is      *)
(* ignored the signal ends the emulator before the error is seen.          *)
(***************************************************************************)
Entry == ipc_update_int(io)
Leave(r) == io' = ipc_update_int(r)

Up(k) == net.up[k] = "up"
Enqueue(n, k, out) == [n EXCEPT !.s2c[k] = @ \o out]

CloseBsock == [bridge EXCEPT !.ipcs = "ACCEPT"]
SendFailed == IF SigPipeIgnored THEN CloseBsock ELSE [bridge EXCEPT !.exited = TRUE]

PassInit ==
  /\ bridge.ipcs = "INIT"
  /\ bridge' = [bridge EXCEPT !.ipcs = "ACCEPT"]
  /\ Leave(InitRegs(Entry))
  /\ UNCHANGED <<mem, guest, net, client, hist>>

\* accept() returns EAGAIN
AcceptNone ==
  /\ bridge.ipcs = "ACCEPT"
  /\ \A k \in Conns : k > bridge.bsock => net.up[k] = "no"
  /\ Leave(Entry)
  /\ UNCHANGED <<mem, bridge, guest, net, client, hist>>

\* Slip: last_ppc_state is left over from the connection before.
AcceptClient_StaleLast(k) ==
  /\ bridge.ipcs = "ACCEPT"
  /\ k = bridge.bsock + 1
  /\ net.up[k] # "no"
  /\ IF Up(k)
     THEN /\ net' = Enqueue(net, k, <<STATUS(io.ppc_running)>>)
          /\ bridge' = [bridge EXCEPT !.ipcs = "IDLE", !.bsock = k]
     ELSE /\ bridge' = [SendFailed EXCEPT !.bsock = k]
          /\ UNCHANGED net
  /\ Leave(Entry)
  /\ UNCHANGED <<mem, guest, client, hist>>

AcceptClient(k) ==
  /\ bridge.ipcs = "ACCEPT"
  /\ k = bridge.bsock + 1
  /\ net.up[k] # "no"
  /\ IF Up(k)
     THEN /\ net' = Enqueue(net, k, <<STATUS(io.ppc_running)>>)
          /\ bridge' = [bridge EXCEPT !.ipcs = "IDLE", !.bsock = k, !.last = io.ppc_running]
     ELSE /\ bridge' = [SendFailed EXCEPT !.bsock = k]
          /\ UNCHANGED net
  /\ Leave(Entry)
  /\ UNCHANGED <<mem, guest, client, hist>>

\* Slip: an extra acknowledgement is taken and not forwarded.
Forwarded_NoAck(r) == IF NewMessage(r) THEN <<MESSAGE(r.armmsg)>> ELSE <<>>

\* What the bridge forwards from the mailbox when it is idle.
Forwarded(r) ==
  (IF ExtraAck(r) THEN <<ACK>> ELSE <<>>) \o (IF NewMessage(r) THEN <<MESSAGE(r.armmsg)>> ELSE <<>>)

\* Forwarding fails: the flag is already consumed, interrupt 30 stays raised.
IdleForwardFails ==
  /\ bridge.ipcs = "IDLE"
  /\ ~Up(bridge.bsock)
  /\ Forwarded(Entry) # <<>>
  /\ bridge' = SendFailed
  /\ Leave(TakeMessage(Entry))
  /\ UNCHANGED <<mem, guest, net, client, hist>>

\* The peer closed the socket, and recv reports end of file or a reset.
IdleHangup ==
  /\ bridge.ipcs = "IDLE"
  /\ ~Up(bridge.bsock)
  /\ Forwarded(Entry) = <<>>
  /\ bridge' = CloseBsock
  /\ Leave(IdleRegs(Entry))
  /\ UNCHANGED <<mem, guest, net, client, hist>>

\* One message from the client, by its type: the registers, memory, the reply.
Serve(r, m) == CASE m.msg = "MESSAGE" -> SendMessage([r EXCEPT !.ppcmsg = m.arg])
                 [] m.msg = "ACK"     -> SendAck(r)
                 [] OTHER             -> r
Stored(m)   == IF m.msg = "WRITE" THEN [mem EXCEPT ![m.arg] = m.buf] ELSE mem
Answer(m)   == IF m.msg = "READ" THEN <<READ(m.arg, mem[m.arg])>> ELSE <<>>
StatusChange == IF io.ppc_running # bridge.last THEN <<STATUS(io.ppc_running)>> ELSE <<>>

\* Nothing to receive: forward, and report a change of the PowerPC's state.
IdleQuiet ==
  /\ bridge.ipcs = "IDLE"
  /\ Up(bridge.bsock)
  /\ net.c2s[bridge.bsock] = <<>>
  /\ net' = Enqueue(net, bridge.bsock, Forwarded(Entry) \o StatusChange)
  /\ bridge' = [bridge EXCEPT !.last = io.ppc_running]
  /\ Leave(IdleRegs(Entry))
  /\ UNCHANGED <<mem, guest, client, hist>>

\* Slip: the socket is served before the mailbox is looked at.
IdleServe_SocketFirst ==
  LET k == bridge.bsock
      m == Head(net.c2s[k])
  IN /\ bridge.ipcs = "IDLE"
     /\ net.c2s[k] # <<>>
     /\ Up(k)
     /\ mem' = Stored(m)
     /\ bridge' = [bridge EXCEPT !.ipcs = IF m.msg = "MESSAGE" THEN "SNDACK" ELSE "IDLE"]
     /\ net' = Enqueue([net EXCEPT !.c2s[k] = Tail(@)], k, Answer(m))
     /\ Leave(Serve(Entry, m))
     /\ UNCHANGED <<guest, client, hist>>

\* Forward, serve one message, report.  A failed send closes the socket even
\* when the message has just moved the bridge to SNDACK.
IdleServe ==
  LET k   == bridge.bsock
      m   == Head(net.c2s[k])
      out == IF m.msg = "EXIT" THEN <<>> ELSE Answer(m) \o StatusChange
  IN /\ bridge.ipcs = "IDLE"
     /\ net.c2s[k] # <<>>
     /\ Up(k) \/ Forwarded(Entry) = <<>>
     /\ mem' = Stored(m)
     /\ bridge' =
          IF m.msg = "EXIT" THEN [bridge EXCEPT !.exited = TRUE]
          ELSE IF ~Up(k) /\ out # <<>> THEN SendFailed
          ELSE [bridge EXCEPT !.ipcs = IF m.msg = "MESSAGE" THEN "SNDACK" ELSE "IDLE",
                              !.last = io.ppc_running]
     /\ net' = LET rest == [net EXCEPT !.c2s[k] = Tail(@)]
               IN  IF Up(k) THEN Enqueue(rest, k, Forwarded(Entry) \o out) ELSE rest
     /\ Leave(Serve(IdleRegs(Entry), m))
     /\ UNCHANGED <<guest, client, hist>>

\* Slips: the bridge does not wait; it gives up when the script has gone; it
\* notes the PowerPC's state without reporting it.
PassSndAck_NoWait ==
  /\ bridge.ipcs = "SNDACK"
  /\ bridge' = [bridge EXCEPT !.ipcs = "IDLE"]
  /\ Leave(SndAckRegs(Entry))
  /\ UNCHANGED <<mem, guest, net, client, hist>>
PassSndAck_GivesUp ==
  /\ bridge.ipcs = "SNDACK"
  /\ bridge' = IF ~Up(bridge.bsock) THEN CloseBsock
               ELSE [bridge EXCEPT !.ipcs = IF GotAck(Entry) THEN "IDLE" ELSE "SNDACK"]
  /\ Leave(SndAckRegs(Entry))
  /\ UNCHANGED <<mem, guest, net, client, hist>>

PassSndAck_NotesState ==
  /\ bridge.ipcs = "SNDACK"
  /\ bridge' = [bridge EXCEPT !.ipcs = IF GotAck(Entry) THEN "IDLE" ELSE "SNDACK",
                              !.last = io.ppc_running]
  /\ Leave(SndAckRegs(Entry))
  /\ UNCHANGED <<mem, guest, net, client, hist>>

\* Waiting for the guest to acknowledge: the socket is not looked at.
PassSndAck ==
  /\ bridge.ipcs = "SNDACK"
  /\ bridge' = [bridge EXCEPT !.ipcs = IF GotAck(Entry) THEN "IDLE" ELSE "SNDACK"]
  /\ Leave(SndAckRegs(Entry))
  /\ UNCHANGED <<mem, guest, net, client, hist>>

IoCycle ==
  \/ PassInit \/ AcceptNone \/ (\E k \in Conns : AcceptClient(k))
  \/ IdleForwardFails \/ IdleHangup \/ IdleQuiet \/ IdleServe
  \/ PassSndAck

-----------------------------------------------------------------------------
(***************************************************************************)
(* The guest, external to the repository: an interrupt-driven driver that  *)
(* keeps its own outstanding flags when it writes the control register,    *)
(* and that starts a message or an extra acknowledgement only when it has  *)
(* none outstanding.  The register read and the register write of the      *)
(* interrupt handler are separate steps: a bridge pass may come between.   *)
(***************************************************************************)
Idle(r) == r.armctrl \cap {Sent, Acked} = {}

GuestBoot ==
  /\ guest.pc = "boot"
  /\ guest' = [guest EXCEPT !.pc = "run"]
  /\ io' = [ArmCtrlWrite(io, Latched \cup Irqs)
              EXCEPT !.irq_enabled = {ArmIrq}, !.ppc_running = 1]
  /\ UNCHANGED <<mem, bridge, net, client, hist>>

GuestIrq ==
  /\ guest.pc = "run"
  /\ io.irqLow
  /\ guest' = [guest EXCEPT !.pc = "irq", !.ctrl = io.armctrl]
  /\ UNCHANGED <<io, mem, bridge, net, client, hist>>

\* Take the message, acknowledge it, drop the peer's acknowledgement.
GuestHandle ==
  LET got  == PeerSent \in guest.ctrl
      data == (guest.ctrl \cap {Sent, Acked, PeerSent, PeerAcked}) \cup Irqs
                \cup (IF got THEN {Acked} ELSE {})
      work == [slot |-> io.ppcmsg, id |-> mem[io.ppcmsg].id]
  IN /\ guest.pc = "irq"
     /\ io' = IF guest.ctrl \cap Latched = {} THEN io ELSE ArmCtrlWrite(io, data)
     /\ guest' = [guest EXCEPT !.pc = "eoi", !.ctrl = {},
                               !.todo = IF got THEN @ \cup {work} ELSE @]
     /\ hist' = [hist EXCEPT
          !.taken = IF got THEN Append(@, mem[io.ppcmsg]) ELSE @,
          !.races = @ \cup (IF Sent \in data \ io.armctrl THEN {"resent"} ELSE {})
                      \cup (IF Acked \in guest.ctrl \ io.armctrl THEN {"reacked"} ELSE {})]
     /\ UNCHANGED <<mem, bridge, net, client>>

GuestEoi ==
  /\ guest.pc = "eoi"
  /\ guest' = [guest EXCEPT !.pc = "run"]
  /\ io' = update_int([io EXCEPT !.irq_active = @ \ {ArmIrq}])
  /\ UNCHANGED <<mem, bridge, net, client, hist>>

GuestReply(w) ==
  /\ guest.pc = "run"
  /\ Idle(io)
  /\ mem' = [mem EXCEPT ![w.slot] = Result(w.id)]
  /\ io' = ArmCtrlWrite([io EXCEPT !.armmsg = w.slot], Irqs \cup {Sent})
  /\ guest' = [guest EXCEPT !.todo = @ \ {w}]
  /\ UNCHANGED <<bridge, net, client, hist>>

\* IOS reboots instead of replying, and says so with an acknowledgement.
GuestReload ==
  /\ guest.pc = "run"
  /\ guest.todo # {}
  /\ Idle(io)
  /\ hist.reloads < MaxReload
  /\ io' = ArmCtrlWrite(io, Irqs \cup {Acked})
  /\ guest' = [guest EXCEPT !.todo = {}]
  /\ hist' = [hist EXCEPT !.reloads = @ + 1]
  /\ UNCHANGED <<mem, bridge, net, client>>

\* The reset register: the PowerPC runs when both its bits are set.
GuestFlipPpc ==
  /\ guest.pc = "run"
  /\ hist.flips < MaxFlips
  /\ io' = [io EXCEPT !.ppc_running = 1 - @]
  /\ hist' = [hist EXCEPT !.flips = @ + 1]
  /\ UNCHANGED <<mem, bridge, guest, net, client>>

GuestDriver == GuestBoot \/ GuestIrq \/ GuestHandle \/ GuestEoi
GuestWork   == \E w \in guest.todo : GuestReply(w)

-----------------------------------------------------------------------------
(* The client.                                                              *)

Outstanding == {s \in Slots : client.requests[s] # 0}
Send(k, out) == [net EXCEPT !.c2s[k] = @ \o out]

\* A new script: the listening socket exists and the last script has ended.
Connect ==
  /\ client.phase = "off"
  /\ client.conn < MaxConn
  /\ bridge.ipcs # "INIT"
  /\ client' = [client EXCEPT !.conn = @ + 1, !.phase = "init", !.requests = Fresh,
                              !.stack = <<>>, !.acks = 0, !.ppcstat = 0]
  /\ net' = [net EXCEPT !.up[client.conn + 1] = "up"]
  /\ hist' = [hist EXCEPT !.races = @ \cup (IF Outstanding = {} THEN {} ELSE {"orphan"})]
  /\ UNCHANGED <<io, mem, bridge, guest>>

\* async(): allocate the first free block, write the request, send its address.
Issue ==
  /\ client.phase = "ready"
  /\ client.stack = <<>>
  /\ client.acks = 0
  /\ hist.issued < MaxReq
  /\ Cardinality(Outstanding) < MaxOutstanding
  /\ \E s \in Slots \ Outstanding :
       /\ \A t \in Slots \ Outstanding : s <= t
       /\ client' = [client EXCEPT !.requests[s] = hist.issued + 1]
       /\ net' = Send(client.conn, <<WRITE(s, Request(hist.issued + 1)), MESSAGE(s)>>)
  /\ hist' = [hist EXCEPT !.issued = @ + 1]
  /\ UNCHANGED <<io, mem, bridge, guest>>

\* waitppc() looks at ppcstat again when processmsg() has returned to it, which
\* it has not while a readmem() is waiting further down.
Waited(c) ==
  [c EXCEPT !.phase = IF c.stack # <<>> THEN @
                      ELSE IF @ = "waitdead" /\ c.ppcstat = 0 THEN "waitalive"
                      ELSE IF @ = "waitalive" /\ c.ppcstat = 1 THEN "ready" ELSE @]

\* launchbc.py: wait until the PowerPC has been stopped and started again, with
\* the asynchronous launch request outstanding; or between two calls.
WaitPpc ==
  /\ client.phase = "ready"
  /\ client.stack = <<>>
  /\ client.acks = 0
  /\ hist.flips < MaxFlips
  /\ client' = Waited([client EXCEPT !.phase = "waitdead"])
  /\ UNCHANGED <<io, mem, bridge, guest, net, hist>>

\* Slip: the answer is taken to belong to the oldest request.
FinishReads_Oldest(buf) ==
  LET live == {i \in Ids : \E s \in Slots : client.requests[s] = i}
      old  == CHOOSE i \in live : \A j \in live : i <= j
  IN /\ client.stack # <<>>
     /\ client' = [client EXCEPT !.stack = <<>>,
                     !.requests = [s \in Slots |-> IF @[s] = old THEN 0 ELSE @[s]]]
     /\ hist' = [hist EXCEPT !.results[old] = buf]

\* readmem() returns in every frame of the stack, each with the same readbuf:
\* every reply being read completes, and its block is freed.
FinishReads(buf) ==
  LET done == {client.stack[i] : i \in 1..Len(client.stack)}
  IN /\ client' = Waited([client EXCEPT !.stack = <<>>,
                     !.requests = [s \in Slots |-> IF s \in done THEN 0 ELSE @[s]]])
     /\ hist' = [hist EXCEPT !.results =
                   [i \in Ids |-> IF \E s \in done : client.requests[s] = i THEN buf ELSE @[i]]]

\* processmsg() on each type of message; a reply to a request reads its result.
ProcessMsg ==
  LET k == client.conn
      m == Head(net.s2c[k])
      rest == [net EXCEPT !.s2c[k] = Tail(@)]
  IN /\ client.phase \in {"init", "waitdead", "waitalive"} \/ Outstanding # {}
     /\ net.s2c[k] # <<>>
     /\ \/ /\ m.msg = "STATUS"
           /\ client' = Waited([client EXCEPT !.ppcstat = m.arg,
                                       !.phase = IF @ = "init" /\ m.arg = 1
                                                   THEN "ready" ELSE @])
           /\ net' = IF client.phase = "init" /\ m.arg = 1
                     THEN [rest EXCEPT !.c2s[k] = Append(@, ACK)] ELSE rest
           /\ UNCHANGED hist
        \/ /\ m.msg = "ACK"
           /\ client' = [client EXCEPT !.acks = @ + 1]
           /\ net' = rest
           /\ UNCHANGED hist
        \/ /\ m.msg = "MESSAGE"
           /\ IF m.arg \in Outstanding
              THEN /\ client' = [client EXCEPT !.stack = Append(@, m.arg)]
                   /\ net' = [rest EXCEPT !.c2s[k] = Append(@, READ(m.arg, Nothing))]
                   /\ hist' = [hist EXCEPT !.races = @ \cup (IF client.stack = <<>> THEN {} ELSE {"nested"})]
              ELSE /\ UNCHANGED <<client, hist>>
                   /\ net' = rest
        \/ /\ m.msg = "READ"
           /\ FinishReads(m.buf)
           /\ net' = rest
     /\ UNCHANGED <<io, mem, bridge, guest>>

\* launchios.py: the acknowledgement says that IOS rebooted; acknowledge back.
Launched ==
  /\ client.phase = "ready"
  /\ client.stack = <<>>
  /\ client.acks > 0
  /\ client' = [client EXCEPT !.acks = 0, !.requests = Fresh]
  /\ net' = Send(client.conn, <<ACK>>)
  /\ hist' = [hist EXCEPT !.launched = @ + 1]
  /\ UNCHANGED <<io, mem, bridge, guest>>

\* The script ends, wherever it is; what was sent to it is lost with it.
Disconnect ==
  /\ client.phase # "off"
  /\ client.conn < MaxConn
  /\ client' = [client EXCEPT !.phase = "off"]
  /\ net' = [net EXCEPT !.up[client.conn] = "closed", !.s2c[client.conn] = <<>>]
  /\ UNCHANGED <<io, mem, bridge, guest, hist>>

Exit ==
  /\ MayExit
  /\ client.phase = "ready"
  /\ client.stack = <<>>
  /\ client' = [client EXCEPT !.phase = "leaving"]
  /\ net' = Send(client.conn, <<EXIT>>)
  /\ UNCHANGED <<io, mem, bridge, guest, hist>>

\* Once the emulator has exited nothing is left to happen.
Next ==
  /\ ~bridge.exited
  /\ \/ IoCycle
     \/ GuestDriver \/ GuestWork \/ GuestReload \/ GuestFlipPpc
     \/ Connect \/ Issue \/ WaitPpc \/ ProcessMsg \/ Launched \/ Disconnect \/ Exit

(***************************************************************************)
(* The emulator's loop reaches io_do_cycle after every instruction, and    *)
(* the guest's instructions are executed one after the other, so the       *)
(* bridge, the driver and the work IOS has accepted all make progress.  A  *)
(* client that waits is blocked in recv and runs when data arrives.  That  *)
(* a script issues, reloads, connects or ends is nobody's obligation.      *)
(***************************************************************************)
Fairness ==
  /\ WF_vars(~bridge.exited /\ IoCycle)
  /\ WF_vars(~bridge.exited /\ GuestDriver)
  /\ WF_vars(~bridge.exited /\ GuestWork)
  /\ WF_vars(~bridge.exited /\ ProcessMsg)
  /\ WF_vars(~bridge.exited /\ Launched)

Spec == Init /\ [][Next]_vars /\ Fairness

-----------------------------------------------------------------------------
(* Properties.                                                              *)

Pending(k, type) == {i \in DOMAIN net.s2c[k] : net.s2c[k][i].msg = type}

\* Until it reboots, IOS takes every request once, in the order the scripts
\* issued them, and finds the request block already written when it takes its
\* address: the bridge serves MSG_WRITE and MSG_MESSAGE one per pass and waits
\* in SNDACK.  Two things spoil it: a script that died with a request
\* outstanding, for the next one, whose heap starts at the same addresses; and
\* a reply that was sent twice, on which a script frees a block that IOS still
\* has to answer.
TakenInOrder ==
  hist.reloads = 0 /\ hist.races \cap {"orphan", "resent"} = {} =>
    \A i \in DOMAIN hist.taken : hist.taken[i] = Request(i) /\ i <= hist.issued

\* While the bridge waits in SNDACK, deaf to the socket, the acknowledgement it
\* waits for can still come: the guest has yet to see the message, or has
\* acknowledged it.
AckOwed ==
  bridge.ipcs = "SNDACK" => PeerSent \in io.armctrl \/ PeerAcked \in io.ppcctrl

\* A script told of an acknowledgement is told of a reboot of IOS
\* (launchios.py: "ack means IOS rebooted"): the acknowledgement of a message
\* is never forwarded, and one reboot is reported once, unless the driver's
\* write to the control register repeats an Acked flag the bridge took meanwhile.
AckMeansReload ==
  client.conn > 0 /\ "reacked" \notin hist.races =>
    hist.launched + client.acks + Cardinality(Pending(client.conn, "ACK")) <= hist.reloads

MessageTaken == PeerSent \in io.ppcctrl /\ PeerSent \notin io'.ppcctrl
MessageForwarded ==
  \E k \in Conns : Cardinality(Pending(k, "MESSAGE")') > Cardinality(Pending(k, "MESSAGE"))

\* A message of the guest leaves the mailbox only towards the script, except
\* where it crosses a message of the script (the write with which the bridge
\* takes the acknowledgement in SNDACK consumes it unread) and where the script
\* it is for has gone.
LostOnlyAtCrossing ==
  [][MessageTaken => \/ MessageForwarded
                     \/ bridge.ipcs = "SNDACK" /\ bridge'.ipcs = "IDLE"
                     \/ bridge.bsock > 0 /\ net.up[bridge.bsock] = "closed"]_vars

\* The script's picture of the PowerPC is the bridge's, give or take the STATUS
\* messages in flight, on every connection from its first message on.
StatusKnown ==
  LET k == bridge.bsock
      sent == Pending(k, "STATUS")
      known == IF sent = {} THEN client.ppcstat
               ELSE net.s2c[k][CHOOSE i \in sent : \A j \in sent : j <= i].arg
  IN bridge.ipcs \in {"IDLE", "SNDACK"} /\ client.conn = k /\ client.phase # "off"
       => known = bridge.last

\* Until IOS reboots, a script with several requests outstanding is given
\* another request's result, or none at all, only by one of three races: a
\* readmem() that runs inside another shares its readbuf, a driver whose write
\* to the control register repeats a Sent flag the bridge took meanwhile sends a
\* reply twice, and IOS still works on a request that a dead script left behind.
OwnUnlessRaced ==
  hist.reloads = 0 /\ hist.races = {} =>
    \A i \in Ids : hist.results[i] \in {Nothing, Result(i)}

\* launchbc.py, with its launch request outstanding, does not wait for ever for
\* a state the PowerPC has settled in, although the bridge says nothing while it
\* waits in SNDACK.  It may well miss a state that comes and goes in that time:
\* the bridge reports the state as it is then, not every change.
WaitEnds ==
  /\ []<>(client.phase # "waitdead" \/ io.ppc_running # 0)
  /\ []<>(client.phase # "waitalive" \/ io.ppc_running # 1)

(***************************************************************************)
(* A script that makes one request at a time, with sync() or with async()  *)
(* and a wait for the PowerPC, sees remote procedure calls: each is        *)
(* accepted once, served, and returns its own result; and it does return,  *)
(* or the script learns that IOS has rebooted.                             *)
(***************************************************************************)
CallPhase ==
  LET n == hist.issued
  IN  IF Outstanding = {} THEN "returned"
      ELSE IF \E s \in Slots : mem[s] = Result(n) THEN "served"
      ELSE IF Len(hist.taken) < n THEN "called"
      ELSE IF guest.todo = {} THEN "rebooted"
      ELSE "accepted"

RC == INSTANCE RemoteCall
        WITH MaxCalls <- MaxReq, None <- Nothing, Res <- Result,
             calls <- hist.issued, phase <- CallPhase, results <- hist.results,
             busy <- client.phase \in {"waitdead", "waitalive"}

\* The bridge, the mailbox and the client together implement RemoteCall.  The
\* acknowledgement with which IOS announces a reboot is not swallowed as the one
\* the bridge waits for in SNDACK, and a reply does not pass for a reboot.
ImplementsRemoteCall == RC!Spec
=============================================================================
