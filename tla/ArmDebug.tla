------------------------------ MODULE ArmDebug ------------------------------
(***************************************************************************)
(* The three stage pipeline of the ARM interpreter (the loop of            *)
(* ARMul_Emulate32 in armemu.c) under the control of the gdb remote server *)
(* (utils/debugger): breakpoints, stepping, Ctrl-C, and the aborts of      *)
(* instruction fetches, which are noticed when a word is loaded and taken  *)
(* when it is executed.                                                    *)
(*                                                                         *)
(* An address counts instructions.  An instruction is abstracted to what   *)
(* it does to the program counter: it falls through ("op", "remap"), jumps *)
(* ("jump"), enters an exception ("swi") or returns from one ("ret").  The *)
(* word "abortword" is ARMul_ABORTWORD, SWI -1: what a failed fetch leaves *)
(* in the pipeline, and also an instruction a program may contain.         *)
(***************************************************************************)
EXTENDS Integers, Sequences, FiniteSets, SequencesExt

CONSTANTS Prog,              \* Prog[a]: the instruction word at address a
          Target,            \* where "jump" goes
          Remapped,          \* the address "remap" maps or unmaps
          IrqVector, SwiVector, AbortVector,
          BpAddrs,           \* addresses gdb sets breakpoints at
          PcValues,          \* values gdb writes to the program counter
          MAX_BREAKPOINTS,
          MaxDepth           \* bound: nested exceptions

Addr == DOMAIN Prog
Kinds == {"op", "remap", "jump", "ret", "swi", "abortword"}

ASSUME DebugAssumption ==
    /\ \A a \in Addr : Prog[a] \in Kinds
    /\ Target \in Nat /\ IrqVector \in Nat /\ SwiVector \in Nat /\ AbortVector \in Nat
    /\ PcValues \subseteq Nat /\ MAX_BREAKPOINTS \in Nat

VARIABLES cpu,      \* the ARMul_State fields the loop reads and writes
          lr,       \* the banked return addresses and I flags, innermost last
          irq,      \* the interrupt line, which the devices drive
          bad,      \* addresses whose fetch aborts
          loc,      \* "gdb": at the gdb prompt, else in "run" or "step"
          bps,      \* skyeye_ice.bps, up to num_bps
          gdb,      \* history: the breakpoints gdb knows of, and inherited
          want,     \* history: the address the program must execute next
          ran,      \* history: the last instruction executed
          stop      \* history: why the last run ended, and what it executed

vars == <<cpu, lr, irq, bad, loc, bps, gdb, want, ran, stop>>

NoAbort == -1                               \* state->AbortAddr == 1

-----------------------------------------------------------------------------
(***************************************************************************)
(* The pipeline.                                                           *)
(***************************************************************************)
\* ARMul_ReLoadInstr: a slot of the pipeline; failed is a history variable.
Slot(a) == [addr |-> a, failed |-> a \in bad \/ a \notin Addr,
            word |-> IF a \in bad \/ a \notin Addr THEN "abortword" ELSE Prog[a]]

\* ARMul_PREFETCHABORT: only the first failure since the last reload counts.
Recorded(abortAddr, slot) ==
    IF slot.failed /\ abortAddr = NoAbort THEN slot.addr ELSE abortAddr

\* SEQ and NONSEQ, and PCINCEDSEQ and PCINCEDNONSEQ when inc is 0.
Advanced(inc) ==
    LET new == Slot(cpu.pc + 3)
    IN [cpu EXCEPT !.next = "SEQ", !.r15 = @ + inc, !.pc = @ + 1,
                   !.instr = cpu.decoded, !.decoded = cpu.loaded,
                   !.loaded = new, !.abortAddr = Recorded(@, new)]

\* Slip for mutation: a reload forgets to reset AbortAddr.
Reloaded_KeepsAbort ==
    LET a == cpu.r15
    IN [cpu EXCEPT !.next = "SEQ", !.r15 = a + 2, !.pc = a,
                   !.instr = Slot(a), !.decoded = Slot(a + 1),
                   !.loaded = Slot(a + 2),
                   !.abortAddr = Recorded(Recorded(Recorded(@, Slot(a)),
                                                   Slot(a + 1)), Slot(a + 2))]

\* RESUME and PRIMEPIPE: the program counter has been changed.
Reloaded ==
    LET a == cpu.r15
    IN [cpu EXCEPT !.next = "SEQ", !.r15 = a + 2, !.pc = a,
                   !.instr = Slot(a), !.decoded = Slot(a + 1),
                   !.loaded = Slot(a + 2),
                   !.abortAddr = Recorded(Recorded(Recorded(NoAbort, Slot(a)),
                                                   Slot(a + 1)), Slot(a + 2))]

\* Slip for mutation: the program counter is advanced a second time.
Fetched_AdvancesTwice ==
    IF cpu.next \in {"SEQ", "PCINCED"} THEN Advanced(1) ELSE Reloaded

Fetched == CASE cpu.next = "SEQ" -> Advanced(1)
             [] cpu.next = "PCINCED" -> Advanced(0)
             [] OTHER -> Reloaded

\* Slip for mutation: the address compared is that of the slot just decoded.
Breakpoint_Decoded(c) == /\ c.instr.word # "abortword"
                         /\ c.decoded.addr \in Range(bps)

\* ARMul_ICE_debug.
Breakpoint(c) == /\ c.instr.word # "abortword"
                 /\ c.instr.addr \in Range(bps)

\* ARMul_Abort: the return address is kept and the vector is jumped to.
Entered(c, vector) == [c EXCEPT !.r15 = vector, !.next = "PRIME", !.iflag = TRUE]

\* Slip for mutation: the returned pc is not stored in Reg[15].
Stopped_KeepsR15(c) == [c EXCEPT !.emulate = "STOP"]

\* The loop ends and gdbserver_cont or gdbserver_step stores what
\* ARMul_DoProg or ARMul_DoInstr returns, the pc of the loop, in Reg[15].
Stopped(c) == [c EXCEPT !.r15 = c.pc, !.emulate = "STOP"]

-----------------------------------------------------------------------------
(***************************************************************************)
(* One turn of the loop: the fetch, then a breakpoint, an interrupt, the   *)
(* end of a step, or the execution of the instruction.                     *)
(***************************************************************************)
Interruptible(c) == irq /\ ~c.iflag

StopAtBreakpoint(c) ==
    /\ Breakpoint(c)
    /\ cpu' = Stopped(c)
    /\ loc' = "gdb"
    /\ stop' = [stop EXCEPT !.why = "breakpoint"]
    /\ UNCHANGED <<lr, irq, bad, want, ran>>

\* A break leaves the loop.  ARMul_DoProg enters it again; ARMul_DoInstr
\* returns, although the processor is now at the vector.
Interrupt(c) ==
    /\ ~Breakpoint(c) /\ Interruptible(c)
    /\ Len(lr) < MaxDepth
    /\ lr' = Append(lr, [pc |-> c.pc, iflag |-> c.iflag])
    /\ want' = IrqVector
    /\ IF c.emulate = "RUN"
       THEN cpu' = Entered(c, IrqVector) /\ UNCHANGED <<loc, stop>>
       ELSE /\ cpu' = Stopped(Entered(c, IrqVector))
            /\ loc' = "gdb"
            /\ stop' = [stop EXCEPT !.why = "interrupt"]
    /\ UNCHANGED <<irq, bad, ran>>

\* Slip for mutation: a step that has not executed anything yet ends too.
StepEnds_AtOnce(c) ==
    /\ ~Breakpoint(c) /\ ~Interruptible(c) /\ c.emulate \in {"STOP", "ONCE"}
    /\ cpu' = Stopped(c)
    /\ loc' = "gdb"
    /\ stop' = [stop EXCEPT !.why = "step"]
    /\ UNCHANGED <<lr, irq, bad, want, ran>>

\* The test of Emulate before the instruction is decoded.
StepEnds(c) ==
    /\ ~Breakpoint(c) /\ ~Interruptible(c) /\ c.emulate = "STOP"
    /\ cpu' = Stopped(c)
    /\ loc' = "gdb"
    /\ stop' = [stop EXCEPT !.why = "step"]
    /\ UNCHANGED <<lr, irq, bad, want, ran>>

\* What an instruction leaves: the cpu, the address that comes next, the
\* return addresses, and the exception it took.
Effects(c) ==
    LET Raise(vector, back, e) ==
            [cpu |-> Entered(c, vector), want |-> vector,
             lr |-> Append(lr, [pc |-> back, iflag |-> c.iflag]), bad |-> bad, took |-> e]
        Plain(cp, w) == [cpu |-> cp, want |-> w, lr |-> lr, bad |-> bad, took |-> "none"]
        IncPc == [c EXCEPT !.r15 = @ + 1, !.next = "PCINCED"]
        k == c.instr.word
    IN CASE k = "op" -> {Plain(c, c.pc + 1), Plain(IncPc, c.pc + 1)}
         [] k = "remap" -> {[Plain(c, c.pc + 1) EXCEPT !.bad =
                               IF Remapped \in bad THEN bad \ {Remapped}
                                                   ELSE bad \cup {Remapped}]}
         [] k = "jump" -> {Plain([c EXCEPT !.r15 = Target, !.next = "PRIME"], Target)}
         [] k = "ret" ->
              IF lr = <<>> THEN {Plain(c, c.pc + 1)}
              ELSE {[Plain([c EXCEPT !.r15 = Last(lr).pc, !.next = "PRIME",
                                     !.iflag = Last(lr).iflag], Last(lr).pc)
                        EXCEPT !.lr = Front(lr)]}
         [] k = "swi" -> {Raise(SwiVector, c.pc + 1, "SWI")}
         [] k = "abortword" ->
              IF c.abortAddr = c.pc THEN {Raise(AbortVector, c.pc, "PABT")}
                                    ELSE {Raise(SwiVector, c.pc + 1, "SWI")}

\* io_do_cycle lets the devices change the interrupt line; after the
\* instruction, every 2000 turns, Ctrl-C is looked for (unless it was an
\* ABORTWORD); then a step has run its course.
Execute(c, line, ctrlC) ==
    /\ ~Breakpoint(c) /\ ~Interruptible(c) /\ c.emulate # "STOP"
    /\ c.instr.word \in {"swi", "abortword"} => Len(lr) < MaxDepth
    /\ ctrlC => c.instr.word # "abortword"
    /\ irq' = line
    /\ \E x \in Effects(c) :
         /\ lr' = x.lr /\ bad' = x.bad /\ want' = x.want
         /\ ran' = [pc |-> c.pc, due |-> want, reads |-> c.r15,
                    failed |-> c.instr.failed, took |-> x.took,
                    marked |-> c.pc \in Range(bps) /\ c.instr.word # "abortword"]
         /\ IF ctrlC
            THEN /\ cpu' = Stopped(x.cpu)
                 /\ loc' = "gdb"
                 /\ stop' = [why |-> "ctrl-c", count |-> stop.count]
            ELSE /\ cpu' = [x.cpu EXCEPT !.emulate =
                               IF @ = "ONCE" THEN "STOP" ELSE @]
                 /\ stop' = [stop EXCEPT !.count = IF loc = "step" THEN @ + 1 ELSE @]
                 /\ UNCHANGED loc

Turn ==
    /\ loc # "gdb"
    /\ \E c \in {Fetched} :
         \/ StopAtBreakpoint(c)
         \/ Interrupt(c)
         \/ StepEnds(c)
         \/ \E line, ctrlC \in BOOLEAN : Execute(c, line, ctrlC)
    /\ UNCHANGED <<bps, gdb>>

-----------------------------------------------------------------------------
(***************************************************************************)
(* The commands of gdb (sim_debug).                                        *)
(***************************************************************************)
Resume(emulate, where) ==
    /\ loc = "gdb"
    /\ cpu' = [cpu EXCEPT !.next = "RESUME", !.emulate = emulate]
    /\ loc' = where
    /\ want' = cpu.r15
    /\ stop' = [why |-> "none", count |-> 0]
    /\ UNCHANGED <<lr, irq, bad, bps, gdb, ran>>

Continue == Resume("RUN", "run")
Step == Resume("ONCE", "step")

Inserted(s, a) ==
    IF a \in Range(s) \/ Len(s) >= MAX_BREAKPOINTS THEN s ELSE Append(s, a)

\* Slip for mutation: the list is shortened and the hole is not filled.
Removed_Last(s, a) == IF a \notin Range(s) THEN s ELSE Front(s)

\* The last breakpoint takes the place of the one removed.
Removed(s, a) ==
    IF a \notin Range(s) THEN s
    ELSE LET i == CHOOSE j \in DOMAIN s : s[j] = a
         IN Front([s EXCEPT ![i] = Last(s)])

InsertBreakpoint(a) ==
    /\ loc = "gdb"
    /\ bps' = Inserted(bps, a)
    /\ gdb' = [gdb EXCEPT !.known =
                  IF a \in Range(bps) \/ Len(bps) < MAX_BREAKPOINTS
                  THEN @ \cup {a} ELSE @]
    /\ UNCHANGED <<cpu, lr, irq, bad, loc, want, ran, stop>>

RemoveBreakpoint(a) ==
    /\ loc = "gdb"
    /\ bps' = Removed(bps, a)
    /\ gdb' = [known |-> gdb.known \ {a}, inherited |-> gdb.inherited \ {a}]
    /\ UNCHANGED <<cpu, lr, irq, bad, loc, want, ran, stop>>

SetPc(a) ==
    /\ loc = "gdb"
    /\ cpu' = [cpu EXCEPT !.r15 = a]
    /\ want' = a
    /\ UNCHANGED <<lr, irq, bad, loc, bps, gdb, ran, stop>>

\* The connection breaks and another gdb connects; skyeye_ice is kept.
Reconnect ==
    /\ loc = "gdb"
    /\ gdb' = [known |-> {}, inherited |-> Range(bps)]
    /\ UNCHANGED <<cpu, lr, irq, bad, loc, bps, want, ran, stop>>

-----------------------------------------------------------------------------
Init ==
    /\ lr = <<>> /\ irq = FALSE /\ bad = {}
    /\ cpu = [next |-> "PRIME", r15 |-> 0, pc |-> 0, instr |-> Slot(0),
              decoded |-> Slot(0), loaded |-> Slot(0), abortAddr |-> NoAbort,
              emulate |-> "STOP", iflag |-> FALSE]
    /\ loc = "gdb" /\ bps = <<>>
    /\ gdb = [known |-> {}, inherited |-> {}]
    /\ want = 0
    /\ ran = [pc |-> 0, due |-> 0, reads |-> 2, failed |-> FALSE, took |-> "none",
              marked |-> FALSE]
    /\ stop = [why |-> "none", count |-> 0]

Next ==
    \/ Turn
    \/ Continue \/ Step \/ Reconnect
    \/ \E a \in BpAddrs : InsertBreakpoint(a) \/ RemoveBreakpoint(a)
    \/ \E a \in PcValues : SetPc(a)

Spec == Init /\ [][Next]_vars

-----------------------------------------------------------------------------
\* The pipeline is invisible: the loop executes the instruction the program
\* is at, through jumps, exceptions, returns and resumptions, and that
\* instruction reads its own address plus two in Reg[15] (armemu.c:366).
Transparent == ran.pc = ran.due /\ ran.reads = ran.pc + 2

\* A word whose fetch failed ends in a prefetch abort, and no other word does:
\* in particular a program's own SWI -1 is a software interrupt, and a failed
\* fetch never is one (armemu.c:3747).
FailedFetchAborts == ran.failed <=> ran.took = "PABT"

\* No instruction is executed at a breakpoint while the program runs.  The word
\* that marks a failed fetch is let through (armemu.c:306), and so is a program's
\* own SWI -1, which has the same encoding: a breakpoint on one never stops.
BreakpointsHold == ~ran.marked

\* The list of breakpoints is what the present gdb was told it is, and what it
\* inherited from the last one, each of them once (skyeye2gdb.c:92).
BreakpointsAsKnown ==
    /\ Range(bps) = gdb.known \cup gdb.inherited
    /\ IsInjective(bps)

\* When gdb gets its prompt back the program counter is the address the
\* program must execute next, unless the stop was a Ctrl-C or an interrupt
\* cut a step short: those two lose the processor's place (armemu.c:3802,
\* armemu.c:618, skyeye2gdb.c:158).
PlaceKept ==
    [][/\ loc # "gdb" /\ loc' = "gdb"
       /\ stop'.why \notin {"ctrl-c", "interrupt"}
       => cpu'.r15 = want']_vars

\* A step executes one instruction, whatever the pipeline went through, if no
\* breakpoint, Ctrl-C or interrupt ends it: an interrupt that is pending when
\* the step begins leaves the loop before anything is executed, against the
\* words of arminit.c:397, "Emulate the execution of one instruction".
StepExecutesOne ==
    [][loc = "step" /\ loc' = "gdb"
         /\ stop'.why \notin {"breakpoint", "ctrl-c", "interrupt"}
       => stop'.count = 1]_vars
=============================================================================
