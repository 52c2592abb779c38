--------------------------- MODULE ArmDebugProofs ---------------------------
(***************************************************************************)
(* For every program, every set of pages that come and go, every sequence  *)
(* of interrupts and every use of the debugger: the pipeline executes what *)
(* the program asks for, aborts what could not be fetched, and stops where *)
(* gdb wants it.                                                           *)
(***************************************************************************)
EXTENDS ArmDebug, SequenceTheorems, TLAPS

SlotType == [addr : Nat, failed : BOOLEAN, word : Kinds]

CpuType ==
    [next : {"SEQ", "PCINCED", "PRIME", "RESUME"}, r15 : Nat, pc : Nat,
     instr : SlotType, decoded : SlotType, loaded : SlotType,
     abortAddr : Nat \cup {NoAbort}, emulate : {"STOP", "ONCE", "RUN"},
     iflag : BOOLEAN]

FrameType == [pc : Nat, iflag : BOOLEAN]

StopType ==
    [why : {"none", "breakpoint", "interrupt", "step", "ctrl-c"}, count : Nat]

DebugType ==
    /\ cpu \in CpuType /\ stop \in StopType
    /\ lr \in Seq(FrameType)
    /\ loc \in {"gdb", "run", "step"}
    /\ want \in Nat

\* A failed fetch leaves the abort word.
SlotGood(s) == s.failed => s.word = "abortword"

\* AbortAddr is the address of the first slot whose fetch failed.
FirstFailed(c, s, t) ==
    c.abortAddr = IF s.failed THEN s.addr ELSE IF t.failed THEN t.addr ELSE NoAbort

\* Between two turns of the loop the pipeline holds the two words after the
\* instruction just executed, or is about to be reloaded.
PipeOf(c, w) ==
    /\ c.next \in {"SEQ", "PCINCED"} =>
         /\ c.decoded.addr = c.pc + 1 /\ c.loaded.addr = c.pc + 2
         /\ c.r15 = IF c.next = "SEQ" THEN c.pc + 2 ELSE c.pc + 3
         /\ SlotGood(c.decoded) /\ SlotGood(c.loaded)
         /\ FirstFailed(c, c.decoded, c.loaded)
         /\ w = c.pc + 1
    /\ c.next \in {"PRIME", "RESUME"} => w = c.r15

PipeInv == PipeOf(cpu, want)

\* The place is only lost at the prompt, and found again on the way back.
PlaceInv == loc # "gdb" => PipeInv

\* A step that has not executed its instruction is still to run ONCE.
StepInv ==
    /\ loc = "run" => cpu.emulate = "RUN"
    /\ loc = "step" => \/ cpu.emulate = "ONCE" /\ stop.count = 0
                       \/ cpu.emulate = "STOP" /\ stop.count = 1

RanInv == Transparent /\ FailedFetchAborts /\ BreakpointsHold

DebugInv == DebugType /\ PlaceInv /\ StepInv /\ RanInv

-----------------------------------------------------------------------------
(* The fetch.                                                               *)

LEMMA SlotIsSlot ==
    ASSUME NEW a \in Nat
    PROVE  Slot(a) \in SlotType /\ Slot(a).addr = a /\ SlotGood(Slot(a))
BY DebugAssumption DEF Slot, SlotType, SlotGood, Addr, Kinds

\* What the turn of the loop works on, however it was fetched.
Fetches(c) ==
    /\ c \in CpuType
    /\ c.next = "SEQ" /\ c.pc = want /\ c.r15 = c.pc + 2
    /\ c.instr.addr = c.pc /\ c.decoded.addr = c.pc + 1 /\ c.loaded.addr = c.pc + 2
    /\ SlotGood(c.instr) /\ SlotGood(c.decoded) /\ SlotGood(c.loaded)
    /\ c.instr.failed => c.abortAddr = c.pc
    /\ ~c.instr.failed => FirstFailed(c, c.decoded, c.loaded)
    /\ c.emulate = cpu.emulate

LEMMA FetchedIsRight ==
    ASSUME DebugType, PipeInv
    PROVE  Fetches(Fetched)
<1> USE DEF DebugType
<1>1. CASE cpu.next \in {"SEQ", "PCINCED"}
  <2> DEFINE inc == IF cpu.next = "SEQ" THEN 1 ELSE 0
             new == Slot(cpu.pc + 3)
             c == Advanced(inc)
  <2>1. Fetched = c
    BY <1>1 DEF Fetched
  <2>2. new \in SlotType /\ new.addr = cpu.pc + 3 /\ SlotGood(new)
    BY SlotIsSlot DEF CpuType
  <2>3. c = [cpu EXCEPT !.next = "SEQ", !.r15 = @ + inc, !.pc = @ + 1,
                        !.instr = cpu.decoded, !.decoded = cpu.loaded,
                        !.loaded = new, !.abortAddr = Recorded(@, new)]
    BY DEF Advanced
  <2> HIDE DEF new, c
  <2>4. /\ c.next = "SEQ" /\ c.pc = cpu.pc + 1 /\ c.r15 = cpu.r15 + inc
        /\ c.instr = cpu.decoded /\ c.decoded = cpu.loaded /\ c.loaded = new
        /\ c.abortAddr = Recorded(cpu.abortAddr, new) /\ c.emulate = cpu.emulate
        /\ c.iflag = cpu.iflag
    BY <2>3 DEF CpuType
  <2>5. Recorded(cpu.abortAddr, new) \in Nat \cup {NoAbort}
    BY <2>2 DEF Recorded, CpuType, SlotType
  <2>6. c \in CpuType
    <3>1. c = [next |-> "SEQ", r15 |-> cpu.r15 + inc, pc |-> cpu.pc + 1,
               instr |-> cpu.decoded, decoded |-> cpu.loaded, loaded |-> new,
               abortAddr |-> Recorded(cpu.abortAddr, new),
               emulate |-> cpu.emulate, iflag |-> cpu.iflag]
      BY <2>3 DEF CpuType
    <3> QED
      BY <2>2, <2>5, <3>1 DEF CpuType
  <2>7. /\ cpu.decoded.failed => c.abortAddr = c.pc
        /\ ~cpu.decoded.failed => FirstFailed(c, c.decoded, c.loaded)
    BY <1>1, <2>2, <2>4 DEF PipeInv, PipeOf, FirstFailed, Recorded, CpuType, SlotType, NoAbort
  <2>8. c.pc = want /\ c.r15 = c.pc + 2
    BY <1>1, <2>4 DEF PipeInv, PipeOf, CpuType
  <2> QED
    BY <1>1, <2>1, <2>2, <2>4, <2>6, <2>7, <2>8 DEF Fetches, PipeInv, PipeOf, CpuType
<1>2. CASE cpu.next \in {"PRIME", "RESUME"}
  <2> DEFINE a == cpu.r15
             s0 == Slot(a)
             s1 == Slot(a + 1)
             s2 == Slot(a + 2)
             c == Reloaded
  <2>1. Fetched = c
    BY <1>2 DEF Fetched
  <2>2. /\ s0 \in SlotType /\ s0.addr = a /\ SlotGood(s0)
        /\ s1 \in SlotType /\ s1.addr = a + 1 /\ SlotGood(s1)
        /\ s2 \in SlotType /\ s2.addr = a + 2 /\ SlotGood(s2)
    BY SlotIsSlot DEF CpuType
  <2> DEFINE rec == Recorded(Recorded(Recorded(NoAbort, s0), s1), s2)
  <2>3. c = [cpu EXCEPT !.next = "SEQ", !.r15 = a + 2, !.pc = a, !.instr = s0,
                        !.decoded = s1, !.loaded = s2, !.abortAddr = rec]
    BY DEF Reloaded
  <2> HIDE DEF s0, s1, s2, c
  <2>4. /\ s0.failed => rec = a
        /\ ~s0.failed /\ s1.failed => rec = a + 1
        /\ ~s0.failed /\ ~s1.failed /\ s2.failed => rec = a + 2
        /\ ~s0.failed /\ ~s1.failed /\ ~s2.failed => rec = NoAbort
    BY <2>2 DEF Recorded, NoAbort, CpuType
  <2> HIDE DEF rec
  <2>5. /\ c.next = "SEQ" /\ c.pc = a /\ c.r15 = a + 2
        /\ c.instr = s0 /\ c.decoded = s1 /\ c.loaded = s2
        /\ c.abortAddr = rec /\ c.emulate = cpu.emulate
    BY <2>3 DEF CpuType
  <2>6. c \in CpuType
    <3>1. c = [next |-> "SEQ", r15 |-> a + 2, pc |-> a, instr |-> s0,
               decoded |-> s1, loaded |-> s2, abortAddr |-> rec,
               emulate |-> cpu.emulate, iflag |-> cpu.iflag]
      BY <2>3 DEF CpuType
    <3> QED
      BY <2>2, <2>4, <3>1 DEF CpuType, SlotType
  <2> QED
    BY <1>2, <2>1, <2>2, <2>4, <2>5, <2>6 DEF Fetches, FirstFailed, PipeInv, PipeOf, CpuType
<1> QED
  BY <1>1, <1>2 DEF CpuType

-----------------------------------------------------------------------------
(* The ends of a turn.                                                      *)

LEMMA EnteredIsCpu ==
    ASSUME NEW c \in CpuType, NEW v \in Nat
    PROVE  /\ Entered(c, v) \in CpuType
           /\ Entered(c, v).r15 = v /\ Entered(c, v).next = "PRIME"
           /\ Entered(c, v).emulate = c.emulate
<1> DEFINE d == Entered(c, v)
<1>1. d = [c EXCEPT !.r15 = v, !.next = "PRIME", !.iflag = TRUE]
  BY DEF Entered
<1> HIDE DEF d
<1>2. d = [next |-> "PRIME", r15 |-> v, pc |-> c.pc, instr |-> c.instr,
           decoded |-> c.decoded, loaded |-> c.loaded,
           abortAddr |-> c.abortAddr, emulate |-> c.emulate, iflag |-> TRUE]
  BY <1>1 DEF CpuType
<1>3. d \in CpuType /\ d.r15 = v /\ d.next = "PRIME" /\ d.emulate = c.emulate
  BY <1>2 DEF CpuType
<1> QED
  BY <1>3 DEF d

LEMMA StoppedIsCpu ==
    ASSUME NEW c \in CpuType
    PROVE  Stopped(c) \in CpuType /\ Stopped(c).r15 = c.pc
<1> DEFINE d == Stopped(c)
<1>1. d = [c EXCEPT !.r15 = c.pc, !.emulate = "STOP"]
  BY DEF Stopped
<1> HIDE DEF d
<1>2. d = [next |-> c.next, r15 |-> c.pc, pc |-> c.pc, instr |-> c.instr,
           decoded |-> c.decoded, loaded |-> c.loaded,
           abortAddr |-> c.abortAddr, emulate |-> "STOP", iflag |-> c.iflag]
  BY <1>1 DEF CpuType
<1>3. d \in CpuType /\ d.r15 = c.pc
  BY <1>2 DEF CpuType
<1> QED
  BY <1>3 DEF d

\* A return address and flag, pushed and popped.
LEMMA Frames ==
    ASSUME lr \in Seq(FrameType)
    PROVE  /\ \A p \in Nat, b \in BOOLEAN :
                Append(lr, [pc |-> p, iflag |-> b]) \in Seq(FrameType)
           /\ lr # <<>> => /\ Last(lr) \in FrameType
                           /\ Front(lr) \in Seq(FrameType)
<1>1. \A p \in Nat, b \in BOOLEAN : [pc |-> p, iflag |-> b] \in FrameType
  BY DEF FrameType
<1>2. ASSUME lr # <<>>
      PROVE  Last(lr) \in FrameType /\ Front(lr) \in Seq(FrameType)
  <2>1. Len(lr) \in Nat \ {0}
    BY <1>2, EmptySeq
  <2> QED
    BY <2>1 DEF Last, Front
<1> QED
  BY <1>1, <1>2

\* Whatever the instruction, the loop goes on where the program does, and it
\* takes a prefetch abort when, and only when, its word could not be fetched.
EffectGood(c, x) ==
    /\ x.cpu \in CpuType /\ x.cpu.emulate = c.emulate
    /\ x.lr \in Seq(FrameType)
    /\ x.want \in Nat
    /\ PipeOf(x.cpu, x.want)
    /\ c.instr.failed <=> x.took = "PABT"

LEMMA RaiseGood ==
    ASSUME DebugType, NEW c, Fetches(c), NEW v \in Nat, NEW b \in Nat, NEW e,
           c.instr.failed <=> e = "PABT",
           NEW x, x = [cpu |-> Entered(c, v), want |-> v,
                       lr |-> Append(lr, [pc |-> b, iflag |-> c.iflag]),
                       bad |-> bad, took |-> e]
    PROVE  EffectGood(c, x)
<1>1. c \in CpuType /\ c.iflag \in BOOLEAN
  BY DEF Fetches, CpuType
<1>2. /\ x.cpu = Entered(c, v) /\ x.want = v /\ x.took = e
      /\ x.lr = Append(lr, [pc |-> b, iflag |-> c.iflag])
  OBVIOUS
<1>3. x.lr \in Seq(FrameType)
  BY <1>1, <1>2, Frames DEF DebugType
<1> QED
  BY <1>1, <1>2, <1>3, EnteredIsCpu DEF EffectGood, PipeOf

\* A change of Reg[15], NextInstr and IFlag keeps the shape of the processor.
MovedTo(c, r, n, i) ==
    [next |-> n, r15 |-> r, pc |-> c.pc, instr |-> c.instr, decoded |-> c.decoded,
     loaded |-> c.loaded, abortAddr |-> c.abortAddr, emulate |-> c.emulate, iflag |-> i]

LEMMA Moved ==
    ASSUME NEW c \in CpuType, NEW r \in Nat, NEW n \in {"SEQ", "PCINCED", "PRIME", "RESUME"},
           NEW i \in BOOLEAN, NEW d, d = MovedTo(c, r, n, i)
    PROVE  /\ d \in CpuType
           /\ d.r15 = r /\ d.next = n /\ d.pc = c.pc /\ d.decoded = c.decoded
           /\ d.loaded = c.loaded /\ d.abortAddr = c.abortAddr /\ d.emulate = c.emulate
BY DEF CpuType, MovedTo

LEMMA MovedSameFlag ==
    ASSUME NEW c \in CpuType, NEW r, NEW n
    PROVE  [c EXCEPT !.r15 = r, !.next = n] = MovedTo(c, r, n, c.iflag)
<1> DEFINE d == [c EXCEPT !.r15 = r, !.next = n]
<1>1. d = [c EXCEPT !.r15 = r, !.next = n]
  OBVIOUS
<1> HIDE DEF d
<1>2. d = MovedTo(c, r, n, c.iflag)
  BY <1>1 DEF CpuType, MovedTo
<1> QED
  BY <1>2 DEF d

LEMMA PlainGood ==
    ASSUME DebugType, NEW c, Fetches(c), c.instr.word # "abortword",
           NEW x, x.cpu \in CpuType, x.cpu.emulate = c.emulate, x.want \in Nat,
           x.lr \in Seq(FrameType), x.took = "none", PipeOf(x.cpu, x.want)
    PROVE  EffectGood(c, x)
<1>1. c.instr.failed \in BOOLEAN /\ ~c.instr.failed
  BY DEF Fetches, SlotGood, CpuType, SlotType
<1> QED
  BY <1>1 DEF EffectGood

LEMMA EffectsGood ==
    ASSUME DebugType, NEW c, Fetches(c), NEW x \in Effects(c)
    PROVE  EffectGood(c, x)
<1> DEFINE k == c.instr.word
           Plain(cp, w) == [cpu |-> cp, want |-> w, lr |-> lr, bad |-> bad, took |-> "none"]
           IncPc == [c EXCEPT !.r15 = @ + 1, !.next = "PCINCED"]
<1>1. /\ c \in CpuType /\ c.pc \in Nat /\ k \in Kinds /\ c.iflag \in BOOLEAN
      /\ c.r15 = c.pc + 2 /\ c.r15 \in Nat /\ c.instr.failed \in BOOLEAN
      /\ c.instr.failed => k = "abortword" /\ c.abortAddr = c.pc
      /\ ~c.instr.failed => c.abortAddr # c.pc
  <2>1. c.instr.failed \in BOOLEAN /\ c.decoded.failed \in BOOLEAN /\ c.loaded.failed \in BOOLEAN
    BY DEF Fetches, CpuType, SlotType
  <2>2. c.pc \in Nat /\ c.iflag \in BOOLEAN /\ k \in Kinds /\ c.r15 \in Nat
    BY DEF Fetches, CpuType, SlotType
  <2> QED
    BY <2>1, <2>2 DEF Fetches, SlotGood, FirstFailed, NoAbort
<1>2. lr \in Seq(FrameType)
  BY DEF DebugType
<1>3. ASSUME k # "abortword" PROVE PipeOf(c, c.pc + 1)
  BY <1>1, <1>3 DEF Fetches, PipeOf
<1>4. CASE k = "op"
  <2>1. x = Plain(c, c.pc + 1) \/ x = Plain(IncPc, c.pc + 1)
    BY <1>4 DEF Effects
  <2>2. CASE x = Plain(c, c.pc + 1)
    BY <1>1, <1>2, <1>3, <1>4, <2>2, PlainGood
  <2>3. CASE x = Plain(IncPc, c.pc + 1)
    <3>1. IncPc = MovedTo(c, c.r15 + 1, "PCINCED", c.iflag)
      BY <1>1, MovedSameFlag
    <3> HIDE DEF IncPc
    <3>2. /\ IncPc \in CpuType
          /\ IncPc.r15 = c.r15 + 1 /\ IncPc.next = "PCINCED" /\ IncPc.pc = c.pc
          /\ IncPc.decoded = c.decoded /\ IncPc.loaded = c.loaded
          /\ IncPc.abortAddr = c.abortAddr /\ IncPc.emulate = c.emulate
      BY <1>1, <3>1 DEF CpuType, MovedTo
    <3>3. PipeOf(IncPc, c.pc + 1)
      BY <1>1, <1>3, <1>4, <3>2 DEF PipeOf, FirstFailed, Fetches
    <3>4. x.cpu = IncPc /\ x.want = c.pc + 1 /\ x.lr = lr /\ x.took = "none"
      BY <2>3
    <3> QED
      BY <1>1, <1>2, <1>4, <3>2, <3>3, <3>4, PlainGood
  <2> QED
    BY <2>1, <2>2, <2>3
<1>5. CASE k = "remap"
  <2> DEFINE b == IF Remapped \in bad THEN bad \ {Remapped} ELSE bad \cup {Remapped}
  <2>1. x = [Plain(c, c.pc + 1) EXCEPT !.bad = b]
    BY <1>5 DEF Effects
  <2>2. x.cpu = c /\ x.want = c.pc + 1 /\ x.lr = lr /\ x.took = "none"
    BY <2>1
  <2> QED
    BY <1>1, <1>2, <1>3, <1>5, <2>2, PlainGood
<1>6. ASSUME NEW r \in Nat, NEW i \in BOOLEAN, k # "abortword",
             x.cpu = MovedTo(c, r, "PRIME", i),
             x.want = r, x.lr \in Seq(FrameType), x.took = "none"
      PROVE  EffectGood(c, x)
  <2>1. /\ x.cpu \in CpuType
        /\ x.cpu.r15 = r /\ x.cpu.next = "PRIME" /\ x.cpu.emulate = c.emulate
    BY <1>1, <1>6, Moved
  <2>2. PipeOf(x.cpu, x.want)
    BY <1>6, <2>1 DEF PipeOf
  <2> QED
    BY <1>6, <2>1, <2>2, PlainGood
<1>7. CASE k = "jump"
  <2>1. x = Plain([c EXCEPT !.r15 = Target, !.next = "PRIME"], Target)
    BY <1>7 DEF Effects
  <2>2. /\ x.cpu = [c EXCEPT !.r15 = Target, !.next = "PRIME"] /\ x.want = Target
        /\ x.lr = lr /\ x.took = "none"
    BY <2>1
  <2>3. x.cpu = MovedTo(c, Target, "PRIME", c.iflag)
    BY <1>1, <2>2, MovedSameFlag
  <2> QED
    BY <1>1, <1>2, <1>6, <1>7, <2>2, <2>3, DebugAssumption
<1>8. CASE k = "ret"
  <2>1. CASE lr = <<>>
    <3>1. x = Plain(c, c.pc + 1)
      BY <1>8, <2>1 DEF Effects
    <3> QED
      BY <1>1, <1>2, <1>3, <1>8, <3>1, PlainGood
  <2>2. CASE lr # <<>>
    <3> DEFINE l == Last(lr)
               d == [c EXCEPT !.r15 = l.pc, !.next = "PRIME", !.iflag = l.iflag]
    <3>1. x = [Plain(d, l.pc) EXCEPT !.lr = Front(lr)]
      BY <1>8, <2>2 DEF Effects
    <3>2. l \in FrameType /\ Front(lr) \in Seq(FrameType)
      BY <1>2, <2>2, Frames
    <3>3. l.pc \in Nat /\ l.iflag \in BOOLEAN
      BY <3>2 DEF FrameType
    <3> HIDE DEF l
    <3>4. x.cpu = d /\ x.want = l.pc /\ x.lr = Front(lr) /\ x.took = "none"
      BY <3>1
    <3>5. x.cpu = MovedTo(c, l.pc, "PRIME", l.iflag)
      <4>1. d = [c EXCEPT !.r15 = l.pc, !.next = "PRIME", !.iflag = l.iflag]
        OBVIOUS
      <4> HIDE DEF d
      <4>2. d = MovedTo(c, l.pc, "PRIME", l.iflag)
        BY <1>1, <4>1 DEF CpuType, MovedTo
      <4> QED
        BY <3>4, <4>2
    <3> QED
      BY <1>6, <1>8, <3>2, <3>3, <3>4, <3>5
  <2> QED
    BY <2>1, <2>2
<1>9. CASE k = "swi"
  <2>1. x = [cpu |-> Entered(c, SwiVector), want |-> SwiVector,
             lr |-> Append(lr, [pc |-> c.pc + 1, iflag |-> c.iflag]),
             bad |-> bad, took |-> "SWI"]
    BY <1>9 DEF Effects
  <2>2. c.pc + 1 \in Nat /\ (c.instr.failed <=> "SWI" = "PABT")
    BY <1>1, <1>9
  <2> QED
    BY <2>1, <2>2, RaiseGood, DebugAssumption, Zenon
<1>10. CASE k = "abortword" /\ c.abortAddr = c.pc
  <2>1. x = [cpu |-> Entered(c, AbortVector), want |-> AbortVector,
             lr |-> Append(lr, [pc |-> c.pc, iflag |-> c.iflag]),
             bad |-> bad, took |-> "PABT"]
    BY <1>10 DEF Effects
  <2> QED
    BY <1>1, <1>10, <2>1, RaiseGood, DebugAssumption
<1>11. CASE k = "abortword" /\ c.abortAddr # c.pc
  <2>1. x = [cpu |-> Entered(c, SwiVector), want |-> SwiVector,
             lr |-> Append(lr, [pc |-> c.pc + 1, iflag |-> c.iflag]),
             bad |-> bad, took |-> "SWI"]
    BY <1>11 DEF Effects
  <2>2. c.pc + 1 \in Nat /\ (c.instr.failed <=> "SWI" = "PABT")
    BY <1>1, <1>11
  <2> QED
    BY <2>1, <2>2, RaiseGood, DebugAssumption, Zenon
<1> QED
  BY <1>1, <1>4, <1>5, <1>7, <1>8, <1>9, <1>10, <1>11 DEF Kinds

-----------------------------------------------------------------------------
(* One turn of the loop.                                                    *)

\* What a turn does for the two action properties and for the invariant.
TurnGood ==
    /\ DebugInv'
    /\ loc' = "gdb" /\ stop'.why \notin {"ctrl-c", "interrupt"} => cpu'.r15 = want'
    /\ loc = "step" /\ loc' = "gdb" /\ stop'.why = "step" => stop'.count = 1
    /\ loc' = "gdb" => stop'.why # "none"

LEMMA StoppedTurn ==
    ASSUME DebugInv, NEW c, Fetches(c), StopAtBreakpoint(c) \/ StepEnds(c), loc # "gdb"
    PROVE  TurnGood
<1>1. /\ cpu' = Stopped(c) /\ loc' = "gdb"
      /\ UNCHANGED <<lr, want, ran>>
  BY DEF StopAtBreakpoint, StepEnds
<1>2. cpu' \in CpuType /\ cpu'.r15 = want'
  BY <1>1, StoppedIsCpu DEF Fetches
<1>3. /\ stop' \in StopType /\ stop'.count = stop.count
      /\ stop'.why \in {"breakpoint", "step"}
  <2>1. stop \in StopType
    BY DEF DebugInv, DebugType
  <2>2. stop' = [stop EXCEPT !.why = "breakpoint"] \/ stop' = [stop EXCEPT !.why = "step"]
    BY DEF StopAtBreakpoint, StepEnds
  <2> QED
    BY <2>1, <2>2 DEF StopType
<1>4. loc = "step" /\ stop'.why = "step" => stop'.count = 1
  <2>1. SUFFICES ASSUME loc = "step", stop'.why = "step" PROVE stop.count = 1
    BY <1>3
  <2>2. StepEnds(c)
    BY <2>1 DEF StopAtBreakpoint, DebugInv, DebugType, StopType
  <2> QED
    BY <2>1, <2>2 DEF StepEnds, Fetches, DebugInv, StepInv
<1>5. DebugInv'
  BY <1>1, <1>2, <1>3 DEF DebugInv, DebugType, PlaceInv, StepInv, RanInv, Transparent,
                          FailedFetchAborts, BreakpointsHold
<1> QED
  BY <1>1, <1>2, <1>3, <1>4, <1>5 DEF TurnGood

LEMMA InterruptTurn ==
    ASSUME DebugInv, NEW c, Fetches(c), Interrupt(c), loc # "gdb"
    PROVE  TurnGood
<1> DEFINE e == Entered(c, IrqVector)
<1>1. c \in CpuType /\ c.pc \in Nat /\ c.iflag \in BOOLEAN /\ c.emulate = cpu.emulate
  BY DEF Fetches, CpuType
<1>2. /\ e \in CpuType /\ e.r15 = IrqVector /\ e.next = "PRIME"
      /\ e.emulate = cpu.emulate
  BY <1>1, EnteredIsCpu, DebugAssumption
<1>3. lr' \in Seq(FrameType) /\ want' = IrqVector /\ want' \in Nat /\ UNCHANGED ran
  BY <1>1, Frames, DebugAssumption DEF Interrupt, DebugInv, DebugType
<1>4. RanInv'
  BY <1>3 DEF DebugInv, RanInv, Transparent, FailedFetchAborts, BreakpointsHold
<1> HIDE DEF e
<1>5. CASE c.emulate = "RUN"
  <2>1. cpu' = e /\ loc' = loc /\ stop' = stop
    BY <1>5 DEF Interrupt, e
  <2>2. PipeInv'
    BY <1>2, <1>3, <2>1 DEF PipeInv, PipeOf
  <2>3. DebugInv'
    BY <1>1, <1>2, <1>3, <1>4, <2>1, <2>2 DEF DebugInv, DebugType, PlaceInv, StepInv
  <2> QED
    BY <2>1, <2>3 DEF TurnGood
<1>6. CASE c.emulate # "RUN"
  <2>1. cpu' = Stopped(e) /\ loc' = "gdb" /\ stop' = [stop EXCEPT !.why = "interrupt"]
    BY <1>6 DEF Interrupt, e
  <2>2. cpu' \in CpuType
    BY <1>2, <2>1, StoppedIsCpu
  <2>3. stop' \in StopType /\ stop'.why = "interrupt"
    BY <2>1 DEF DebugInv, DebugType, StopType
  <2>4. DebugInv'
    BY <1>3, <1>4, <2>1, <2>2, <2>3 DEF DebugInv, DebugType, PlaceInv, StepInv
  <2> QED
    BY <2>1, <2>3, <2>4 DEF TurnGood
<1> QED
  BY <1>5, <1>6

\* The end of the turn only changes Emulate.
LEMMA EmulateKeeps ==
    ASSUME NEW c \in CpuType, NEW w, PipeOf(c, w), NEW m \in {"STOP", "ONCE", "RUN"},
           NEW d, d = [c EXCEPT !.emulate = m]
    PROVE  d \in CpuType /\ d.emulate = m /\ PipeOf(d, w)
<1>1. d = [next |-> c.next, r15 |-> c.r15, pc |-> c.pc, instr |-> c.instr,
           decoded |-> c.decoded, loaded |-> c.loaded, abortAddr |-> c.abortAddr,
           emulate |-> m, iflag |-> c.iflag]
  BY DEF CpuType
<1>2. d \in CpuType /\ d.emulate = m
  BY <1>1 DEF CpuType
<1>3. /\ d.next = c.next /\ d.r15 = c.r15 /\ d.pc = c.pc /\ d.decoded = c.decoded
      /\ d.loaded = c.loaded /\ d.abortAddr = c.abortAddr
  BY <1>1
<1> QED
  BY <1>2, <1>3 DEF PipeOf, FirstFailed

LEMMA ExecuteTurn ==
    ASSUME DebugInv, NEW c, Fetches(c), NEW line, NEW ctrlC \in BOOLEAN,
           Execute(c, line, ctrlC), loc # "gdb"
    PROVE  TurnGood
<1>1. PICK x \in Effects(c) :
         /\ lr' = x.lr /\ bad' = x.bad /\ want' = x.want
         /\ ran' = [pc |-> c.pc, due |-> want, reads |-> c.r15,
                    failed |-> c.instr.failed, took |-> x.took,
                    marked |-> c.pc \in Range(bps) /\ c.instr.word # "abortword"]
         /\ IF ctrlC
            THEN /\ cpu' = Stopped(x.cpu)
                 /\ loc' = "gdb"
                 /\ stop' = [why |-> "ctrl-c", count |-> stop.count]
            ELSE /\ cpu' = [x.cpu EXCEPT !.emulate = IF @ = "ONCE" THEN "STOP" ELSE @]
                 /\ stop' = [stop EXCEPT !.count = IF loc = "step" THEN @ + 1 ELSE @]
                 /\ UNCHANGED loc
  BY DEF Execute
<1>2. EffectGood(c, x)
  BY EffectsGood DEF DebugInv
<1>3. RanInv'
  <2>1. /\ ran'.pc = c.pc /\ ran'.due = want /\ ran'.reads = c.r15
        /\ ran'.took = x.took
        /\ ran'.failed = c.instr.failed
        /\ ran'.marked = (c.pc \in Range(bps) /\ c.instr.word # "abortword")
    BY <1>1
  <2>2. Transparent'
    BY <2>1 DEF Transparent, Fetches
  <2>3. FailedFetchAborts'
    BY <1>2, <2>1 DEF FailedFetchAborts, EffectGood
  <2>4. BreakpointsHold'
    BY <2>1 DEF BreakpointsHold, Execute, Breakpoint, Fetches
  <2> QED
    BY <2>2, <2>3, <2>4 DEF RanInv
<1>4. /\ lr' \in Seq(FrameType) /\ want' \in Nat /\ stop \in StopType
      /\ x.cpu \in CpuType /\ x.cpu.emulate = cpu.emulate /\ PipeOf(x.cpu, want')
      /\ cpu.emulate \in {"ONCE", "RUN"} /\ loc \in {"run", "step"}
  BY <1>1, <1>2 DEF EffectGood, Fetches, Execute, DebugInv, DebugType, CpuType
<1>5. CASE ctrlC
  <2>1. /\ cpu' = Stopped(x.cpu) /\ loc' = "gdb"
        /\ stop' = [why |-> "ctrl-c", count |-> stop.count]
    BY <1>1, <1>5
  <2>2. cpu' \in CpuType
    BY <1>4, <2>1, StoppedIsCpu
  <2>3. stop' \in StopType /\ stop'.why = "ctrl-c"
    BY <1>4, <2>1 DEF StopType
  <2>4. DebugInv'
    BY <1>3, <1>4, <2>1, <2>2, <2>3 DEF DebugInv, DebugType, PlaceInv, StepInv
  <2> QED
    BY <2>1, <2>3, <2>4 DEF TurnGood
<1>6. CASE ~ctrlC
  <2> DEFINE m == IF x.cpu.emulate = "ONCE" THEN "STOP" ELSE x.cpu.emulate
             n == IF loc = "step" THEN stop.count + 1 ELSE stop.count
  <2>1. /\ cpu' = [x.cpu EXCEPT !.emulate = m] /\ loc' = loc
        /\ stop' = [stop EXCEPT !.count = n]
    BY <1>1, <1>6
  <2>2. /\ m \in {"STOP", "RUN"}
        /\ cpu.emulate = "RUN" => m = "RUN"
        /\ cpu.emulate = "ONCE" => m = "STOP"
    BY <1>4
  <2>3. stop' \in StopType /\ stop'.count = n
    BY <1>4, <2>1 DEF StopType
  <2> HIDE DEF m
  <2>4. cpu' \in CpuType /\ cpu'.emulate = m /\ PipeOf(cpu', want')
    BY <1>4, <2>1, <2>2, EmulateKeeps
  <2>5. StepInv'
    BY <1>4, <2>1, <2>2, <2>3, <2>4 DEF DebugInv, StepInv
  <2>6. DebugInv'
    BY <1>3, <1>4, <2>1, <2>3, <2>4, <2>5 DEF DebugInv, DebugType, PlaceInv, PipeInv
  <2> QED
    BY <2>1, <2>6 DEF TurnGood
<1> QED
  BY <1>5, <1>6

-----------------------------------------------------------------------------
(* The commands of gdb, and the list of breakpoints.                        *)

LEMMA InsertedList ==
    ASSUME NEW S, NEW s \in Seq(S), IsInjective(s), NEW a \in S
    PROVE  /\ Inserted(s, a) \in Seq(S) /\ IsInjective(Inserted(s, a))
           /\ a \in Range(s) \/ Len(s) < MAX_BREAKPOINTS =>
                Range(Inserted(s, a)) = Range(s) \cup {a}
           /\ ~(a \in Range(s) \/ Len(s) < MAX_BREAKPOINTS) =>
                Range(Inserted(s, a)) = Range(s)
<1>1. CASE a \in Range(s) \/ Len(s) >= MAX_BREAKPOINTS
  <2>1. Inserted(s, a) = s
    BY <1>1 DEF Inserted
  <2>2. a \in Range(s) \/ ~(Len(s) < MAX_BREAKPOINTS)
    BY <1>1, DebugAssumption
  <2>3. a \in Range(s) => Range(s) = Range(s) \cup {a}
    OBVIOUS
  <2> QED
    BY <2>1, <2>2, <2>3
<1>2. CASE ~(a \in Range(s) \/ Len(s) >= MAX_BREAKPOINTS)
  <2> DEFINE t == Append(s, a)
             n == Len(s)
  <2>1. Inserted(s, a) = t
    BY <1>2 DEF Inserted
  <2>2. /\ t \in Seq(S) /\ n \in Nat /\ DOMAIN s = 1..n /\ DOMAIN t = 1..n+1
        /\ t[n+1] = a /\ \A j \in 1..n : t[j] = s[j]
    OBVIOUS
  <2>3. Len(s) < MAX_BREAKPOINTS /\ \A j \in 1..n : s[j] # a
    BY <1>2, <2>2, DebugAssumption DEF Range
  <2> HIDE DEF t, n
  <2>4. IsInjective(t)
    BY <2>2, <2>3 DEF IsInjective
  <2>5. Range(t) = Range(s) \cup {a}
    <3>1. \A j \in 1..n+1 : t[j] \in Range(s) \cup {a}
      BY <2>2 DEF Range
    <3>2. \A j \in 1..n : s[j] \in Range(t)
      BY <2>2 DEF Range
    <3>3. a \in Range(t)
      BY <2>2 DEF Range
    <3> QED
      BY <2>2, <3>1, <3>2, <3>3 DEF Range
  <2> QED
    BY <2>1, <2>2, <2>3, <2>4, <2>5
<1> QED
  BY <1>1, <1>2

LEMMA RemovedList ==
    ASSUME NEW S, NEW s \in Seq(S), IsInjective(s), NEW a
    PROVE  /\ Removed(s, a) \in Seq(S) /\ IsInjective(Removed(s, a))
           /\ Range(Removed(s, a)) = Range(s) \ {a}
<1>1. CASE a \notin Range(s)
  BY <1>1 DEF Removed
<1>2. CASE a \in Range(s)
  <2> DEFINE i == CHOOSE j \in DOMAIN s : s[j] = a
             n == Len(s)
             t == [s EXCEPT ![i] = Last(s)]
             r == Front(t)
  <2>1. i \in 1..n /\ s[i] = a /\ n \in Nat /\ n > 0 /\ DOMAIN s = 1..n
    BY <1>2 DEF Range
  <2> HIDE DEF i
  <2>2. t \in Seq(S) /\ Len(t) = n /\ \A j \in 1..n : t[j] = IF j = i THEN s[n] ELSE s[j]
    BY <2>1 DEF Last
  <2> HIDE DEF t
  <2>3. r \in Seq(S) /\ Len(r) = n - 1 /\ \A j \in 1..n-1 : r[j] = t[j]
    BY <2>1, <2>2 DEF Front
  <2> HIDE DEF r, n
  <2>4. \A j, l \in 1..n : s[j] = s[l] => j = l
    BY <2>1 DEF IsInjective
  <2>5. DOMAIN r = 1..n-1
    BY <2>1, <2>3
  <2>6. \A j \in 1..n-1 : r[j] = IF j = i THEN s[n] ELSE s[j]
    BY <2>1, <2>2, <2>3
  <2>7. IsInjective(r)
    BY <2>1, <2>4, <2>5, <2>6 DEF IsInjective
  <2>8. Range(r) = Range(s) \ {a}
    <3>1. ASSUME NEW j \in 1..n-1 PROVE r[j] \in Range(s) \ {a}
      BY <2>1, <2>4, <2>6 DEF Range
    <3>2. ASSUME NEW j \in 1..n, s[j] # a PROVE \E l \in 1..n-1 : r[l] = s[j]
      <4>1. CASE j = n
        <5>1. i \in 1..n-1
          BY <2>1, <3>2, <4>1
        <5> QED
          BY <2>6, <4>1, <5>1
      <4>2. CASE j # n
        <5>1. j \in 1..n-1
          BY <2>1, <3>2, <4>2
        <5>2. r[j] = s[j]
          BY <2>1, <2>6, <3>2, <5>1
        <5> QED
          BY <5>1, <5>2
      <4> QED
        BY <4>1, <4>2
    <3>3. \A v \in Range(r) : v \in Range(s) \ {a}
      BY <2>5, <3>1 DEF Range
    <3>4. \A v \in Range(s) \ {a} : v \in Range(r)
      BY <2>1, <2>5, <3>2 DEF Range
    <3> QED
      BY <3>3, <3>4
  <2>9. Removed(s, a) = r
    BY <1>2 DEF Removed, i, t, r
  <2> QED
    BY <2>3, <2>7, <2>8, <2>9
<1> QED
  BY <1>1, <1>2

BpsInv ==
    /\ bps \in Seq(BpAddrs)
    /\ gdb \in [known : SUBSET BpAddrs, inherited : SUBSET BpAddrs]
    /\ BreakpointsAsKnown

LEMMA BpsStep ==
    ASSUME BpsInv, [Next]_vars
    PROVE  BpsInv'
<1>1. IsInjective(bps) /\ bps \in Seq(BpAddrs) /\ Range(bps) = gdb.known \cup gdb.inherited
  BY DEF BpsInv, BreakpointsAsKnown
<1>2. ASSUME NEW a \in BpAddrs, InsertBreakpoint(a)
      PROVE  BpsInv'
  <2> DEFINE k == IF a \in Range(bps) \/ Len(bps) < MAX_BREAKPOINTS
                  THEN gdb.known \cup {a} ELSE gdb.known
  <2>1. bps' = Inserted(bps, a) /\ gdb' = [gdb EXCEPT !.known = k]
    BY <1>2 DEF InsertBreakpoint
  <2>2. /\ gdb' \in [known : SUBSET BpAddrs, inherited : SUBSET BpAddrs]
        /\ gdb'.known = k /\ gdb'.inherited = gdb.inherited
    BY <2>1 DEF BpsInv
  <2>3. bps' \in Seq(BpAddrs) /\ IsInjective(bps')
    BY <1>1, <2>1, InsertedList
  <2>4. Range(bps') = gdb'.known \cup gdb'.inherited
    BY <1>1, <2>1, <2>2, InsertedList
  <2> QED
    BY <2>2, <2>3, <2>4 DEF BpsInv, BreakpointsAsKnown
<1>3. ASSUME NEW a \in BpAddrs, RemoveBreakpoint(a)
      PROVE  BpsInv'
  <2>1. /\ bps' = Removed(bps, a)
        /\ gdb' = [known |-> gdb.known \ {a}, inherited |-> gdb.inherited \ {a}]
    BY <1>3 DEF RemoveBreakpoint
  <2>2. /\ gdb' \in [known : SUBSET BpAddrs, inherited : SUBSET BpAddrs]
        /\ gdb'.known = gdb.known \ {a} /\ gdb'.inherited = gdb.inherited \ {a}
    BY <2>1 DEF BpsInv
  <2>3. bps' \in Seq(BpAddrs) /\ IsInjective(bps') /\ Range(bps') = Range(bps) \ {a}
    BY <1>1, <2>1, RemovedList
  <2> QED
    BY <1>1, <2>2, <2>3 DEF BpsInv, BreakpointsAsKnown
<1>4. CASE Reconnect
  <2>1. bps' = bps /\ gdb' = [known |-> {}, inherited |-> Range(bps)]
    BY <1>4 DEF Reconnect
  <2>2. Range(bps) \subseteq BpAddrs
    BY <1>1 DEF BpsInv
  <2>3. /\ gdb' \in [known : SUBSET BpAddrs, inherited : SUBSET BpAddrs]
        /\ gdb'.known = {} /\ gdb'.inherited = Range(bps)
    BY <2>1, <2>2
  <2> QED
    BY <1>1, <2>1, <2>3 DEF BpsInv, BreakpointsAsKnown
<1>5. CASE UNCHANGED <<bps, gdb>>
  BY <1>5 DEF BpsInv, BreakpointsAsKnown
<1>6. (Turn \/ Continue \/ Step \/ (\E a \in PcValues : SetPc(a)) \/ UNCHANGED vars)
         => UNCHANGED <<bps, gdb>>
  BY DEF Turn, Continue, Step, Resume, SetPc, vars
<1> QED
  BY <1>2, <1>3, <1>4, <1>5, <1>6 DEF Next

\* Everything a command leaves: the place is known as soon as the loop runs.
LEMMA CommandStep ==
    ASSUME DebugInv, [Next]_vars, ~Turn
    PROVE  DebugInv' /\ (loc' = "gdb" => loc = "gdb")
<1> USE DEF DebugInv
<1>1. ASSUME NEW m \in {"RUN", "ONCE"}, NEW w \in {"run", "step"}, Resume(m, w),
             w = "run" <=> m = "RUN"
      PROVE  DebugInv' /\ loc' # "gdb"
  <2>1. cpu' = [cpu EXCEPT !.next = "RESUME", !.emulate = m]
    BY <1>1 DEF Resume
  <2>2. cpu' = [next |-> "RESUME", r15 |-> cpu.r15, pc |-> cpu.pc, instr |-> cpu.instr,
                decoded |-> cpu.decoded, loaded |-> cpu.loaded,
                abortAddr |-> cpu.abortAddr, emulate |-> m, iflag |-> cpu.iflag]
    BY <2>1 DEF DebugType, CpuType
  <2>3. /\ cpu' \in CpuType /\ cpu'.next = "RESUME" /\ cpu'.r15 = cpu.r15
        /\ cpu'.emulate = m /\ cpu.r15 \in Nat
    BY <2>2 DEF DebugType, CpuType
  <2>4. /\ loc' = w /\ want' = cpu.r15 /\ stop' = [why |-> "none", count |-> 0]
        /\ UNCHANGED <<lr, ran>>
    BY <1>1 DEF Resume
  <2>5. stop' \in StopType /\ stop'.count = 0
    BY <2>4 DEF StopType
  <2>6. DebugType' /\ PlaceInv' /\ StepInv'
    BY <1>1, <2>3, <2>4, <2>5 DEF DebugType, PlaceInv, PipeInv, PipeOf, StepInv
  <2> QED
    BY <2>4, <2>6 DEF RanInv, Transparent, FailedFetchAborts, BreakpointsHold
<1>2. CASE Continue \/ Step
  BY <1>1, <1>2 DEF Continue, Step
<1>3. ASSUME NEW a \in PcValues, SetPc(a)
      PROVE  DebugInv' /\ loc = "gdb"
  <2>1. cpu' = [cpu EXCEPT !.r15 = a]
    BY <1>3 DEF SetPc
  <2>2. cpu' = [next |-> cpu.next, r15 |-> a, pc |-> cpu.pc, instr |-> cpu.instr,
                decoded |-> cpu.decoded, loaded |-> cpu.loaded,
                abortAddr |-> cpu.abortAddr, emulate |-> cpu.emulate, iflag |-> cpu.iflag]
    BY <2>1 DEF DebugType, CpuType
  <2>3. cpu' \in CpuType /\ a \in Nat
    BY <2>2, DebugAssumption DEF DebugType, CpuType
  <2> QED
    BY <1>3, <2>3 DEF SetPc, DebugType, PlaceInv, StepInv, RanInv, Transparent,
                      FailedFetchAborts, BreakpointsHold
<1>4. ASSUME UNCHANGED <<cpu, lr, irq, bad, loc, want, ran, stop>>
      PROVE  DebugInv' /\ loc' = loc
  BY <1>4 DEF DebugType, PlaceInv, PipeInv, PipeOf, StepInv, RanInv, Transparent,
              FailedFetchAborts, BreakpointsHold, SlotGood, FirstFailed
<1>5. (Reconnect \/ (\E a \in BpAddrs : InsertBreakpoint(a) \/ RemoveBreakpoint(a)) \/ UNCHANGED vars)
         => UNCHANGED <<cpu, lr, irq, bad, loc, want, ran, stop>>
  BY DEF Reconnect, InsertBreakpoint, RemoveBreakpoint, vars
<1> QED
  BY <1>2, <1>3, <1>4, <1>5 DEF Next

LEMMA TurnStep ==
    ASSUME DebugInv, Turn
    PROVE  TurnGood
<1> DEFINE c == Fetched
<1>1. loc # "gdb" /\ \/ StopAtBreakpoint(c) \/ Interrupt(c) \/ StepEnds(c)
                     \/ \E line, ctrlC \in BOOLEAN : Execute(c, line, ctrlC)
  BY DEF Turn
<1>2. Fetches(c)
  BY <1>1, FetchedIsRight DEF DebugInv, PlaceInv
<1> HIDE DEF c
<1> QED
  BY <1>1, <1>2, StoppedTurn, InterruptTurn, ExecuteTurn

LEMMA DebugInit == Init => DebugInv /\ BpsInv
<1> SUFFICES ASSUME Init PROVE DebugInv /\ BpsInv
  OBVIOUS
<1>1. Slot(0) \in SlotType
  BY SlotIsSlot
<1>2. cpu \in CpuType
  BY <1>1 DEF Init, CpuType, NoAbort
<1>3. lr \in Seq(FrameType) /\ bps \in Seq(BpAddrs) /\ bps = <<>>
  BY DEF Init
<1>4. stop \in StopType /\ loc = "gdb" /\ want \in Nat
  BY DEF Init, StopType
<1>5. /\ gdb \in [known : SUBSET BpAddrs, inherited : SUBSET BpAddrs]
      /\ gdb.known = {} /\ gdb.inherited = {}
  BY DEF Init
<1>6. Range(bps) = {} /\ IsInjective(bps)
  BY <1>3 DEF Range, IsInjective
<1>7. RanInv
  BY DEF Init, RanInv, Transparent, FailedFetchAborts, BreakpointsHold
<1> QED
  BY <1>2, <1>3, <1>4, <1>5, <1>6, <1>7
     DEF DebugInv, DebugType, PlaceInv, StepInv, BpsInv, BreakpointsAsKnown

LEMMA DebugStep == DebugInv /\ [Next]_vars => DebugInv'
BY TurnStep, CommandStep DEF TurnGood

\* The inductive invariant of the loop and the prompt: wherever the debugger
\* leaves the processor, the pipeline agrees with the program again as soon as
\* the loop is entered (armemu.c:253, skyeye2gdb.c:150).
THEOREM DebugInvariant == Spec => [](DebugInv /\ BpsInv)
<1>1. DebugInv /\ BpsInv /\ [Next]_vars => (DebugInv /\ BpsInv)'
  BY DebugStep, BpsStep
<1> QED
  BY <1>1, DebugInit, PTL DEF Spec

\* The pipeline is invisible to the program, for every program, every set of
\* failing fetches and every interference of gdb (armemu.c:253).
THEOREM PipelineTransparent == Spec => []Transparent
<1>1. DebugInv => Transparent
  BY DEF DebugInv, RanInv
<1> QED
  BY <1>1, DebugInvariant, PTL

\* A word that could not be fetched ends in a prefetch abort and no other
\* does, although AbortAddr is shared by three slots (armemu.c:3747).
THEOREM FetchesAbort == Spec => []FailedFetchAborts
<1>1. DebugInv => FailedFetchAborts
  BY DEF DebugInv, RanInv
<1> QED
  BY <1>1, DebugInvariant, PTL

\* No instruction with a breakpoint is executed (armemu.c:303).
THEOREM NoneExecutedAtBreakpoint == Spec => []BreakpointsHold
<1>1. DebugInv => BreakpointsHold
  BY DEF DebugInv, RanInv
<1> QED
  BY <1>1, DebugInvariant, PTL

\* The list of breakpoints is the set gdb believes in, however it was filled
\* and holes in it were closed, up to its limit (skyeye2gdb.c:92).
THEOREM BreakpointList == Spec => []BreakpointsAsKnown
<1>1. BpsInv => BreakpointsAsKnown
  BY DEF BpsInv
<1> QED
  BY <1>1, DebugInvariant, PTL

\* The prompt comes back with the program counter at the next instruction,
\* unless Ctrl-C or an interrupt during a step lost it (skyeye2gdb.c:158).
THEOREM PromptKeepsPlace == Spec => PlaceKept
<1>1. DebugInv /\ [Next]_vars =>
        [/\ loc # "gdb" /\ loc' = "gdb"
         /\ stop'.why \notin {"ctrl-c", "interrupt"}
         => cpu'.r15 = want']_vars
  BY TurnStep, CommandStep DEF TurnGood
<1> QED
  BY <1>1, DebugInvariant, PTL DEF Spec, PlaceKept

\* A step that nothing cuts short executes exactly one instruction, however
\* often the pipeline is refilled (armemu.c:622, arminit.c:397).
THEOREM OneInstructionPerStep == Spec => StepExecutesOne
<1>1. ASSUME DebugInv, [Next]_vars, loc = "step" /\ loc' = "gdb",
             stop'.why \notin {"breakpoint", "ctrl-c", "interrupt"}
      PROVE  stop'.count = 1
  <2>1. Turn
    BY <1>1, CommandStep
  <2>2. TurnGood
    BY <1>1, <2>1, TurnStep
  <2>3. stop'.why \in {"none", "breakpoint", "interrupt", "step", "ctrl-c"}
    BY <2>2 DEF TurnGood, DebugInv, DebugType, StopType
  <2> QED
    BY <1>1, <2>2, <2>3 DEF TurnGood
<1>2. DebugInv /\ [Next]_vars =>
        [loc = "step" /\ loc' = "gdb"
           /\ stop'.why \notin {"breakpoint", "ctrl-c", "interrupt"}
         => stop'.count = 1]_vars
  BY <1>1
<1> QED
  BY <1>2, DebugInvariant, PTL DEF Spec, StepExecutesOne
=============================================================================
