---------------------------- MODULE ArmRegisters ----------------------------
(***************************************************************************)
(* The ARM programmer's model of registers and modes: every register name  *)
(* of every mode has one place, an instruction reads and writes the places *)
(* its mode sees, and changing the mode moves nothing.                     *)
(***************************************************************************)
EXTENDS Naturals

CONSTANTS
  FiqRegs,     \* registers only FIQ mode has a copy of: 8..12
  Modes,       \* modes the program uses
  PSRs,        \* program status words it writes
  Vectors,     \* exceptions that occur
  PCs,         \* addresses it branches to
  Vals         \* values it writes to registers

Linked   == {13, 14}                 \* registers every exception mode has a copy of
Regs     == FiqRegs \cup Linked
Banks    == {"USER", "FIQ", "IRQ", "SVC", "ABORT", "UNDEF"}
AllModes == Banks \cup {"SYSTEM"}

BankOf(mode) == IF mode = "SYSTEM" THEN "USER" ELSE mode
Home(bank, r) == IF r \in Linked \/ bank = "FIQ" THEN bank ELSE "USER"
Privileged(mode) == mode # "USER"
HasSpsr(mode) == BankOf(mode) # "USER"

\* Each exception: its mode, its address, the interrupts it masks, and how far
\* past the address to resume at its link register points, in the ARM manual.
Exception == [
  Undef    |-> [mode |-> "UNDEF", addr |-> 4,  mask |-> {"I"}],
  SWI      |-> [mode |-> "SVC",   addr |-> 8,  mask |-> {"I"}],
  Prefetch |-> [mode |-> "ABORT", addr |-> 12, mask |-> {"I"}],
  Data     |-> [mode |-> "ABORT", addr |-> 16, mask |-> {"I"}],
  IRQ      |-> [mode |-> "IRQ",   addr |-> 24, mask |-> {"I"}],
  FIQ      |-> [mode |-> "FIQ",   addr |-> 28, mask |-> {"I", "F"}]]

\* An interrupt and a prefetch abort return with SUBS pc, lr, #4 to the
\* instruction at pc, a data abort with #8; the others resume after it.
Link(v, pc, thumb) ==
  IF v = "Data" THEN pc + 8
  ELSE IF v \in {"Undef", "SWI"} /\ thumb THEN pc + 2
  ELSE pc + 4

VARIABLES
  file,    \* the place of each register of each bank
  psr,     \* mode, interrupt masks and Thumb bit
  spsr,    \* the saved status of each bank
  pc,      \* the instruction about to execute
  stored   \* the registers the last user-bank store put in memory

vars == <<file, psr, spsr, pc, stored>>

Init ==
  /\ file = [b \in Banks |-> [r \in Regs |-> 0]]
  /\ psr = [mode |-> "SVC", bits |-> {"I", "F"}]
  /\ spsr = [b \in Banks |-> [mode |-> "none", bits |-> {}]]
  /\ pc = 0
  /\ stored = [r \in Regs |-> 0]

Arm == "T" \notin psr.bits

Put(f, mode, rs, v) ==
  [b \in Banks |-> [r \in Regs |-> IF r \in rs /\ Home(BankOf(mode), r) = b THEN v ELSE f[b][r]]]

Write(rs, v) ==
  /\ UNCHANGED <<psr, spsr, pc, stored>>
  /\ file' = Put(file, psr.mode, rs, v)

Branch(a, thumb) ==
  /\ pc' = a
  /\ psr' = [psr EXCEPT !.bits = IF thumb THEN @ \cup {"T"} ELSE @ \ {"T"}]
  /\ UNCHANGED <<spsr, stored, file>>

WriteCpsr(p) ==
  /\ Arm
  /\ psr' = IF Privileged(psr.mode) THEN p ELSE psr
  /\ UNCHANGED <<spsr, pc, stored, file>>

WriteSpsr(p) ==
  /\ Arm
  /\ HasSpsr(psr.mode)
  /\ spsr' = [spsr EXCEPT ![BankOf(psr.mode)] = p]
  /\ UNCHANGED <<psr, pc, stored, file>>

Enter(v, f) ==
  LET e == Exception[v]
  IN /\ spsr' = [spsr EXCEPT ![e.mode] = psr]
     /\ psr' = [mode |-> e.mode, bits |-> (psr.bits \ {"T"}) \cup e.mask]
     /\ pc' = e.addr
     /\ file' = [f EXCEPT ![e.mode][14] = Link(v, pc, ~Arm)]

Interrupts(v) ==
  /\ v = "IRQ" => "I" \notin psr.bits
  /\ v = "FIQ" => "F" \notin psr.bits

Take(v) == Interrupts(v) /\ Enter(v, file) /\ UNCHANGED stored

\* Return from an exception, f the registers with what is loaded on the way
\* out.  A mode with no saved status just jumps.
Return(a, f) ==
  /\ Arm
  /\ HasSpsr(psr.mode) => spsr[BankOf(psr.mode)].mode \in Modes
  /\ psr' = IF HasSpsr(psr.mode) THEN spsr[BankOf(psr.mode)] ELSE psr
  /\ pc' = a
  /\ file' = f
  /\ UNCHANGED <<spsr, stored>>

\* The same, when the memory access faults half way.
ReturnAborts(rs, v) ==
  /\ Arm
  /\ Enter("Data", Put(file, psr.mode, rs, v))
  /\ UNCHANGED stored

\* A privileged mode loads and stores the registers of user mode.
LoadUser(rs, v) ==
  /\ Arm
  /\ UNCHANGED <<psr, spsr, pc, stored>>
  /\ file' = Put(file, "USER", rs, v)

StoreUser ==
  /\ Arm
  /\ stored' = [r \in Regs |-> file["USER"][r]]
  /\ UNCHANGED <<psr, spsr, pc, file>>

\* The same, when the memory access faults half way.
LoadUserAborts(rs, v) ==
  /\ Arm
  /\ Enter("Data", Put(file, "USER", rs, v))
  /\ UNCHANGED stored

StoreUserAborts ==
  /\ Arm
  /\ Enter("Data", file)
  /\ UNCHANGED stored

Next ==
  \/ \E rs \in SUBSET Regs, v \in Vals :
       \/ Write(rs, v) \/ LoadUser(rs, v)
       \/ LoadUserAborts(rs, v) \/ ReturnAborts(rs, v)
       \/ \E a \in PCs : Return(a, Put(file, psr.mode, rs, v))
  \/ \E a \in PCs : Return(a, file) \/ \E thumb \in BOOLEAN : Branch(a, thumb)
  \/ \E p \in PSRs : WriteCpsr(p) \/ WriteSpsr(p)
  \/ \E v \in Vectors : Take(v)
  \/ StoreUser \/ StoreUserAborts

Spec == Init /\ [][Next]_vars
=============================================================================
