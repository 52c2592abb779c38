------------------------------ MODULE ArmBanks ------------------------------
(***************************************************************************)
(* Processor modes, banked registers and exceptions as the emulator keeps  *)
(* them (src/arch/arm/common/armsupp.c, arminit.c, armemu.c).  The current *)
(* registers are in Reg, the others in RegBank, and ARMul_SwitchMode moves *)
(* them; ArmRegisters is the programmer's model this has to implement.     *)
(* Modes are the seven 32-bit modes; r0-r7 are in no bank and left out.    *)
(***************************************************************************)
EXTENDS Naturals

CONSTANTS
  FiqRegs, Modes, PSRs, Vectors, PCs, Vals,   \* as in ArmRegisters
  SBitAborts       \* transfers with the S bit that may meet a data abort

Linked   == {13, 14}
Regs     == FiqRegs \cup Linked
Banks    == {"USER", "FIQ", "IRQ", "SVC", "ABORT", "UNDEF"}
AllModes == Banks \cup {"SYSTEM"}
Bits     == {"I", "F", "T"}
AllVectors == {"Undef", "SWI", "Prefetch", "Data", "IRQ", "FIQ"}

ASSUME FiqRegsAssumption == FiqRegs \subseteq 8..12
ASSUME ModesAssumption == {"USER", "SVC"} \subseteq Modes /\ Modes \subseteq AllModes
ASSUME PsrsAssumption == PSRs \subseteq [mode : Modes, bits : SUBSET {"I", "F"}]
ASSUME ValuesAssumption ==
  /\ PCs \subseteq Nat /\ Vals \subseteq Nat
  /\ Vectors \subseteq AllVectors
  /\ SBitAborts \subseteq {"LDM", "LDM pc", "STM"}

VARIABLE cpu     \* Reg, RegBank, Mode, Bank, bits, Spsr, pc, stored

\* The state of a reset processor.
Init ==
  cpu = [Reg |-> [r \in Regs |-> 0],
         RegBank |-> [b \in Banks |-> [r \in Regs |-> 0]],
         Mode |-> "SVC", Bank |-> "SVC", bits |-> {"I", "F"},
         Spsr |-> [b \in Banks |-> [mode |-> "none", bits |-> {}]],
         pc |-> 0, stored |-> [r \in Regs |-> 0]]

-----------------------------------------------------------------------------
(* ARMul_SwitchMode: save what the old bank keeps, restore what the new one *)
(* keeps.  r8-r12 move only when FIQ mode is entered or left.               *)

ModeToBank(mode) == IF mode = "SYSTEM" THEN "USER" ELSE mode

Keeper(bank, r) == IF r \in Linked \/ bank = "FIQ" THEN bank ELSE "USER"
Moves(r, old, new) == r \in Linked \/ "FIQ" \in {old, new}

Saved(s, old, new) ==
  [b \in Banks |-> [r \in Regs |->
     IF Moves(r, old, new) /\ Keeper(old, r) = b THEN s.Reg[r] ELSE s.RegBank[b][r]]]

Restored(s, old, new) ==
  [r \in Regs |-> IF Moves(r, old, new) THEN s.RegBank[Keeper(new, r)][r] ELSE s.Reg[r]]

SwitchMode(s, oldmode, newmode) ==
  LET old == ModeToBank(oldmode)
      new == ModeToBank(newmode)
      saved == [s EXCEPT !.RegBank = Saved(s, old, new), !.Bank = new]
  IN  IF old = new THEN [s EXCEPT !.Bank = new]
      ELSE [saved EXCEPT !.Reg = Restored(saved, old, new)]

-----------------------------------------------------------------------------
(* The status words.                                                        *)

CPSR(s) == [mode |-> s.Mode, bits |-> s.bits]

\* ARMul_CPSRAltered: the banks move only when the mode differs.
SetCPSR(s, psr) ==
  [(IF s.Mode = psr.mode THEN s ELSE SwitchMode(s, s.Mode, psr.mode))
     EXCEPT !.Mode = psr.mode, !.bits = psr.bits]

BankHasSpsr(bank) == bank # "USER"
GetSPSR(s) == IF BankHasSpsr(ModeToBank(s.Mode)) THEN s.Spsr[ModeToBank(s.Mode)] ELSE CPSR(s)

\* Slip: MSR writes the control field in user mode too.
FixCPSR_AnyMode(s, psr) == SetCPSR(s, psr)
\* In user mode MSR reaches the flags only.
FixCPSR(s, psr) == IF s.Mode # "USER" THEN SetCPSR(s, psr) ELSE SetCPSR(s, CPSR(s))

-----------------------------------------------------------------------------
(* ARMul_Abort: save the status, switch, link, go to the vector.            *)

Insn(s) == IF "T" \in s.bits THEN 2 ELSE 4
\* Slip: Reg[15] without the two instructions of the pipeline.
R15_NoPipeline(s) == s.pc
R15(s)  == s.pc + 2 * Insn(s)

ExceptionMode(v) ==
  CASE v = "Undef" -> "UNDEF" [] v = "SWI" -> "SVC" [] v \in {"Prefetch", "Data"} -> "ABORT"
    [] v = "IRQ" -> "IRQ" [] v = "FIQ" -> "FIQ"

VectorAddr(v) ==
  CASE v = "Undef" -> 4 [] v = "SWI" -> 8 [] v = "Prefetch" -> 12 [] v = "Data" -> 16
    [] v = "IRQ" -> 24 [] v = "FIQ" -> 28

Masks(v) == IF v = "FIQ" THEN {"I", "F"} ELSE {"I"}

LinkValue(s, v) ==
  IF v \in {"Undef", "SWI"} THEN R15(s) - Insn(s)
  ELSE IF v = "Data" THEN IF "T" \in s.bits THEN R15(s) + 4 ELSE R15(s)
  ELSE IF "T" \in s.bits THEN R15(s) ELSE R15(s) - 4

\* Slip: the link is written before the banks are switched.
Abort_LinkFirst(s, v) ==
  LET mode  == ExceptionMode(v)
      saved == [s EXCEPT !.Spsr[ModeToBank(mode)] = CPSR(s), !.Reg[14] = LinkValue(s, v)]
  IN  [SetCPSR(saved, [mode |-> mode, bits |-> (s.bits \ {"T"}) \cup Masks(v)])
         EXCEPT !.pc = VectorAddr(v)]
Abort(s, v) ==
  LET mode  == ExceptionMode(v)
      saved == [s EXCEPT !.Spsr[ModeToBank(mode)] = CPSR(s)]
      there == SetCPSR(saved, [mode |-> mode, bits |-> (s.bits \ {"T"}) \cup Masks(v)])
  IN  [there EXCEPT !.Reg[14] = LinkValue(s, v), !.pc = VectorAddr(v)]

-----------------------------------------------------------------------------
(* Instructions.  MSR, returns and user-bank transfers exist in ARM state.  *)
(* pc moves where a branch, a return or an exception puts it; the steps of  *)
(* straight-line code are left out.                                         *)

Arm == "T" \notin cpu.bits
Loaded(s, rs, v) == [s EXCEPT !.Reg = [r \in Regs |-> IF r \in rs THEN v ELSE s.Reg[r]]]

\* An instruction writes registers, an LDM several of them.
Write(rs, v) == cpu' = Loaded(cpu, rs, v)

\* BX, BLX and loads of the PC: WriteR15Branch.
Branch(a, thumb) ==
  cpu' = [cpu EXCEPT !.pc = a, !.bits = IF thumb THEN @ \cup {"T"} ELSE @ \ {"T"}]

MSR(psr) == Arm /\ cpu' = FixCPSR(cpu, psr)

FixSPSR(psr) ==
  /\ Arm
  /\ BankHasSpsr(cpu.Bank)
  /\ cpu' = [cpu EXCEPT !.Spsr[cpu.Bank] = psr]

\* Between two instructions; FIQ before IRQ.
Interrupted(v) ==
  /\ v = "IRQ" => "I" \notin cpu.bits
  /\ v = "FIQ" => "F" \notin cpu.bits
Take(v) == Interrupted(v) /\ cpu' = Abort(cpu, v)

\* MOVS pc: WriteSR15 asks Bank whether there is a saved status to restore.
MovsPc(a) ==
  /\ Arm
  /\ BankHasSpsr(cpu.Bank) => cpu.Spsr[cpu.Bank].mode \in Modes
  /\ cpu' = [(IF BankHasSpsr(cpu.Bank) THEN SetCPSR(cpu, cpu.Spsr[cpu.Bank]) ELSE cpu)
               EXCEPT !.pc = a]

\* LDM with the PC and the S bit (LoadSMult): registers and written-back base
\* first, then the saved status, which Mode selects, then the PC.
Restore(s) == IF s.Mode # "USER" THEN SetCPSR(s, GetSPSR(s)) ELSE s

LdmPc(rs, v, a) ==
  /\ Arm
  /\ GetSPSR(cpu).mode \in Modes
  /\ cpu' = [Restore(Loaded(cpu, rs, v)) EXCEPT !.pc = a]

\* A data abort half way.  ARMul_Abort clears Aborted, so the test that follows
\* passes and the status is restored as if the load had succeeded.
LdmPcAborts(rs, v) ==
  /\ "LDM pc" \in SBitAborts
  /\ Arm
  /\ cpu' = Restore(Abort(Loaded(cpu, rs, v), "Data"))

\* LDM and STM with the S bit and no PC: the user bank for the transfer.
ToUserBank(s)   == IF s.Bank # "USER" THEN SwitchMode(s, s.Mode, "USER") ELSE s
\* Slip: the way back tests the bank, which is the user bank by now.
FromUserBank_ByBank(s) == IF s.Bank # "USER" THEN SwitchMode(s, "USER", s.Mode) ELSE s
FromUserBank(s) == IF s.Mode # "USER" THEN SwitchMode(s, "USER", s.Mode) ELSE s

LoadSMult(rs, v) == Arm /\ cpu' = FromUserBank(Loaded(ToUserBank(cpu), rs, v))

StoreSMult ==
  /\ Arm
  /\ cpu' = LET user == ToUserBank(cpu) IN [FromUserBank(user) EXCEPT !.stored = user.Reg]

\* A data abort half way.  The load switches back to the mode that is current
\* after the exception, the store does not switch back.
LoadSMultAborts(rs, v) ==
  /\ "LDM" \in SBitAborts
  /\ Arm
  /\ cpu' = FromUserBank(Abort(Loaded(ToUserBank(cpu), rs, v), "Data"))

StoreSMultAborts ==
  /\ "STM" \in SBitAborts
  /\ Arm
  /\ cpu' = Abort(ToUserBank(cpu), "Data")

Next ==
  \/ \E rs \in SUBSET Regs, v \in Vals :
       \/ Write(rs, v) \/ LoadSMult(rs, v) \/ LdmPcAborts(rs, v)
       \/ \E a \in PCs : LdmPc(rs, v, a)
  \/ \E rs \in SUBSET (Regs \ {14}), v \in Vals : LoadSMultAborts(rs, v)
  \/ \E a \in PCs : MovsPc(a) \/ \E thumb \in BOOLEAN : Branch(a, thumb)
  \/ \E psr \in PSRs : MSR(psr) \/ FixSPSR(psr)
  \/ \E v \in Vectors : Take(v)
  \/ StoreSMult \/ StoreSMultAborts

Spec == Init /\ [][Next]_cpu

-----------------------------------------------------------------------------
(* Properties.                                                              *)

Words == [mode : AllModes \cup {"none"}, bits : SUBSET Bits]
State == [Reg : [Regs -> Nat], RegBank : [Banks -> [Regs -> Nat]],
          Mode : AllModes, Bank : Banks, bits : SUBSET Bits,
          Spsr : [Banks -> Words], pc : Nat, stored : [Regs -> Nat]]

\* Every register, bank and status word has a value of its type.
BanksTypeOK == cpu \in State

\* The bank Reg holds between instructions is that of the mode, save where a
\* store of the user bank aborted in ABORT mode has stranded it.
Agrees(s)   == s.Bank = ModeToBank(s.Mode)
Stranded(s) == s.Mode = "ABORT" /\ s.Bank = "USER"
AbortedInAbortMode == cpu.Mode = "ABORT" /\ StoreSMultAborts

\* state->Bank, which user-bank transfers and MOVS pc test and SwitchMode changes
\* on its own, is the bank of state->Mode after every instruction and exception,
\* save that an STM of the user bank aborted in ABORT mode strands it, until the
\* mode changes or the next transfer of the user bank.
BankMatches ==
  [][Agrees(cpu') \/ (Stranded(cpu') /\ (Stranded(cpu) \/ AbortedInAbortMode))]_cpu

\* User mode is left only by an exception: neither MSR, nor a return, nor a
\* user-bank transfer, raises the privilege of the code that executes it.
NoEscalation ==
  [][cpu.Mode = "USER" /\ cpu'.Mode # "USER" =>
       /\ cpu'.pc \in {VectorAddr(v) : v \in AllVectors}
       /\ cpu'.Spsr[ModeToBank(cpu'.Mode)] = CPSR(cpu)]_cpu

\* The place of each register, wherever it is while Reg holds the bank of mode.
ViewAs(s, mode) ==
  [b \in Banks |-> [r \in Regs |->
     IF Keeper(ModeToBank(mode), r) = b THEN s.Reg[r] ELSE s.RegBank[b][r]]]
View(s) == ViewAs(s, s.Mode)

AR == INSTANCE ArmRegisters
        WITH file <- View(cpu), psr <- CPSR(cpu), spsr <- cpu.Spsr, pc <- cpu.pc,
             stored <- cpu.stored

\* The transfers of the user bank that a data abort cuts short with the wrong
\* registers in Reg: every load, and a store by a mode with a bank of its own.
\* The exception itself is entered as any other.
MixedUp ==
  /\ \/ \E rs \in SUBSET (Regs \ {14}), v \in Vals : LoadSMultAborts(rs, v)
     \/ cpu.Bank # "USER" /\ StoreSMultAborts
  /\ cpu'.pc = VectorAddr("Data")
  /\ cpu'.Spsr = [cpu.Spsr EXCEPT !["ABORT"] = CPSR(cpu)]

\* The transfer that follows a stranded bank: it leaves out the switch to the
\* user bank and makes the switch back.  Status words and pc are untouched.
Unstranded ==
  /\ Stranded(cpu) /\ Agrees(cpu')
  /\ StoreSMult \/ \E rs \in SUBSET Regs, v \in Vals : LoadSMult(rs, v)
  /\ CPSR(cpu') = CPSR(cpu) /\ cpu'.Spsr = cpu.Spsr /\ cpu'.pc = cpu.pc

\* An aborted LDM with the PC: every register and saved status is as after the
\* exception, but the processor is at its vector in the mode it was in.
NotEntered ==
  \E rs \in SUBSET Regs, v \in Vals :
    /\ LdmPcAborts(rs, v)
    /\ cpu'.pc = VectorAddr("Data")
    /\ cpu'.Spsr = [cpu.Spsr EXCEPT !["ABORT"] = CPSR(cpu)]
    /\ CPSR(cpu') = CPSR(cpu)
    /\ View(cpu') = [AR!Put(View(cpu), cpu.Mode, rs, v)
                       EXCEPT !["ABORT"][14] = AR!Link("Data", cpu.pc, FALSE)]

\* Only aborted LDMs and STMs with the S bit leave the programmer's model, each
\* in its own way: an aborted user-bank transfer mixes up the registers of two
\* modes, one in ABORT mode makes the next transfer do so, an aborted return
\* takes no exception.  Every other switch, exception, return and transfer is a
\* step of that model, before such an abort and after it.  (With the bank
\* stranded MOVS pc does not return: it is one of the model's branches.)
RegistersUnlessAborted ==
  AR!Init /\ [][AR!Next \/ MixedUp \/ Unstranded \/ NotEntered]_(AR!vars)

\* No register is lost or mixed up: Reg, RegBank and the copies between them
\* implement the programmer's model, exceptions and returns included.
ImplementsRegisters == AR!Spec
=============================================================================
