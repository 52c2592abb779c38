----------------------------- MODULE MCArmBanks -----------------------------
(* ArmBanks with the values each run gives its constants.                   *)
EXTENDS ArmBanks, FiniteSets

CONSTANT MaxUsed   \* registers and saved statuses away from their reset value

\* What MSR writes: user mode and FIQ mode, interrupts enabled.  The other modes
\* are entered by their exceptions and by returning to them.
McPSRs == [mode : Modes \cap {"USER", "FIQ"}, bits : {{}}]

\* Explored: the states in which few registers of all modes are set, few modes
\* hold a saved status and few stored registers are set, together.
SetRegs == {<<b, r>> \in Banks \X Regs : View(cpu)[b][r] # 0}
Saving == {b \in Banks : cpu.Spsr[b].mode # "none"}
SetStored == {r \in Regs : cpu.stored[r] # 0}
FewUsed == Cardinality(SetRegs) + Cardinality(Saving) + Cardinality(SetStored) <= MaxUsed
=============================================================================
