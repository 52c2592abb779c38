--------------------------- MODULE ArmBanksProofs ---------------------------
(***************************************************************************)
(* ArmBanks, for every choice of registers, modes, status words, vectors   *)
(* and values: its types, where Bank and Mode may disagree, that user mode *)
(* is left only by an exception and, when no transfer with the S bit       *)
(* aborts, that the register banks implement the programmer's model.       *)
(***************************************************************************)
EXTENDS ArmBanks, TLAPS

\* ModeToBank maps the mode of a status word to one of the six banks.
LEMMA BankOfMode ==
  \A m \in AllModes : ModeToBank(m) \in Banks
BY DEF AllModes, Banks, ModeToBank

\* What ARMul_SwitchMode leaves alone, and the bank it selects.
LEMMA SwitchFields ==
  ASSUME NEW s \in State, NEW o \in AllModes, NEW m \in AllModes
  PROVE  LET t == SwitchMode(s, o, m)
         IN  /\ t \in State
             /\ t.Bank = ModeToBank(m)
             /\ t.Mode = s.Mode /\ t.bits = s.bits /\ t.Spsr = s.Spsr
             /\ t.pc = s.pc /\ t.stored = s.stored
<1> DEFINE old == ModeToBank(o)
           new == ModeToBank(m)
<1>1. old \in Banks /\ new \in Banks
  BY BankOfMode
<1>2. Saved(s, old, new) \in [Banks -> [Regs -> Nat]]
  BY DEF Saved, State
<1>3. CASE old = new
  BY <1>1, <1>3 DEF SwitchMode, State
<1>4. CASE old # new
  <2> DEFINE u == [s EXCEPT !.RegBank = Saved(s, old, new), !.Bank = new]
  <2>1. u \in State /\ u.Bank = new /\ u.Mode = s.Mode /\ u.bits = s.bits
        /\ u.Spsr = s.Spsr /\ u.pc = s.pc /\ u.stored = s.stored
    BY <1>1, <1>2 DEF State
  <2>2. \A r \in Regs : Keeper(new, r) \in Banks
    BY <1>1 DEF Keeper, Banks
  <2> HIDE DEF u
  <2>3. Restored(u, old, new) \in [Regs -> Nat]
    BY <2>1, <2>2 DEF Restored, State
  <2>4. SwitchMode(s, o, m) = [u EXCEPT !.Reg = Restored(u, old, new)]
    BY <1>4 DEF SwitchMode, u
  <2>. QED BY <2>1, <2>3, <2>4 DEF State
<1>. QED BY <1>3, <1>4

\* The copies ARMul_SwitchMode makes lose no register: seen from the new mode
\* every register has the value it had seen from the old one.
LEMMA SwitchKeepsView ==
  ASSUME NEW s \in State, NEW o \in AllModes, NEW m \in AllModes
  PROVE  ViewAs(SwitchMode(s, o, m), m) = ViewAs(s, o)
<1> DEFINE old == ModeToBank(o)
           new == ModeToBank(m)
           t == SwitchMode(s, o, m)
<1>1. old \in Banks /\ new \in Banks
  BY BankOfMode
<1>2. CASE old = new
  <2>1. t.Reg = s.Reg /\ t.RegBank = s.RegBank
    BY <1>2 DEF SwitchMode, State
  <2>. QED BY <1>2, <2>1 DEF ViewAs
<1>3. CASE old # new
  <2> DEFINE u == [s EXCEPT !.RegBank = Saved(s, old, new), !.Bank = new]
  <2>1. u.Reg = s.Reg /\ u.RegBank = Saved(s, old, new)
    BY DEF State
  <2>2. t.Reg = Restored(u, old, new) /\ t.RegBank = u.RegBank
    BY <1>3 DEF SwitchMode, State
  <2> HIDE DEF u, t
  <2>3. \A b \in Banks, r \in Regs :
          t.RegBank[b][r] = IF Moves(r, old, new) /\ Keeper(old, r) = b
                            THEN s.Reg[r] ELSE s.RegBank[b][r]
    BY <2>1, <2>2 DEF Saved
  <2>4. \A r \in Regs : t.Reg[r] = IF Moves(r, old, new)
                                   THEN u.RegBank[Keeper(new, r)][r] ELSE s.Reg[r]
    BY <2>1, <2>2 DEF Restored
  <2>5. ASSUME NEW b \in Banks, NEW r \in Regs
        PROVE  (IF Keeper(new, r) = b THEN t.Reg[r] ELSE t.RegBank[b][r])
               = IF Keeper(old, r) = b THEN s.Reg[r] ELSE s.RegBank[b][r]
    <3>1. Keeper(new, r) \in Banks /\ Keeper(old, r) \in Banks
      BY <1>1 DEF Keeper, Banks
    <3>2. CASE Moves(r, old, new)
      <4>1. Keeper(new, r) # Keeper(old, r)
        BY <1>3, <3>2 DEF Keeper, Moves
      <4>2. t.Reg[r] = s.RegBank[Keeper(new, r)][r]
        BY <2>1, <2>2, <2>3, <2>4, <3>1, <3>2, <4>1
      <4>. QED BY <2>3, <3>1, <3>2, <4>1, <4>2
    <3>3. CASE ~Moves(r, old, new)
      <4>1. Keeper(new, r) = Keeper(old, r)
        BY <3>3 DEF Keeper, Moves
      <4>. QED BY <2>3, <2>4, <3>3, <4>1
    <3>. QED BY <3>2, <3>3
  <2>. QED BY <2>5 DEF ViewAs, t
<1>. QED BY <1>2, <1>3

-----------------------------------------------------------------------------
(* The operations built on ARMul_SwitchMode.                                *)

\* What a change of the status word does to Bank: it ends as the bank of the
\* mode, or the mode did not change and Bank was left alone.
BankFollows(s, t) == Agrees(t) \/ (t.Mode = s.Mode /\ t.Bank = s.Bank)

\* Changes of the status word can be put one after the other.
LEMMA FollowsTrans ==
  ASSUME NEW s, NEW t, NEW u, BankFollows(s, t), BankFollows(t, u)
  PROVE  BankFollows(s, u)
BY DEF BankFollows, Agrees

\* ARMul_CPSRAltered takes the status word and moves the banks with it.
LEMMA SetCPSRFields ==
  ASSUME NEW s \in State, NEW w \in Words, w.mode \in AllModes
  PROVE  LET t == SetCPSR(s, w)
         IN  /\ t \in State
             /\ BankFollows(s, t)
             /\ CPSR(t) = w /\ t.Mode = w.mode
             /\ t.Spsr = s.Spsr /\ t.pc = s.pc /\ t.stored = s.stored
             /\ View(t) = View(s)
<1> DEFINE u == IF s.Mode = w.mode THEN s ELSE SwitchMode(s, s.Mode, w.mode)
           t == SetCPSR(s, w)
<1>1. s.Mode \in AllModes
  BY DEF State
<1>2. /\ u \in State
      /\ s.Mode = w.mode => u.Bank = s.Bank
      /\ s.Mode # w.mode => u.Bank = ModeToBank(w.mode)
      /\ u.Spsr = s.Spsr /\ u.pc = s.pc /\ u.stored = s.stored
  BY <1>1, SwitchFields
<1>3. ViewAs(u, w.mode) = ViewAs(s, s.Mode)
  BY <1>1, SwitchKeepsView
<1>4. t = [u EXCEPT !.Mode = w.mode, !.bits = w.bits]
  BY DEF SetCPSR
<1> HIDE DEF u, t
<1>5. /\ t \in State /\ t.Mode = w.mode /\ t.bits = w.bits /\ t.Bank = u.Bank
      /\ t.Reg = u.Reg /\ t.RegBank = u.RegBank
      /\ t.Spsr = u.Spsr /\ t.pc = u.pc /\ t.stored = u.stored
  BY <1>2, <1>4 DEF State, Words
<1>6. View(t) = View(s)
  BY <1>3, <1>5 DEF View, ViewAs
<1>7. CPSR(t) = w
  BY <1>5 DEF CPSR, Words
<1>8. BankFollows(s, t)
  BY <1>2, <1>5 DEF BankFollows, Agrees
<1>. QED BY <1>2, <1>5, <1>6, <1>7, <1>8 DEF t

\* Loading registers while Reg holds the bank of a mode writes their places.
LEMMA LoadedFields ==
  ASSUME NEW s \in State, NEW rs \in SUBSET Regs, NEW v \in Nat, NEW m \in AllModes
  PROVE  LET t == Loaded(s, rs, v)
         IN  /\ t \in State
             /\ t.Bank = s.Bank /\ t.Mode = s.Mode /\ t.bits = s.bits
             /\ t.Spsr = s.Spsr /\ t.pc = s.pc /\ t.stored = s.stored
             /\ ViewAs(t, m) = AR!Put(ViewAs(s, m), m, rs, v)
<1> DEFINE t == Loaded(s, rs, v)
           reg == [r \in Regs |-> IF r \in rs THEN v ELSE s.Reg[r]]
<1>1. t = [s EXCEPT !.Reg = reg]
  BY DEF Loaded
<1>2. reg \in [Regs -> Nat]
  BY DEF State
<1> HIDE DEF t
<1>3. /\ t \in State /\ t.Bank = s.Bank /\ t.Mode = s.Mode /\ t.bits = s.bits
      /\ t.Spsr = s.Spsr /\ t.pc = s.pc /\ t.stored = s.stored
      /\ t.RegBank = s.RegBank
  BY <1>1, <1>2 DEF State
<1>4. \A r \in Regs : t.Reg[r] = IF r \in rs THEN v ELSE s.Reg[r]
  BY <1>1 DEF State
<1>5. \A r \in Regs : AR!Home(AR!BankOf(m), r) = Keeper(ModeToBank(m), r)
  BY DEF AR!Home, AR!BankOf, Keeper, ModeToBank, Linked, AR!Linked
<1>6. ViewAs(t, m) = AR!Put(ViewAs(s, m), m, rs, v)
  BY <1>3, <1>4, <1>5
  DEF ViewAs, AR!Put, AR!Banks, Banks, AR!Regs, Regs, AR!Linked, Linked
<1>. QED BY <1>3, <1>6 DEF t

\* ARMul_Abort: the exception's mode, link, status, masks and address.
LEMMA AbortFields ==
  ASSUME NEW s \in State, NEW v \in AllVectors
  PROVE  LET t == Abort(s, v)
             e == AR!Exception[v]
         IN  /\ t \in State
             /\ BankFollows(s, t)
             /\ CPSR(t) = [mode |-> e.mode, bits |-> (s.bits \ {"T"}) \cup e.mask]
             /\ t.Spsr = [s.Spsr EXCEPT ![e.mode] = CPSR(s)]
             /\ t.pc = e.addr /\ t.pc = VectorAddr(v) /\ t.stored = s.stored
             /\ t.Mode # "USER" /\ t.Mode = ModeToBank(t.Mode)
             /\ View(t) = [View(s) EXCEPT ![e.mode][14] = AR!Link(v, s.pc, "T" \in s.bits)]
<1> DEFINE t == Abort(s, v)
           e == AR!Exception[v]
           w == [mode |-> e.mode, bits |-> (s.bits \ {"T"}) \cup e.mask]
           saved == [s EXCEPT !.Spsr[e.mode] = CPSR(s)]
           there == SetCPSR(saved, w)
<1>1. /\ e.mode = ExceptionMode(v) /\ e.addr = VectorAddr(v) /\ e.mask = Masks(v)
      /\ e.mode \in Banks \ {"USER"} /\ e.mode \in AllModes /\ e.addr \in Nat
      /\ e.mask \subseteq Bits /\ ModeToBank(e.mode) = e.mode
  <2>1. v \in {"Undef", "SWI", "Prefetch", "Data", "IRQ", "FIQ"}
    BY DEF AllVectors
  <2>. QED
    BY <2>1 DEF AR!Exception, ExceptionMode, VectorAddr, Masks, Banks, AllModes, Bits, ModeToBank
<1> HIDE DEF e
<1>2. CPSR(s) \in Words
  BY DEF CPSR, Words, State
<1>3. /\ saved \in State /\ saved.Spsr = [s.Spsr EXCEPT ![e.mode] = CPSR(s)]
      /\ saved.pc = s.pc /\ saved.stored = s.stored /\ saved.Mode = s.Mode /\ saved.Bank = s.Bank
      /\ saved.Reg = s.Reg /\ saved.RegBank = s.RegBank
  BY <1>1, <1>2 DEF State
<1>4. w \in Words /\ w.mode \in AllModes
  BY <1>1 DEF Words, State
<1>5. t = [there EXCEPT !.Reg[14] = LinkValue(s, v), !.pc = VectorAddr(v)]
  BY <1>1 DEF Abort
<1> HIDE DEF t, w, saved
<1>6. /\ there \in State /\ BankFollows(saved, there) /\ CPSR(there) = w
      /\ there.Spsr = saved.Spsr /\ there.stored = saved.stored
      /\ View(there) = View(saved)
  BY <1>3, <1>4, SetCPSRFields
<1>7. View(saved) = View(s)
  BY <1>3 DEF View, ViewAs
<1>8. LinkValue(s, v) \in Nat /\ LinkValue(s, v) = AR!Link(v, s.pc, "T" \in s.bits)
  BY DEF LinkValue, R15, Insn, AR!Link, State, AllVectors
<1> HIDE DEF there
<1>9. /\ t \in State /\ t.Bank = there.Bank /\ t.Mode = there.Mode /\ t.bits = there.bits
      /\ t.Spsr = there.Spsr /\ t.stored = there.stored /\ t.pc = VectorAddr(v)
      /\ t.RegBank = there.RegBank
      /\ t.Reg = [there.Reg EXCEPT ![14] = LinkValue(s, v)]
  BY <1>1, <1>5, <1>6, <1>8 DEF State
<1>10. there.Mode = e.mode /\ CPSR(t) = w
  BY <1>6, <1>9 DEF CPSR, w
<1>11. View(t) = [View(there) EXCEPT ![e.mode][14] = LinkValue(s, v)]
  <2>1. Keeper(e.mode, 14) = e.mode /\ 14 \in Regs
    BY DEF Keeper, Linked, Regs
  <2>2. there.Reg \in [Regs -> Nat]
    BY <1>6 DEF State
  <2>3. \A r \in Regs : t.Reg[r] = IF r = 14 THEN LinkValue(s, v) ELSE there.Reg[r]
    BY <1>9, <2>1, <2>2
  <2>4. View(t) = [b \in Banks |-> [r \in Regs |->
                    IF Keeper(e.mode, r) = b THEN t.Reg[r] ELSE there.RegBank[b][r]]]
    BY <1>1, <1>9, <1>10 DEF View, ViewAs
  <2>5. View(there) = [b \in Banks |-> [r \in Regs |->
                    IF Keeper(e.mode, r) = b THEN there.Reg[r] ELSE there.RegBank[b][r]]]
    BY <1>1, <1>10 DEF View, ViewAs
  <2>6. \A b \in Banks : Keeper(e.mode, 14) = b <=> b = e.mode
    BY <2>1
  <2>7. /\ View(there) \in [Banks -> [Regs -> Nat]]
        /\ \A b \in Banks, r \in Regs : View(there)[b][r] =
             IF Keeper(e.mode, r) = b THEN there.Reg[r] ELSE there.RegBank[b][r]
    BY <1>6, <2>5 DEF State
  <2>8. [View(there) EXCEPT ![e.mode][14] = LinkValue(s, v)]
        = [b \in Banks |-> [r \in Regs |->
             IF b = e.mode /\ r = 14 THEN LinkValue(s, v) ELSE View(there)[b][r]]]
    BY <1>1, <2>1, <2>7
  <2>9. \A b \in Banks, r \in Regs :
          (IF Keeper(e.mode, r) = b THEN t.Reg[r] ELSE there.RegBank[b][r])
          = IF b = e.mode /\ r = 14 THEN LinkValue(s, v) ELSE View(there)[b][r]
    BY <2>3, <2>6, <2>7
  <2>. QED BY <2>4, <2>8, <2>9
<1>12. BankFollows(s, t)
  BY <1>3, <1>6, <1>9 DEF BankFollows, Agrees
<1>. QED BY <1>1, <1>3, <1>6, <1>7, <1>8, <1>9, <1>10, <1>11, <1>12 DEF t, w, e

\* LoadSMult's restoring of the status, in a mode that has one or not.
LEMMA RestoreFields ==
  ASSUME NEW s \in State, s.Mode # "USER" => GetSPSR(s).mode \in AllModes
  PROVE  LET t == Restore(s)
         IN  /\ t \in State
             /\ BankFollows(s, t)
             /\ CPSR(t) = IF s.Mode # "USER" THEN GetSPSR(s) ELSE CPSR(s)
             /\ t.Spsr = s.Spsr /\ t.pc = s.pc /\ t.stored = s.stored
             /\ View(t) = View(s)
<1>1. CASE s.Mode = "USER"
  BY <1>1 DEF Restore, BankFollows
<1>2. CASE s.Mode # "USER"
  <2>1. s.Mode \in AllModes /\ CPSR(s) \in Words
    BY DEF State, CPSR, Words
  <2>2. ModeToBank(s.Mode) \in Banks
    BY <2>1, BankOfMode
  <2>3. GetSPSR(s) \in Words
    BY <2>1, <2>2 DEF GetSPSR, State
  <2>4. GetSPSR(s).mode \in AllModes
    BY <1>2
  <2> DEFINE w == GetSPSR(s)
  <2>5. Restore(s) = SetCPSR(s, w)
    BY <1>2 DEF Restore
  <2> HIDE DEF w
  <2>6. LET t == SetCPSR(s, w)
        IN  /\ t \in State /\ BankFollows(s, t) /\ CPSR(t) = w
            /\ t.Spsr = s.Spsr /\ t.pc = s.pc /\ t.stored = s.stored
            /\ View(t) = View(s)
    BY <2>3, <2>4, SetCPSRFields DEF w
  <2>. QED BY <1>2, <2>5, <2>6 DEF w
<1>. QED BY <1>1, <1>2

\* A data abort in the middle of an LDM with the PC: registers, link and saved
\* status are those of the exception, mode and masks are the interrupted ones.
LEMMA LdmPcAbortFields ==
  ASSUME NEW s \in State, NEW rs \in SUBSET Regs, NEW v \in Nat
  PROVE  LET t == Restore(Abort(Loaded(s, rs, v), "Data"))
         IN  /\ t \in State
             /\ BankFollows(s, t)
             /\ CPSR(t) = CPSR(s)
             /\ t.Spsr = [s.Spsr EXCEPT !["ABORT"] = CPSR(s)]
             /\ t.pc = VectorAddr("Data")
             /\ View(t) = [AR!Put(View(s), s.Mode, rs, v)
                             EXCEPT !["ABORT"][14] = AR!Link("Data", s.pc, "T" \in s.bits)]
<1> DEFINE l == Loaded(s, rs, v)
           x == Abort(l, "Data")
           t == Restore(x)
<1>1. /\ l \in State /\ l.Bank = s.Bank /\ l.Mode = s.Mode /\ l.bits = s.bits
      /\ l.Spsr = s.Spsr /\ l.pc = s.pc
      /\ ViewAs(l, s.Mode) = AR!Put(ViewAs(s, s.Mode), s.Mode, rs, v)
  <2>1. s.Mode \in AllModes
    BY DEF State
  <2>. QED BY <2>1, LoadedFields
<1>2. BankFollows(s, l) /\ CPSR(l) = CPSR(s) /\ View(l) = AR!Put(View(s), s.Mode, rs, v)
  BY <1>1 DEF BankFollows, CPSR, View
<1> HIDE DEF l
<1>3. "Data" \in AllVectors /\ AR!Exception["Data"].mode = "ABORT"
  BY DEF AllVectors, AR!Exception
<1>4. /\ x \in State /\ BankFollows(l, x)
      /\ x.Spsr = [l.Spsr EXCEPT !["ABORT"] = CPSR(l)]
      /\ x.pc = VectorAddr("Data") /\ x.Mode # "USER"
      /\ CPSR(x) = [mode |-> "ABORT",
                    bits |-> (l.bits \ {"T"}) \cup AR!Exception["Data"].mask]
      /\ View(x) = [View(l) EXCEPT !["ABORT"][14] = AR!Link("Data", l.pc, "T" \in l.bits)]
  <2> DEFINE e == AR!Exception["Data"]
  <2>1. /\ x \in State /\ BankFollows(l, x)
        /\ x.Spsr = [l.Spsr EXCEPT ![e.mode] = CPSR(l)]
        /\ x.pc = VectorAddr("Data") /\ x.Mode # "USER"
        /\ CPSR(x) = [mode |-> e.mode, bits |-> (l.bits \ {"T"}) \cup e.mask]
        /\ View(x) = [View(l) EXCEPT ![e.mode][14] = AR!Link("Data", l.pc, "T" \in l.bits)]
    BY <1>1, <1>3, AbortFields
  <2>. QED BY <1>3, <2>1
<1> HIDE DEF x
<1>5. x.Mode = "ABORT" /\ CPSR(l) \in Words /\ CPSR(l).mode \in AllModes
  BY <1>1, <1>4 DEF CPSR, Words, State
<1>6. GetSPSR(x) = CPSR(l)
  <2>1. l.Spsr \in [Banks -> Words] /\ "ABORT" \in Banks
    BY <1>1 DEF State, Banks
  <2>. QED BY <1>4, <1>5, <2>1 DEF GetSPSR, ModeToBank, BankHasSpsr
<1>7. /\ t \in State /\ BankFollows(x, t) /\ CPSR(t) = CPSR(l)
      /\ t.Spsr = x.Spsr /\ t.pc = x.pc /\ View(t) = View(x)
  BY <1>4, <1>5, <1>6, RestoreFields
<1> HIDE DEF t
<1>8. BankFollows(s, t)
  BY <1>2, <1>4, <1>7, FollowsTrans
<1>. QED BY <1>1, <1>2, <1>4, <1>7, <1>8 DEF t, x, l

-----------------------------------------------------------------------------
(* The user bank.  Good is inductive: the types need Bank, which picks the  *)
(* row of RegBank and of Spsr, and Bank needs the types.                    *)

Good(s) == s \in State /\ (Agrees(s) \/ Stranded(s))

\* The user-bank transfers: on the way in the user bank is what Reg holds, if
\* Bank tells which bank it held before.
LEMMA ToUserFields ==
  ASSUME NEW s, Good(s)
  PROVE  LET u == ToUserBank(s)
         IN  /\ u \in State /\ u.Bank = "USER"
             /\ u.Mode = s.Mode /\ u.bits = s.bits /\ u.Spsr = s.Spsr
             /\ u.pc = s.pc /\ u.stored = s.stored
             /\ Agrees(s) => ViewAs(u, "USER") = View(s)
<1>1. s \in State /\ s.Mode \in AllModes /\ "USER" \in AllModes
      /\ ModeToBank("USER") = "USER"
  BY DEF Good, State, AllModes, Banks, ModeToBank
<1>2. CASE s.Bank = "USER"
  BY <1>1, <1>2 DEF ToUserBank, View, ViewAs, Agrees
<1>3. CASE s.Bank # "USER"
  BY <1>1, <1>3, SwitchFields, SwitchKeepsView DEF ToUserBank, View
<1>. QED BY <1>2, <1>3

\* On the way back Reg holds the bank of the mode again.
LEMMA FromUserFields ==
  ASSUME NEW u \in State, u.Mode = "USER" => u.Bank = "USER"
  PROVE  LET t == FromUserBank(u)
         IN  /\ t \in State /\ Agrees(t)
             /\ t.Mode = u.Mode /\ t.bits = u.bits /\ t.Spsr = u.Spsr
             /\ t.pc = u.pc /\ t.stored = u.stored
             /\ View(t) = ViewAs(u, "USER")
<1>1. u.Mode \in AllModes /\ "USER" \in AllModes /\ ModeToBank("USER") = "USER"
  BY DEF State, AllModes, Banks, ModeToBank
<1>2. CASE u.Mode = "USER"
  BY <1>1, <1>2 DEF FromUserBank, View, Agrees
<1>3. CASE u.Mode # "USER"
  BY <1>1, <1>3, SwitchFields, SwitchKeepsView DEF FromUserBank, View, Agrees
<1>. QED BY <1>2, <1>3

-----------------------------------------------------------------------------
(* The steps.                                                               *)

\* What the operands of an instruction may be.
LEMMA Operands ==
  /\ Vals \subseteq Nat /\ PCs \subseteq Nat /\ Vectors \subseteq AllVectors
  /\ \A w \in PSRs : w \in Words /\ w.mode \in AllModes
  /\ Modes \subseteq AllModes
BY ModesAssumption, PsrsAssumption, ValuesAssumption DEF Words, Bits

\* Reset establishes it.
LEMMA InitGood == Init => Good(cpu)
BY DEF Init, Good, State, Words, Banks, AllModes, Bits, Regs, Linked, ModeToBank, Agrees

\* The state after a step, as BankMatches allows it.
Stays ==
  cpu' \in State /\ (Agrees(cpu') \/ (Stranded(cpu') /\ (Stranded(cpu) \/ AbortedInAbortMode)))

\* A step that changes Bank only along with the mode.
LEMMA FollowsStays ==
  ASSUME Good(cpu), cpu' \in State, BankFollows(cpu, cpu')
  PROVE  Stays
BY DEF Good, Stays, BankFollows, Agrees, Stranded

\* Every instruction and exception.
LEMMA NextStays ==
  ASSUME Good(cpu), Next
  PROVE  Stays
<1>1. cpu \in State /\ cpu.Mode \in AllModes /\ "Data" \in AllVectors
  BY DEF Good, State, AllVectors
<1>2. ASSUME NEW rs \in SUBSET Regs, NEW v \in Vals, Write(rs, v)
      PROVE  Stays
  <2>1. cpu' = Loaded(cpu, rs, v) /\ v \in Nat
    BY <1>2, Operands DEF Write
  <2>2. cpu' \in State /\ cpu'.Bank = cpu.Bank /\ cpu'.Mode = cpu.Mode
    BY <1>1, <2>1, LoadedFields
  <2>. QED BY <2>2, FollowsStays DEF BankFollows
<1>3. ASSUME NEW rs \in SUBSET Regs, NEW v \in Vals, LoadSMult(rs, v)
      PROVE  Stays
  <2> DEFINE u == ToUserBank(cpu)
             l == Loaded(u, rs, v)
  <2>1. u \in State /\ u.Bank = "USER" /\ u.Mode = cpu.Mode
    BY ToUserFields
  <2>2. l \in State /\ l.Bank = "USER"
    BY <1>1, <2>1, Operands, LoadedFields
  <2>. QED BY <1>3, <2>2, FromUserFields DEF LoadSMult, Stays
<1>4. ASSUME NEW rs \in SUBSET Regs, NEW v \in Vals, NEW a \in PCs, LdmPc(rs, v, a)
      PROVE  Stays
  <2> DEFINE l == Loaded(cpu, rs, v)
             t == Restore(l)
  <2>1. l \in State /\ l.Mode = cpu.Mode /\ l.Bank = cpu.Bank /\ l.bits = cpu.bits
        /\ l.Spsr = cpu.Spsr
    BY <1>1, Operands, LoadedFields
  <2>2. GetSPSR(l).mode \in AllModes /\ BankFollows(cpu, l)
    BY <1>4, <2>1, Operands DEF LdmPc, GetSPSR, CPSR, BankFollows
  <2> HIDE DEF l
  <2>3. t \in State /\ BankFollows(l, t)
    BY <2>1, <2>2, RestoreFields
  <2>4. cpu' = [t EXCEPT !.pc = a] /\ a \in Nat
    BY <1>4, Operands DEF LdmPc, l
  <2> HIDE DEF t
  <2>5. cpu' \in State /\ cpu'.Mode = t.Mode /\ cpu'.Bank = t.Bank
    BY <2>3, <2>4 DEF State
  <2>6. BankFollows(cpu, cpu')
    BY <2>2, <2>3, <2>5 DEF BankFollows, Agrees
  <2>. QED BY <2>5, <2>6, FollowsStays
<1>5. ASSUME NEW a \in PCs, MovsPc(a)
      PROVE  Stays
  <2> DEFINE t == IF BankHasSpsr(cpu.Bank) THEN SetCPSR(cpu, cpu.Spsr[cpu.Bank]) ELSE cpu
  <2>3. t \in State /\ BankFollows(cpu, t)
    <3>1. CASE BankHasSpsr(cpu.Bank)
      <4>1. cpu.Spsr[cpu.Bank] \in Words /\ cpu.Spsr[cpu.Bank].mode \in AllModes
        BY <1>1, <1>5, <3>1, Operands DEF MovsPc, State
      <4>. QED BY <1>1, <3>1, <4>1, SetCPSRFields
    <3>2. CASE ~BankHasSpsr(cpu.Bank)
      BY <1>1, <3>2 DEF BankFollows
    <3>. QED BY <3>1, <3>2
  <2>4. cpu' = [t EXCEPT !.pc = a] /\ a \in Nat
    BY <1>5, Operands DEF MovsPc
  <2> HIDE DEF t
  <2>5. cpu' \in State /\ cpu'.Mode = t.Mode /\ cpu'.Bank = t.Bank
    BY <2>3, <2>4 DEF State
  <2>6. BankFollows(cpu, cpu')
    BY <2>3, <2>5 DEF BankFollows, Agrees
  <2>. QED BY <2>5, <2>6, FollowsStays
<1>6. ASSUME NEW rs \in SUBSET Regs, NEW v \in Vals, LdmPcAborts(rs, v)
      PROVE  Stays
  <2>1. cpu' \in State /\ BankFollows(cpu, cpu')
    BY <1>1, <1>6, Operands, LdmPcAbortFields DEF LdmPcAborts
  <2>. QED BY <2>1, FollowsStays
<1>7. ASSUME NEW rs \in SUBSET (Regs \ {14}), NEW v \in Vals, LoadSMultAborts(rs, v)
      PROVE  Stays
  <2> DEFINE u == ToUserBank(cpu)
             l == Loaded(u, rs, v)
             x == Abort(l, "Data")
  <2>1. u \in State
    BY ToUserFields
  <2>2. l \in State
    BY <1>1, <2>1, Operands, LoadedFields
  <2>3. x \in State /\ x.Mode # "USER"
    BY <1>1, <2>2, AbortFields
  <2>. QED BY <1>7, <2>3, FromUserFields DEF LoadSMultAborts, Stays
<1>8. ASSUME NEW a \in PCs, NEW thumb \in BOOLEAN, Branch(a, thumb)
      PROVE  Stays
  <2>1. PICK bits \in SUBSET Bits : cpu' = [cpu EXCEPT !.pc = a, !.bits = bits]
    BY <1>1, <1>8 DEF Branch, State, Bits
  <2>2. cpu' \in State /\ cpu'.Mode = cpu.Mode /\ cpu'.Bank = cpu.Bank
    BY <1>1, <2>1, Operands DEF State
  <2>. QED BY <2>2, FollowsStays DEF BankFollows
<1>9. ASSUME NEW w \in PSRs, MSR(w)
      PROVE  Stays
  <2>1. CPSR(cpu) \in Words /\ CPSR(cpu).mode \in AllModes
    BY <1>1 DEF CPSR, Words, State
  <2>2. PICK p \in Words : p.mode \in AllModes /\ cpu' = SetCPSR(cpu, p)
    BY <1>9, <2>1, Operands DEF MSR, FixCPSR
  <2>3. cpu' \in State /\ BankFollows(cpu, cpu')
    BY <1>1, <2>2, SetCPSRFields
  <2>. QED BY <2>3, FollowsStays
<1>10. ASSUME NEW w \in PSRs, FixSPSR(w)
       PROVE  Stays
  <2>1. cpu' = [cpu EXCEPT !.Spsr[cpu.Bank] = w] /\ w \in Words
    BY <1>10, Operands DEF FixSPSR
  <2>2. cpu' \in State /\ cpu'.Mode = cpu.Mode /\ cpu'.Bank = cpu.Bank
    BY <1>1, <2>1 DEF State
  <2>. QED BY <2>2, FollowsStays DEF BankFollows
<1>11. ASSUME NEW v \in Vectors, Take(v)
       PROVE  Stays
  <2>1. cpu' \in State /\ BankFollows(cpu, cpu')
    BY <1>1, <1>11, Operands, AbortFields DEF Take
  <2>. QED BY <2>1, FollowsStays
<1>12. CASE StoreSMult
  <2> DEFINE u == ToUserBank(cpu)
             t == FromUserBank(u)
  <2>1. u \in State /\ u.Bank = "USER"
    BY ToUserFields
  <2>2. t \in State /\ Agrees(t)
    BY <2>1, FromUserFields
  <2>3. cpu' = [t EXCEPT !.stored = u.Reg] /\ u.Reg \in [Regs -> Nat]
    BY <1>12, <2>1 DEF StoreSMult, State
  <2> HIDE DEF t, u
  <2>4. cpu' \in State /\ cpu'.Mode = t.Mode /\ cpu'.Bank = t.Bank
    BY <2>2, <2>3 DEF State
  <2>. QED BY <2>2, <2>4 DEF Stays, Agrees
<1>13. CASE StoreSMultAborts
  <2> DEFINE u == ToUserBank(cpu)
  <2>1. u \in State /\ u.Bank = "USER" /\ u.Mode = cpu.Mode
    BY ToUserFields
  <2>2. cpu' = Abort(u, "Data")
    BY <1>13 DEF StoreSMultAborts
  <2> HIDE DEF u
  <2>3. /\ cpu' \in State /\ BankFollows(u, cpu')
        /\ CPSR(cpu') = [mode |-> AR!Exception["Data"].mode,
                         bits |-> (u.bits \ {"T"}) \cup AR!Exception["Data"].mask]
    BY <1>1, <2>1, <2>2, AbortFields
  <2>4. cpu'.Mode = "ABORT"
    BY <2>3 DEF CPSR, AR!Exception
  <2>. QED BY <1>13, <2>1, <2>3, <2>4 DEF Stays, BankFollows, Stranded, AbortedInAbortMode
<1>. QED
  BY <1>2, <1>3, <1>4, <1>5, <1>6, <1>7, <1>8, <1>9, <1>10, <1>11, <1>12, <1>13 DEF Next

BanksInv == Good(cpu)

\* Types and the relation of Bank and Mode, together.
LEMMA GoodAlways == Spec => []BanksInv
<1>1. Init => BanksInv
  BY InitGood DEF BanksInv
<1>2. BanksInv /\ [Next]_cpu => BanksInv'
  BY NextStays DEF BanksInv, Good, Stays
<1>. QED BY <1>1, <1>2, PTL DEF Spec

\* Registers, banks, modes and status words keep their types.
THEOREM BanksTypes == Spec => []BanksTypeOK
<1>1. BanksInv => BanksTypeOK
  BY DEF BanksInv, Good, BanksTypeOK
<1>. QED BY <1>1, GoodAlways, PTL

\* state->Bank is the bank of state->Mode after every instruction and exception,
\* aborted ones included, but for the store of the user bank that aborts in
\* ABORT mode and the steps that follow it in that mode.
THEOREM BankAgreement == Spec => BankMatches
<1>1. BanksInv /\ [Next]_cpu =>
        [Agrees(cpu') \/ (Stranded(cpu') /\ (Stranded(cpu) \/ AbortedInAbortMode))]_cpu
  BY NextStays DEF BanksInv, Stays
<1>. QED BY <1>1, GoodAlways, PTL DEF Spec, BankMatches

-----------------------------------------------------------------------------
(* Privilege.                                                               *)

\* A step that leaves user mode is an exception: the others keep the mode or
\* need a bank with a saved status word.
LEMMA NextNoEscalation ==
  ASSUME Good(cpu), Next, cpu.Mode = "USER", cpu'.Mode # "USER"
  PROVE  /\ cpu'.pc \in {VectorAddr(v) : v \in AllVectors}
         /\ cpu'.Spsr[ModeToBank(cpu'.Mode)] = CPSR(cpu)
<1> DEFINE Excepted == /\ cpu'.pc \in {VectorAddr(v) : v \in AllVectors}
                       /\ cpu'.Spsr[ModeToBank(cpu'.Mode)] = CPSR(cpu)
<1>1. cpu \in State /\ cpu.Bank = "USER" /\ Agrees(cpu)
      /\ cpu.Mode \in AllModes /\ "Data" \in AllVectors
  BY DEF Good, State, Agrees, Stranded, ModeToBank, AllVectors
<1>2. ASSUME NEW s \in State, NEW v \in AllVectors, CPSR(s) = CPSR(cpu), s.Spsr = cpu.Spsr,
             NEW t, t.pc = Abort(s, v).pc, t.Mode = Abort(s, v).Mode,
             t.Spsr = Abort(s, v).Spsr
      PROVE  /\ t.pc \in {VectorAddr(w) : w \in AllVectors}
             /\ t.Spsr[ModeToBank(t.Mode)] = CPSR(cpu)
  <2> DEFINE x == Abort(s, v)
             e == AR!Exception[v]
  <2>1. x \in State /\ x.Spsr = [cpu.Spsr EXCEPT ![e.mode] = CPSR(cpu)]
        /\ x.pc = VectorAddr(v) /\ x.Mode = ModeToBank(x.Mode)
        /\ CPSR(x) = [mode |-> e.mode, bits |-> (s.bits \ {"T"}) \cup e.mask]
    BY <1>2, AbortFields
  <2>2. x.Mode = e.mode
    BY <2>1 DEF CPSR
  <2>3. ModeToBank(x.Mode) \in Banks
    BY <2>1, BankOfMode DEF State
  <2>4. cpu.Spsr \in [Banks -> Words]
    BY <1>1 DEF State
  <2> HIDE DEF x, e
  <2>5. t.pc = x.pc /\ t.Mode = x.Mode /\ t.Spsr = x.Spsr
    BY <1>2 DEF x
  <2>. QED BY <2>1, <2>2, <2>3, <2>4, <2>5
<1>3. ASSUME NEW rs \in SUBSET Regs, NEW v \in Vals, Write(rs, v) \/ LoadSMult(rs, v)
      PROVE  FALSE
  <2>1. v \in Nat
    BY Operands
  <2>2. CASE Write(rs, v)
    BY <1>1, <2>1, <2>2, LoadedFields DEF Write
  <2>3. CASE LoadSMult(rs, v)
    <3> DEFINE u == ToUserBank(cpu)
               l == Loaded(u, rs, v)
    <3>1. u \in State /\ u.Bank = "USER" /\ u.Mode = "USER"
      BY <1>1, ToUserFields
    <3>2. l \in State /\ l.Bank = "USER" /\ l.Mode = "USER"
      BY <1>1, <2>1, <3>1, LoadedFields
    <3>. QED BY <2>3, <3>2, FromUserFields DEF LoadSMult
  <2>. QED BY <1>3, <2>2, <2>3
<1>4. ASSUME NEW rs \in SUBSET Regs, NEW v \in Vals, NEW a \in PCs, LdmPc(rs, v, a)
      PROVE  FALSE
  <2> DEFINE l == Loaded(cpu, rs, v)
  <2>1. l \in State /\ l.Mode = "USER"
    BY <1>1, Operands, LoadedFields
  <2>2. cpu' = [l EXCEPT !.pc = a]
    BY <1>4, <2>1 DEF LdmPc, Restore
  <2> HIDE DEF l
  <2>. QED BY <2>1, <2>2 DEF State
<1>11. ASSUME NEW a \in PCs, MovsPc(a)
       PROVE  FALSE
  BY <1>1, <1>11 DEF MovsPc, BankHasSpsr, State
<1>12. ASSUME NEW rs \in SUBSET Regs, NEW v \in Vals, LdmPcAborts(rs, v)
       PROVE  FALSE
  <2>1. CPSR(cpu') = CPSR(cpu)
    BY <1>1, <1>12, Operands, LdmPcAbortFields DEF LdmPcAborts
  <2>. QED BY <2>1 DEF CPSR
<1>5. ASSUME NEW rs \in SUBSET (Regs \ {14}), NEW v \in Vals, LoadSMultAborts(rs, v)
      PROVE  Excepted
  <2> DEFINE u == ToUserBank(cpu)
             l == Loaded(u, rs, v)
             x == Abort(l, "Data")
  <2>1. u \in State /\ CPSR(u) = CPSR(cpu) /\ u.Spsr = cpu.Spsr
    BY <1>1, ToUserFields DEF CPSR
  <2>2. l \in State /\ CPSR(l) = CPSR(cpu) /\ l.Spsr = cpu.Spsr
    <3>1. rs \in SUBSET Regs /\ v \in Nat
      BY Operands
    <3> HIDE DEF u
    <3>2. l \in State /\ l.Mode = u.Mode /\ l.bits = u.bits /\ l.Spsr = u.Spsr
      BY <1>1, <2>1, <3>1, LoadedFields
    <3>. QED BY <2>1, <3>2 DEF CPSR
  <2>3. x \in State /\ x.Mode # "USER"
    BY <1>1, <2>2, AbortFields
  <2>4. cpu'.pc = x.pc /\ cpu'.Mode = x.Mode /\ cpu'.Spsr = x.Spsr
    BY <1>5, <2>3, FromUserFields DEF LoadSMultAborts
  <2>. QED BY <1>1, <1>2, <2>2, <2>4
<1>6. ASSUME NEW a \in PCs, NEW thumb \in BOOLEAN, Branch(a, thumb)
      PROVE  FALSE
  BY <1>1, <1>6 DEF Branch, State
<1>7. ASSUME NEW w \in PSRs, MSR(w) \/ FixSPSR(w)
      PROVE  FALSE
  <2>1. CPSR(cpu) \in Words /\ CPSR(cpu).mode = "USER" /\ "USER" \in AllModes
    BY <1>1 DEF CPSR, Words, State, AllModes, Banks
  <2>2. CASE MSR(w)
    BY <1>1, <2>1, <2>2, SetCPSRFields DEF MSR, FixCPSR, CPSR
  <2>3. CASE FixSPSR(w)
    BY <1>1, <2>3 DEF FixSPSR, BankHasSpsr
  <2>. QED BY <1>7, <2>2, <2>3
<1>8. ASSUME NEW v \in Vectors, Take(v)
      PROVE  Excepted
  BY <1>1, <1>2, <1>8, Operands DEF Take
<1>9. CASE StoreSMult
  <2> DEFINE u == ToUserBank(cpu)
             t == FromUserBank(u)
  <2>1. u \in State /\ u.Bank = "USER" /\ u.Mode = "USER"
    BY <1>1, ToUserFields
  <2>2. t \in State /\ t.Mode = "USER"
    BY <2>1, FromUserFields
  <2>3. cpu' = [t EXCEPT !.stored = u.Reg]
    BY <1>9 DEF StoreSMult
  <2>4. cpu'.Mode = "USER"
    BY <2>2, <2>3 DEF State
  <2>. QED BY <2>4
<1>10. CASE StoreSMultAborts
  <2>1. ToUserBank(cpu) \in State /\ CPSR(ToUserBank(cpu)) = CPSR(cpu)
        /\ ToUserBank(cpu).Spsr = cpu.Spsr
    BY <1>1, ToUserFields DEF CPSR
  <2>. QED BY <1>1, <1>2, <1>10, <2>1 DEF StoreSMultAborts
<1>. QED
  BY <1>3, <1>4, <1>5, <1>6, <1>7, <1>8, <1>9, <1>10, <1>11, <1>12 DEF Next

\* User mode is left only to an exception vector, with the status word it had
\* saved where the handler returns from.
THEOREM Privilege == Spec => NoEscalation
<1>1. BanksInv /\ [Next]_cpu =>
        [cpu.Mode = "USER" /\ cpu'.Mode # "USER" =>
           /\ cpu'.pc \in {VectorAddr(v) : v \in AllVectors}
           /\ cpu'.Spsr[ModeToBank(cpu'.Mode)] = CPSR(cpu)]_cpu
  BY NextNoEscalation DEF BanksInv
<1>. QED BY <1>1, GoodAlways, PTL DEF Spec, NoEscalation

-----------------------------------------------------------------------------
(* The register banks implement the programmer's model.                     *)

\* The abstract view of the state and of a step.
LEMMA ViewTypes ==
  ASSUME NEW s \in State
  PROVE  /\ View(s) \in [Banks -> [Regs -> Nat]]
         /\ CPSR(s).mode = s.Mode /\ CPSR(s).bits = s.bits
         /\ ("T" \notin s.bits) = ("T" \notin CPSR(s).bits)
         /\ AR!BankOf(s.Mode) = ModeToBank(s.Mode)
BY DEF View, ViewAs, State, CPSR, AR!BankOf, ModeToBank

\* A reset processor is one of the programmer's model.
LEMMA InitRefines == Init => AR!Init
<1> SUFFICES ASSUME Init PROVE AR!Init
  OBVIOUS
<1>1. View(cpu) = [b \in Banks |-> [r \in Regs |-> 0]]
  BY DEF Init, View, ViewAs
<1>. QED
  BY <1>1 DEF Init, AR!Init, CPSR, AR!Banks, Banks, AR!Regs, Regs, AR!Linked, Linked

\* Each instruction and exception is the programmer's model's own, save for the
\* aborted transfers with the S bit and the one after a stranded bank.
LEMMA NextRefines ==
  ASSUME Good(cpu), Next
  PROVE  AR!Next \/ MixedUp \/ Unstranded \/ NotEntered
<1>1. cpu \in State /\ cpu.Mode \in AllModes
      /\ "USER" \in AllModes /\ AR!Regs = Regs /\ AR!Banks = Banks
  BY DEF Good, State, AllModes, Banks, AR!Regs, Regs, AR!Linked, Linked, AR!Banks
<1>2. /\ CPSR(cpu).mode = cpu.Mode /\ CPSR(cpu).bits = cpu.bits
      /\ AR!BankOf(cpu.Mode) = ModeToBank(cpu.Mode)
      /\ View(cpu) \in [Banks -> [Regs -> Nat]]
  BY <1>1, ViewTypes
<1>3. /\ AR!HasSpsr(cpu.Mode) = BankHasSpsr(ModeToBank(cpu.Mode))
      /\ Agrees(cpu) => cpu.Bank = ModeToBank(cpu.Mode)
      /\ ~Agrees(cpu) => Stranded(cpu) /\ ~BankHasSpsr(cpu.Bank)
  BY <1>2 DEF AR!HasSpsr, BankHasSpsr, Good, Agrees, Stranded
<1>4. ASSUME NEW rs \in SUBSET Regs, NEW v \in Vals, Write(rs, v)
      PROVE  AR!Write(rs, v)
  <2>1. cpu' = Loaded(cpu, rs, v) /\ v \in Nat
    BY <1>4, Operands DEF Write
  <2>2. /\ cpu'.Mode = cpu.Mode /\ cpu'.bits = cpu.bits /\ cpu'.Spsr = cpu.Spsr
        /\ cpu'.pc = cpu.pc /\ cpu'.stored = cpu.stored
        /\ ViewAs(cpu', cpu.Mode) = AR!Put(View(cpu), cpu.Mode, rs, v)
    BY <1>1, <2>1, LoadedFields DEF View
  <2>3. View(cpu') = AR!Put(View(cpu), CPSR(cpu).mode, rs, v) /\ CPSR(cpu') = CPSR(cpu)
    BY <1>2, <2>2 DEF View, CPSR
  <2>. QED BY <2>2, <2>3 DEF AR!Write
<1>5. ASSUME NEW rs \in SUBSET Regs, NEW v \in Vals, LoadSMult(rs, v)
      PROVE  AR!LoadUser(rs, v) \/ Unstranded
  <2> DEFINE u == ToUserBank(cpu)
             l == Loaded(u, rs, v)
  <2>1. /\ u \in State /\ u.Bank = "USER" /\ u.Mode = cpu.Mode /\ u.bits = cpu.bits
        /\ u.Spsr = cpu.Spsr /\ u.pc = cpu.pc /\ u.stored = cpu.stored
        /\ Agrees(cpu) => ViewAs(u, "USER") = View(cpu)
    BY ToUserFields
  <2>2. /\ l \in State /\ l.Bank = "USER" /\ l.Mode = cpu.Mode /\ l.bits = cpu.bits
        /\ l.Spsr = cpu.Spsr /\ l.pc = cpu.pc /\ l.stored = cpu.stored
        /\ ViewAs(l, "USER") = AR!Put(ViewAs(u, "USER"), "USER", rs, v)
    BY <1>1, <2>1, Operands, LoadedFields
  <2>3. cpu' = FromUserBank(l)
    BY <1>5 DEF LoadSMult
  <2> HIDE DEF l
  <2>4. /\ cpu'.Mode = cpu.Mode /\ cpu'.bits = cpu.bits /\ cpu'.Spsr = cpu.Spsr
        /\ cpu'.pc = cpu.pc /\ cpu'.stored = cpu.stored
        /\ View(cpu') = ViewAs(l, "USER") /\ Agrees(cpu')
    BY <2>2, <2>3, FromUserFields
  <2>5. CASE Agrees(cpu)
    BY <1>2, <1>5, <2>1, <2>2, <2>4, <2>5 DEF LoadSMult, AR!LoadUser, Arm, AR!Arm, CPSR
  <2>6. CASE ~Agrees(cpu)
    BY <1>3, <1>5, <2>4, <2>6 DEF Unstranded, CPSR
  <2>. QED BY <2>5, <2>6
<1>6. ASSUME NEW rs \in SUBSET Regs, NEW v \in Vals, NEW a \in PCs, LdmPc(rs, v, a)
      PROVE  AR!Return(a, AR!Put(View(cpu), CPSR(cpu).mode, rs, v))
  <2> DEFINE l == Loaded(cpu, rs, v)
             t == Restore(l)
  <2>1. /\ l \in State /\ l.Mode = cpu.Mode /\ l.bits = cpu.bits
        /\ l.Spsr = cpu.Spsr /\ l.stored = cpu.stored
        /\ ViewAs(l, cpu.Mode) = AR!Put(View(cpu), cpu.Mode, rs, v)
    BY <1>1, Operands, LoadedFields DEF View
  <2>2. GetSPSR(l) = GetSPSR(cpu) /\ CPSR(l) = CPSR(cpu)
        /\ GetSPSR(cpu).mode \in Modes /\ GetSPSR(l).mode \in AllModes
    BY <1>6, <2>1, Operands DEF GetSPSR, CPSR, LdmPc
  <2> HIDE DEF l
  <2>3. /\ t \in State /\ t.Spsr = cpu.Spsr /\ t.stored = cpu.stored
        /\ CPSR(t) = IF cpu.Mode # "USER" THEN GetSPSR(cpu) ELSE CPSR(cpu)
        /\ View(t) = AR!Put(View(cpu), cpu.Mode, rs, v)
    BY <2>1, <2>2, RestoreFields DEF View
  <2>4. /\ AR!HasSpsr(cpu.Mode) => CPSR(t) = cpu.Spsr[AR!BankOf(cpu.Mode)]
        /\ ~AR!HasSpsr(cpu.Mode) => CPSR(t) = CPSR(cpu)
        /\ AR!HasSpsr(cpu.Mode) => cpu.Spsr[AR!BankOf(cpu.Mode)].mode \in Modes
    BY <1>2, <1>3, <2>2, <2>3 DEF GetSPSR, BankHasSpsr, ModeToBank
  <2>5. cpu' = [t EXCEPT !.pc = a]
    BY <1>6 DEF LdmPc, l
  <2> HIDE DEF t
  <2>6. /\ cpu'.Mode = t.Mode /\ cpu'.bits = t.bits /\ cpu'.Spsr = t.Spsr
        /\ cpu'.pc = a /\ cpu'.stored = t.stored
        /\ cpu'.Reg = t.Reg /\ cpu'.RegBank = t.RegBank
    BY <2>3, <2>5 DEF State
  <2>7. View(cpu') = View(t) /\ CPSR(cpu') = CPSR(t)
    BY <2>6 DEF View, ViewAs, CPSR
  <2>. QED BY <1>2, <1>6, <2>3, <2>4, <2>6, <2>7 DEF LdmPc, AR!Return, Arm, AR!Arm
<1>14. ASSUME NEW a \in PCs, MovsPc(a)
       PROVE  AR!Return(a, View(cpu)) \/ AR!Branch(a, FALSE)
  <2>1. CASE BankHasSpsr(cpu.Bank)
    <3> DEFINE w == cpu.Spsr[cpu.Bank]
               t == SetCPSR(cpu, w)
    <3>1. w \in Words /\ w.mode \in Modes /\ w.mode \in AllModes
      BY <1>1, <1>14, <2>1, Operands DEF MovsPc, State
    <3>2. cpu.Bank = AR!BankOf(cpu.Mode) /\ AR!HasSpsr(cpu.Mode)
      BY <1>2, <1>3, <2>1
    <3> HIDE DEF w
    <3>3. /\ t \in State /\ CPSR(t) = w /\ t.Spsr = cpu.Spsr /\ t.stored = cpu.stored
          /\ View(t) = View(cpu)
      BY <1>1, <3>1, SetCPSRFields
    <3>4. cpu' = [t EXCEPT !.pc = a]
      BY <1>14, <2>1 DEF MovsPc, w
    <3> HIDE DEF t
    <3>5. /\ cpu'.Mode = t.Mode /\ cpu'.bits = t.bits /\ cpu'.Spsr = t.Spsr
          /\ cpu'.pc = a /\ cpu'.stored = t.stored
          /\ cpu'.Reg = t.Reg /\ cpu'.RegBank = t.RegBank
      BY <3>3, <3>4 DEF State
    <3>6. View(cpu') = View(t) /\ CPSR(cpu') = CPSR(t)
      BY <3>5 DEF View, ViewAs, CPSR
    <3>. QED BY <1>2, <1>14, <3>1, <3>2, <3>3, <3>5, <3>6
             DEF w, MovsPc, AR!Return, Arm, AR!Arm
  <2>2. CASE ~BankHasSpsr(cpu.Bank)
    <3>1. cpu' = [cpu EXCEPT !.pc = a] /\ "T" \notin cpu.bits
      BY <1>14, <2>2 DEF MovsPc, Arm
    <3>2. /\ cpu'.Mode = cpu.Mode /\ cpu'.bits = cpu.bits /\ cpu'.Spsr = cpu.Spsr
          /\ cpu'.pc = a /\ cpu'.stored = cpu.stored
          /\ cpu'.Reg = cpu.Reg /\ cpu'.RegBank = cpu.RegBank
      BY <1>1, <3>1 DEF State
    <3>3. View(cpu') = View(cpu)
      BY <3>2 DEF View, ViewAs
    <3>4. CPSR(cpu') = [CPSR(cpu) EXCEPT !.bits = @ \ {"T"}]
      BY <3>1, <3>2 DEF CPSR
    <3>. QED BY <3>2, <3>3, <3>4 DEF AR!Branch
  <2>. QED BY <2>1, <2>2
<1>15. ASSUME NEW rs \in SUBSET Regs, NEW v \in Vals, LdmPcAborts(rs, v)
       PROVE  NotEntered
  <2>1. /\ CPSR(cpu') = CPSR(cpu) /\ cpu'.Spsr = [cpu.Spsr EXCEPT !["ABORT"] = CPSR(cpu)]
        /\ cpu'.pc = VectorAddr("Data")
        /\ View(cpu') = [AR!Put(View(cpu), cpu.Mode, rs, v)
                           EXCEPT !["ABORT"][14] = AR!Link("Data", cpu.pc, "T" \in cpu.bits)]
    BY <1>1, <1>15, Operands, LdmPcAbortFields DEF LdmPcAborts
  <2>2. AR!Link("Data", cpu.pc, "T" \in cpu.bits) = AR!Link("Data", cpu.pc, FALSE)
    BY DEF AR!Link
  <2>. QED BY <1>15, <2>1, <2>2 DEF NotEntered
<1>7. ASSUME NEW a \in PCs, NEW thumb \in BOOLEAN, Branch(a, thumb)
      PROVE  AR!Branch(a, thumb)
  <2>1. /\ cpu'.Mode = cpu.Mode /\ cpu'.Spsr = cpu.Spsr /\ cpu'.pc = a
        /\ cpu'.bits = IF thumb THEN cpu.bits \cup {"T"} ELSE cpu.bits \ {"T"}
        /\ cpu'.stored = cpu.stored /\ cpu'.Reg = cpu.Reg /\ cpu'.RegBank = cpu.RegBank
    BY <1>1, <1>7 DEF Branch, State
  <2>2. View(cpu') = View(cpu)
    BY <2>1 DEF View, ViewAs
  <2>3. CPSR(cpu') = [CPSR(cpu) EXCEPT !.bits = IF thumb THEN @ \cup {"T"} ELSE @ \ {"T"}]
    BY <2>1 DEF CPSR
  <2>. QED BY <2>1, <2>2, <2>3 DEF AR!Branch
<1>8. ASSUME NEW w \in PSRs, MSR(w)
      PROVE  AR!WriteCpsr(w)
  <2> DEFINE p == IF cpu.Mode # "USER" THEN w ELSE CPSR(cpu)
  <2>1. CPSR(cpu) \in Words /\ CPSR(cpu).mode \in AllModes
    BY <1>1 DEF CPSR, Words, State
  <2>2. p \in Words /\ p.mode \in AllModes /\ cpu' = SetCPSR(cpu, p)
    BY <1>8, <2>1, Operands DEF MSR, FixCPSR
  <2> HIDE DEF p
  <2>3. /\ CPSR(cpu') = p /\ cpu'.Spsr = cpu.Spsr /\ cpu'.pc = cpu.pc
        /\ cpu'.stored = cpu.stored /\ View(cpu') = View(cpu)
    BY <1>1, <2>2, SetCPSRFields
  <2>. QED BY <1>2, <1>8, <2>3 DEF p, MSR, AR!WriteCpsr, AR!Privileged, Arm, AR!Arm
<1>9. ASSUME NEW w \in PSRs, FixSPSR(w)
      PROVE  AR!WriteSpsr(w)
  <2>1. cpu' = [cpu EXCEPT !.Spsr = [cpu.Spsr EXCEPT ![cpu.Bank] = w]]
    BY <1>9 DEF FixSPSR
  <2>2. /\ cpu'.Mode = cpu.Mode /\ cpu'.bits = cpu.bits /\ cpu'.pc = cpu.pc
        /\ cpu'.Spsr = [cpu.Spsr EXCEPT ![cpu.Bank] = w]
        /\ cpu'.stored = cpu.stored /\ cpu'.Reg = cpu.Reg /\ cpu'.RegBank = cpu.RegBank
    BY <1>1, <2>1 DEF State
  <2>3. View(cpu') = View(cpu) /\ CPSR(cpu') = CPSR(cpu)
    BY <2>2 DEF View, ViewAs, CPSR
  <2>4. cpu.Bank = AR!BankOf(cpu.Mode) /\ AR!HasSpsr(cpu.Mode)
    BY <1>2, <1>3, <1>9 DEF FixSPSR
  <2>. QED BY <1>2, <1>9, <2>2, <2>3, <2>4 DEF FixSPSR, AR!WriteSpsr, Arm, AR!Arm
<1>10. ASSUME NEW v \in Vectors, Take(v)
       PROVE  AR!Take(v)
  <2> DEFINE e == AR!Exception[v]
  <2>1. cpu' = Abort(cpu, v) /\ v \in AllVectors
    BY <1>10, Operands DEF Take
  <2>2. /\ CPSR(cpu') = [mode |-> e.mode, bits |-> (cpu.bits \ {"T"}) \cup e.mask]
        /\ cpu'.Spsr = [cpu.Spsr EXCEPT ![e.mode] = CPSR(cpu)]
        /\ cpu'.pc = e.addr /\ cpu'.stored = cpu.stored
        /\ View(cpu') = [View(cpu) EXCEPT ![e.mode][14] = AR!Link(v, cpu.pc, "T" \in cpu.bits)]
    BY <1>1, <2>1, AbortFields
  <2>3. ("T" \in cpu.bits) = ~AR!Arm
    BY <1>2 DEF AR!Arm
  <2>4. AR!Enter(v, View(cpu))
    BY <1>2, <2>2, <2>3 DEF AR!Enter
  <2>5. AR!Interrupts(v)
    BY <1>2, <1>10 DEF Take, Interrupted, AR!Interrupts
  <2>. QED BY <2>2, <2>4, <2>5 DEF AR!Take
<1>11. ASSUME StoreSMult
       PROVE  AR!StoreUser \/ Unstranded
  <2> DEFINE u == ToUserBank(cpu)
             t == FromUserBank(u)
  <2>1. /\ u \in State /\ u.Bank = "USER" /\ u.Mode = cpu.Mode /\ u.bits = cpu.bits
        /\ u.Spsr = cpu.Spsr /\ u.pc = cpu.pc /\ u.stored = cpu.stored
        /\ Agrees(cpu) => ViewAs(u, "USER") = View(cpu)
    BY ToUserFields
  <2>2. /\ t \in State /\ t.Mode = cpu.Mode /\ t.bits = cpu.bits
        /\ t.Spsr = cpu.Spsr /\ t.pc = cpu.pc /\ View(t) = ViewAs(u, "USER") /\ Agrees(t)
    BY <2>1, FromUserFields
  <2>3. cpu' = [t EXCEPT !.stored = u.Reg]
    BY <1>11 DEF StoreSMult
  <2>4. \A r \in Regs : ViewAs(u, "USER")["USER"][r] = u.Reg[r]
    BY DEF ViewAs, Keeper, ModeToBank, Banks
  <2>5. Agrees(cpu) => u.Reg = [r \in Regs |-> View(cpu)["USER"][r]]
    BY <2>1, <2>4 DEF State
  <2> HIDE DEF t, u
  <2>6. /\ cpu'.Mode = cpu.Mode /\ cpu'.bits = cpu.bits /\ cpu'.pc = cpu.pc
        /\ cpu'.Spsr = cpu.Spsr /\ cpu'.stored = u.Reg
        /\ cpu'.Reg = t.Reg /\ cpu'.RegBank = t.RegBank /\ cpu'.Bank = t.Bank
        /\ t.Mode = cpu.Mode
    BY <2>2, <2>3 DEF State
  <2>7. View(cpu') = View(t) /\ CPSR(cpu') = CPSR(cpu) /\ Agrees(cpu')
    BY <2>2, <2>6 DEF View, ViewAs, CPSR, Agrees
  <2>8. CASE Agrees(cpu)
    BY <1>1, <1>2, <1>11, <2>1, <2>2, <2>5, <2>6, <2>7, <2>8
    DEF StoreSMult, AR!StoreUser, Arm, AR!Arm
  <2>9. CASE ~Agrees(cpu)
    BY <1>3, <1>11, <2>6, <2>7, <2>9 DEF Unstranded
  <2>. QED BY <2>8, <2>9
<1>12. ASSUME NEW rs \in SUBSET (Regs \ {14}), NEW v \in Vals, LoadSMultAborts(rs, v)
       PROVE  MixedUp
  <2> DEFINE u == ToUserBank(cpu)
             l == Loaded(u, rs, v)
             x == Abort(l, "Data")
  <2>1. u \in State /\ u.Mode = cpu.Mode /\ u.bits = cpu.bits /\ u.Spsr = cpu.Spsr
    BY <1>1, ToUserFields
  <2>2. l \in State /\ l.Mode = cpu.Mode /\ l.bits = cpu.bits /\ l.Spsr = cpu.Spsr
    <3>1. rs \in SUBSET Regs /\ v \in Nat
      BY Operands
    <3> HIDE DEF u
    <3>. QED BY <1>1, <2>1, <3>1, LoadedFields
  <2>3. /\ x \in State /\ x.Mode # "USER" /\ x.pc = VectorAddr("Data")
        /\ x.Spsr = [l.Spsr EXCEPT !["ABORT"] = CPSR(l)]
    BY <2>2, AbortFields DEF AllVectors, AR!Exception
  <2>4. cpu' = FromUserBank(x)
    BY <1>12 DEF LoadSMultAborts
  <2> HIDE DEF x
  <2>5. cpu'.pc = x.pc /\ cpu'.Spsr = x.Spsr
    BY <2>3, <2>4, FromUserFields
  <2>. QED BY <1>12, <2>2, <2>3, <2>5 DEF MixedUp, CPSR
<1>13. ASSUME StoreSMultAborts
       PROVE  AR!StoreUserAborts \/ MixedUp
  <2> DEFINE u == ToUserBank(cpu)
             e == AR!Exception["Data"]
  <2>1. /\ u \in State /\ u.Mode = cpu.Mode /\ u.bits = cpu.bits /\ u.Spsr = cpu.Spsr
        /\ "Data" \in AllVectors /\ cpu' = Abort(u, "Data")
    BY <1>1, <1>13, ToUserFields DEF AllVectors, StoreSMultAborts
  <2>2. CASE cpu.Bank # "USER"
    <3>1. cpu'.pc = VectorAddr("Data") /\ cpu'.Spsr = [u.Spsr EXCEPT !["ABORT"] = CPSR(u)]
      BY <2>1, AbortFields DEF AR!Exception
    <3>. QED BY <1>13, <2>1, <2>2, <3>1 DEF MixedUp, CPSR
  <2>3. CASE cpu.Bank = "USER"
    <3>1. cpu' = Abort(cpu, "Data")
      BY <2>1, <2>3 DEF ToUserBank
    <3>2. /\ CPSR(cpu') = [mode |-> e.mode, bits |-> (cpu.bits \ {"T"}) \cup e.mask]
          /\ cpu'.Spsr = [cpu.Spsr EXCEPT ![e.mode] = CPSR(cpu)]
          /\ cpu'.pc = e.addr /\ cpu'.stored = cpu.stored
          /\ View(cpu') = [View(cpu) EXCEPT
                             ![e.mode][14] = AR!Link("Data", cpu.pc, "T" \in cpu.bits)]
      BY <1>1, <2>1, <3>1, AbortFields
    <3>3. ("T" \in cpu.bits) = ~AR!Arm
      BY <1>2 DEF AR!Arm
    <3>4. AR!Enter("Data", View(cpu))
      BY <1>2, <3>2, <3>3 DEF AR!Enter
    <3>. QED BY <1>2, <1>13, <3>2, <3>4 DEF AR!StoreUserAborts, StoreSMultAborts, Arm, AR!Arm
  <2>. QED BY <2>2, <2>3
<1>. QED
  BY <1>1, <1>4, <1>5, <1>6, <1>7, <1>8, <1>9, <1>10, <1>11, <1>12, <1>13, <1>14, <1>15
  DEF Next, AR!Next

\* Whatever a program does and whatever aborts, what it sees of Reg, RegBank and
\* Spsr is the programmer's model, except across an aborted LDM or STM with the
\* S bit and the user-bank transfer after a stranded bank: no other mode switch,
\* exception, return or transfer loses or mixes up a register.
THEOREM RefinementUnlessAborted == Spec => RegistersUnlessAborted
<1>1. BanksInv /\ [Next]_cpu => [AR!Next \/ MixedUp \/ Unstranded \/ NotEntered]_(AR!vars)
  <2> SUFFICES ASSUME BanksInv, [Next]_cpu
               PROVE  [AR!Next \/ MixedUp \/ Unstranded \/ NotEntered]_(AR!vars)
    OBVIOUS
  <2>1. CASE Next
    BY <2>1, NextRefines DEF BanksInv
  <2>2. CASE UNCHANGED cpu
    BY <2>2 DEF AR!vars, View, ViewAs, CPSR
  <2>. QED BY <2>1, <2>2
<1>. QED BY <1>1, InitRefines, GoodAlways, PTL DEF Spec, RegistersUnlessAborted

\* As long as no LDM or STM with the S bit meets a data abort, the register
\* banks implement the programmer's model: Bank always agrees with Mode then.
THEOREM Refinement == SBitAborts = {} => (Spec => ImplementsRegisters)
<1> SUFFICES ASSUME SBitAborts = {} PROVE Spec => ImplementsRegisters
  OBVIOUS
<1> DEFINE Matched == Good(cpu) /\ Agrees(cpu)
<1>1. Init => Matched
  BY InitGood DEF Init, Agrees, ModeToBank
<1>2. Matched => ~Stranded(cpu)
  BY DEF Agrees, Stranded, ModeToBank
<1>3. Matched /\ [Next]_cpu => Matched'
  <2> SUFFICES ASSUME Matched, [Next]_cpu PROVE Matched'
    OBVIOUS
  <2>1. CASE Next
    <3>1. Stays
      BY <2>1, NextStays
    <3>2. ~AbortedInAbortMode
      BY DEF AbortedInAbortMode, StoreSMultAborts
    <3>. QED BY <1>2, <3>1, <3>2 DEF Stays, Good
  <2>2. CASE UNCHANGED cpu
    BY <2>2
  <2>. QED BY <2>1, <2>2
<1>4. Matched /\ [Next]_cpu => [AR!Next]_(AR!vars)
  <2> SUFFICES ASSUME Matched, [Next]_cpu PROVE [AR!Next]_(AR!vars)
    OBVIOUS
  <2>1. ~MixedUp /\ ~NotEntered
    BY DEF MixedUp, NotEntered, LoadSMultAborts, StoreSMultAborts, LdmPcAborts
  <2>2. ~Unstranded
    BY <1>2 DEF Unstranded
  <2>3. CASE Next
    BY <2>1, <2>2, <2>3, NextRefines
  <2>4. CASE UNCHANGED cpu
    BY <2>4 DEF AR!vars, View, ViewAs, CPSR
  <2>. QED BY <2>3, <2>4
<1>. QED BY <1>1, <1>3, <1>4, InitRefines, PTL DEF Spec, ImplementsRegisters, AR!Spec
=============================================================================
