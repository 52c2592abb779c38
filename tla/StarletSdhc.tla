----------------------------- MODULE StarletSdhc -----------------------------
(***************************************************************************)
(* The SD host controller behind 0xd070000, with the interrupt controller  *)
(* it raises line 7 of.  A register of events is the set of its bits; the  *)
(* addresses, block counts, responses and card data, which decide nothing, *)
(* are left out.  The guest is any program, and a card is in the slot.     *)
(***************************************************************************)
EXTENDS StarletIrq

CONSTANT Commands   \* the command words the guest writes; 18 and 55 among them

SdhcLine == 7
APP_CMD == 55
READ_MULTIPLE == 18
Marker == 16^4                    \* stands for 0xffff0000: no 16-bit command
CommandComplete  == "command complete"
TransferComplete == "transfer complete"
Events == {CommandComplete, TransferComplete}

ASSUME SdhcAssumption == SdhcLine \in SdhcLines /\ Commands \subseteq 0..63

VARIABLES
  sdhc,    \* the command register, three sets of Events, and sd_app_cmd
  owed,    \* ghost: completions enabled when they happened and not yet dismissed
  used     \* ghost: the guest has reset the controller or had a command executed

sdvars == <<io, sdhc, owed, used>>

\* starlet_mach_init resets the controller, but starlet_io_reset runs after it
\* and clears all of io: the command register starts at 0, not at the marker.
SdInit ==
  /\ Init
  /\ sdhc = [command |-> 0, irq_status |-> {}, irq_enable |-> {}, irq_signal |-> {},
             app_cmd |-> FALSE]
  /\ owed = {}
  /\ used = FALSE

-----------------------------------------------------------------------------
(* Commands.                                                                *)

\* The completions of a command: every one is answered, the unimplemented too,
\* and only a read moves data.
Completions(command, app) ==
  {CommandComplete} \cup (IF command = READ_MULTIPLE /\ ~app THEN {TransferComplete} ELSE {})

\* Slip: the line follows the events, and falls when none is signalled.
fire_irq_Level(r, events) ==
  IF r.irq_signal \cap events = {} THEN [io EXCEPT !.irq_active = @ \ {SdhcLine}]
                                   ELSE set_intr(io, SdhcLine)
\* starlet_sdhc_fire_irq for each event: status and signal are independent.
fire_irq(r, events) == IF r.irq_signal \cap events = {} THEN io ELSE set_intr(io, SdhcLine)

\* Slip: the register keeps the command it has just executed.
Executed_Kept(r, events) ==
  [r EXCEPT !.irq_status = @ \cup (r.irq_enable \cap events),
            !.app_cmd = r.command = APP_CMD /\ ~r.app_cmd]
\* The register is left at a value that every command written to it differs from.
Executed(r, events) ==
  [r EXCEPT !.irq_status = @ \cup (r.irq_enable \cap events),
            !.app_cmd = r.command = APP_CMD /\ ~r.app_cmd,
            !.command = Marker]

WriteCommand(command) ==
  LET events == Completions(command, sdhc.app_cmd)
  IN  /\ IF sdhc.command = command
         THEN UNCHANGED <<io, sdhc>>
         ELSE /\ sdhc' = Executed([sdhc EXCEPT !.command = command], events)
              /\ io' = fire_irq(sdhc, events)
      /\ used' = (used \/ command # 0)
      /\ owed' = IF used' THEN owed \cup (events \cap sdhc.irq_enable) ELSE owed

-----------------------------------------------------------------------------
(* The other registers.                                                     *)

\* Resetting a line forgets its completions; resetting all clears the event
\* registers, and neither reaches the card or the interrupt controller.
Reset(cmd, dat, all) ==
  LET dropped == IF all THEN Events
                 ELSE (IF cmd THEN {CommandComplete} ELSE {})
                        \cup (IF dat THEN {TransferComplete} ELSE {})
      kept(s) == IF all THEN {} ELSE s
  IN  /\ sdhc' = [sdhc EXCEPT !.irq_status = @ \ dropped, !.irq_enable = kept(@),
                              !.irq_signal = kept(@),
                              !.command = IF all THEN Marker ELSE @]
      /\ owed' = owed \ dropped
      /\ used' = (used \/ all)
      /\ UNCHANGED io

DismissStatus(events) ==
  /\ sdhc' = [sdhc EXCEPT !.irq_status = @ \ events]
  /\ owed' = owed \ events
  /\ UNCHANGED <<io, used>>

WriteEnable(events) ==
  /\ sdhc' = [sdhc EXCEPT !.irq_enable = events]
  /\ UNCHANGED <<io, owed, used>>

WriteSignal(events) ==
  /\ sdhc' = [sdhc EXCEPT !.irq_signal = events]
  /\ UNCHANGED <<io, owed, used>>

SdhcWrite ==
  \/ \E command \in Commands : WriteCommand(command)
  \/ \E cmd, dat, all \in BOOLEAN : Reset(cmd, dat, all)
  \/ \E events \in SUBSET Events : DismissStatus(events) \/ WriteEnable(events) \/ WriteSignal(events)

SdNext == SdhcWrite \/ (Machine /\ UNCHANGED <<sdhc, owed, used>>)

SdSpec == SdInit /\ [][SdNext]_sdvars /\ WF_sdvars(IoCycle /\ UNCHANGED <<sdhc, owed, used>>)

-----------------------------------------------------------------------------
(* Properties.                                                              *)

\* The status register shows exactly the completions that were enabled when
\* their command was written and that the guest has not dismissed since: a
\* command written twice completes twice, and resetting the data line does not
\* take the completion of a command away.  Only a command word of 0 before the
\* controller's first use goes unseen: it does not differ from the register.
CompletionsPosted == sdhc.irq_status = owed

\* To the interrupt controller the SD host is a device that raises its line:
\* whatever order the guest writes its registers in, the machine takes only
\* steps of StarletIrq, and what holds of that specification holds of it.
ImplementsIrq == Init /\ [][Next]_io

\* starlet_sdhc_fire_irq raises line 7 without starlet_update_int.  The CPU is
\* told all the same, by the next alarm at the latest, unless the guest keeps
\* writing the timer or the alarm, masks the line or clears it.
SdhcIrqArrives ==
  <>TimerLeftAlone =>
    ((SdhcLine \in io.irq_active \cap io.irq_enabled)
       ~> (io.irqLow \/ SdhcLine \notin io.irq_active \cap io.irq_enabled))
=============================================================================
