----------------------------- MODULE RemoteCall -----------------------------
(***************************************************************************)
(* What sync() of src/ipc/ipc.py promises to a script, with no mailbox, no *)
(* socket and no interrupts: calls are made one at a time, IOS accepts     *)
(* each call once, serves it, and the call then returns its own result; or *)
(* IOS reboots instead, and the script is told and gives the call up       *)
(* (src/ipc/launchios.py).                                                 *)
(***************************************************************************)
EXTENDS Naturals

CONSTANTS
  MaxCalls,    \* calls the script makes
  None,        \* no result yet
  Res(_)       \* the result of the n-th call

VARIABLES
  calls,       \* calls made
  phase,       \* where the last of them is
  results,     \* the result each call returned
  busy         \* the script waits for something else; its environment decides

vars == <<calls, phase, results>>

Init ==
  /\ calls = 0
  /\ phase = "returned"
  /\ results = [n \in 1..MaxCalls |-> None]

Call ==
  /\ phase = "returned"
  /\ calls < MaxCalls
  /\ calls' = calls + 1
  /\ phase' = "called"
  /\ UNCHANGED results

Accept ==
  /\ phase = "called"
  /\ phase' = "accepted"
  /\ UNCHANGED <<calls, results>>

Serve ==
  /\ phase = "accepted"
  /\ phase' = "served"
  /\ UNCHANGED <<calls, results>>

Return ==
  /\ phase = "served"
  /\ phase' = "returned"
  /\ results' = [results EXCEPT ![calls] = Res(calls)]
  /\ UNCHANGED calls

Reboot ==
  /\ phase = "accepted"
  /\ phase' = "rebooted"
  /\ UNCHANGED <<calls, results>>

GiveUp ==
  /\ phase = "rebooted"
  /\ phase' = "returned"
  /\ UNCHANGED <<calls, results>>

Next == Call \/ Accept \/ Serve \/ Return \/ Reboot \/ GiveUp

\* A call that is made comes back, with its result or because IOS rebooted, in
\* which case the script gives it up once it has nothing else to wait for;
\* making a call is up to the script, rebooting is up to IOS.
Spec ==
  /\ Init /\ [][Next]_vars
  /\ WF_vars(Accept) /\ WF_vars(Serve) /\ WF_vars(Return) /\ WF_vars(~busy /\ GiveUp)
=============================================================================
