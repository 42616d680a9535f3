------------------------------ MODULE TxnLedger ------------------------------
(***************************************************************************)
(* What a run of the waitforlsn evaluator promises about the transactions  *)
(* it reports, with nothing of how it is done: every attempt that begins   *)
(* is settled exactly once, as completed or as failed; no more than Budget *)
(* attempts begin (--txns); and the run closes only when nothing is left   *)
(* unsettled.  Workload refines this module (Workload!Ledger).             *)
(***************************************************************************)
EXTENDS Naturals

CONSTANTS
  Budget,    \* --txns (a number), or NoTxns when the option is not given
  NoTxns

VARIABLES
  begun,      \* attempts begun so far
  completed,  \* attempts the application may report as successful (D6)
  failed,     \* attempts that errored, timed out or were not confirmed
  open        \* FALSE once every client has left

vars == <<begun, completed, failed, open>>

Settled == completed + failed

Init ==
  /\ begun = 0
  /\ completed = 0
  /\ failed = 0
  /\ open = TRUE

Begin ==
  /\ open
  /\ Budget # NoTxns => begun < Budget
  /\ begun' = begun + 1
  /\ UNCHANGED <<completed, failed, open>>

Complete ==
  /\ Settled < begun
  /\ completed' = completed + 1
  /\ UNCHANGED <<begun, failed, open>>

Fail ==
  /\ Settled < begun
  /\ failed' = failed + 1
  /\ UNCHANGED <<begun, completed, open>>

Close ==
  /\ open
  /\ Settled = begun
  /\ open' = FALSE
  /\ UNCHANGED <<begun, completed, failed>>

Next == Begin \/ Complete \/ Fail \/ Close

Spec == Init /\ [][Next]_vars
==============================================================================
