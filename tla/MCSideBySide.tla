---------------------------- MODULE MCSideBySide ----------------------------
(***************************************************************************)
(* Three small state spaces for TLC, one of them per behaviour: what must  *)
(* happen eventually to the tasks of waitforlsn (Workload, under three     *)
(* command lines) and to the WAL they wait for (ReadYourWrites), and the   *)
(* link checker (LinkCheck).  They share nothing: the two that do not run  *)
(* take no step, and every property of theirs holds.                       *)
(***************************************************************************)
EXTENDS MCReadYourWrites, MCLinkCheck

CONSTANTS NoTxns, WaitTimeoutMs, PoolWaitSecs

VARIABLES
  part,  \* which part runs; never changes
  cmdLine, await, primary, standby, stats, live, issued, stop, expired, started

workVars == <<cmdLine, await, primary, standby, stats, live, issued, stop, expired, started>>

-----------------------------------------------------------------------------
(* The tasks.  cmdLine is their command line, chosen at the start; each is *)
(* an instance of Workload with its own options, over the same variables.  *)

\* --mode waitfor --verify --txns 2
Wait == INSTANCE Workload WITH
  pc <- await, st <- stats,
  Mode <- "waitfor", Verify <- TRUE, FetchLsn <- FALSE, HasDeadline <- FALSE,
  MaxTxns <- 2, AttemptBound <- 0, PrimaryPool <- 1, StandbyPool <- 1

\* --mode sync --duration: no standby, no LSN
Sync == INSTANCE Workload WITH
  pc <- await, st <- stats,
  Mode <- "sync", Verify <- FALSE, FetchLsn <- FALSE, HasDeadline <- TRUE,
  MaxTxns <- NoTxns, AttemptBound <- 4, PrimaryPool <- 1, StandbyPool <- 1

\* --mode sync --fetch-lsn --verify --txns 2 --duration: the T1 that does most
SyncFull == INSTANCE Workload WITH
  pc <- await, st <- stats,
  Mode <- "sync", Verify <- TRUE, FetchLsn <- TRUE, HasDeadline <- TRUE,
  MaxTxns <- 2, AttemptBound <- 0, PrimaryPool <- 2, StandbyPool <- 1

\* the same step under the command line of the run
Of(wait, sync, full) ==
  /\ \/ cmdLine = "T2" /\ wait
     \/ cmdLine = "T1" /\ sync
     \/ cmdLine = "T1 full" /\ full
  /\ UNCHANGED cmdLine

WorkInit == cmdLine \in {"T2", "T1", "T1 full"} /\ Sync!Init
WorkNext == Of(Wait!Next, Sync!Next, SyncFull!Next)
WorkFairness ==
  /\ \A t \in Tasks :
       /\ WF_workVars(Of(Wait!OwnStep(t), Sync!OwnStep(t), SyncFull!OwnStep(t)))
       /\ WF_workVars(Of(Wait!WaitExpires(t), Sync!WaitExpires(t), SyncFull!WaitExpires(t)))
  /\ WF_workVars(Of(Wait!DeadlinePasses, Sync!DeadlinePasses, SyncFull!DeadlinePasses))

\* the tasks are gone
WorkOver ==
  /\ cmdLine = "none" /\ await = [t \in Tasks |-> "done"] /\ primary = {} /\ standby = {}
  /\ stats = [t \in Tasks |-> Sync!NewStats] /\ live = [completed |-> 0, failed |-> 0]
  /\ issued = 0 /\ stop = TRUE /\ expired = TRUE /\ started = 0

-----------------------------------------------------------------------------
\* nothing is inserted yet and all WAL is replayed
WalIdle == Init /\ opt = CHOOSE o \in Options : TRUE

\* the link checker was given something that is no directory, and has ended
CheckEnded ==
  /\ start = CHOOSE s \in Odd : ~s.isdir
  /\ disk = start.disk /\ touched = {} /\ phase = "exit" /\ exit = 2
  /\ trees = <<>> /\ side = "old" /\ dirs = {} /\ names = {} /\ found = NoFiles
  /\ errors = {} /\ rows = {}

Start ==
  \/ part = "tasks" /\ WorkInit  /\ WalIdle  /\ CheckEnded
  \/ part = "wal"   /\ Init      /\ WorkOver /\ CheckEnded
  \/ part = "check" /\ CheckInit /\ WorkOver /\ WalIdle

Step ==
  /\ UNCHANGED part
  /\ \/ part = "tasks" /\ WorkNext  /\ UNCHANGED <<vars, checkVars>>
     \/ part = "wal"   /\ Next      /\ UNCHANGED <<workVars, checkVars>>
     \/ part = "check" /\ CheckNext /\ UNCHANGED <<workVars, vars>>

allVars == <<part, workVars, vars, checkVars>>

AllSpec == Start /\ [][Step]_allVars /\ WorkFairness /\ Fairness

-----------------------------------------------------------------------------
\* The tasks implement the transaction ledger, with the budget of their command
\* line.
RefinesLedger ==
  /\ part = "tasks" => Sync!Ledger!Init
  /\ [][/\ cmdLine = "T2" => Wait!Ledger!Next \/ UNCHANGED Wait!Ledger!vars
        /\ cmdLine = "T1" => Sync!Ledger!Next \/ UNCHANGED Sync!Ledger!vars
        /\ cmdLine = "T1 full" => SyncFull!Ledger!Next \/ UNCHANGED SyncFull!Ledger!vars]_workVars

\* Every task leaves once the run has a reason to end: Ctrl-C, --duration, --txns.
Termination == (stop \/ expired \/ cmdLine # "T1") ~> Sync!AllDone
=============================================================================
