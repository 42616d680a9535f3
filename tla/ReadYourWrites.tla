--------------------------- MODULE ReadYourWrites ---------------------------
(***************************************************************************)
(* What a completed transaction of waitforlsn stands for: the worker tasks *)
(* (src/workload.rs: primary_step, standby_step, wait_for_lsn) against the *)
(* WAL of the two servers of module Replication.                           *)
(*                                                                         *)
(* The pools, statistics and loop control are the subject of module        *)
(* Workload; here a task keeps only the row it inserted and the LSN it     *)
(* waits for, the text it got from the primary or made of it.              *)
(***************************************************************************)
EXTENDS Replication, LsnText

CONSTANTS
  Tasks,    \* the worker tasks
  Options,  \* the setups: the run uses one of them
  MaxRows   \* bound: rows inserted

Settings == {"on", "off", "local", "remote_write", "remote_apply"}

\* mode: "sync" (T1) or "waitfor" (T2); override: --synchronous-commit; waitMode,
\* verify, fetchLsn, raw: --wait-mode, --verify, --fetch-lsn, --raw-insert-lsn;
\* timesOut: --wait-timeout is a millisecond or more; and, of the primary's
\* configuration, syncStandby: synchronous_standby_names names the standby
CommandLines ==
  [mode : {"sync", "waitfor"}, override : Settings \cup {"none"},
   waitMode : {"standby_write", "standby_flush", "standby_replay"},
   verify : BOOLEAN, fetchLsn : BOOLEAN, raw : BOOLEAN, timesOut : BOOLEAN,
   syncStandby : BOOLEAN]

ASSUME OptionsAssumption == Options \subseteq CommandLines
ASSUME RowsAssumption == MaxRows \in Nat /\ NoRow \notin Nat

VARIABLES
  opt,        \* the setup of the run; never changes
  pc,         \* pc[t]: the statement task t waits for
  cur,        \* cur[t]: the attempt: row id, LSN text, and crashes seen before it
  nextRow,    \* the sequence behind wfl_test.id
  confirmed,  \* history: completed transactions
  missing     \* history: rows counted as verify_missing

clientVars == <<opt, pc, cur, nextRow, confirmed, missing>>
vars == <<serverVars, clientVars>>

\* no text: it fails is_valid_lsn
NoLsn == [hi |-> 0, lo |-> 0, hiDigits |-> 0, loDigits |-> 0]
NoAttempt == [row |-> NoRow, lsn |-> NoLsn, epoch |-> 0]

Init ==
  /\ ServersInit
  /\ opt \in Options
  /\ pc = [t \in Tasks |-> "idle"]
  /\ cur = [t \in Tasks |-> NoAttempt]
  /\ nextRow = 1
  /\ confirmed = {}
  /\ missing = {}

Goto(t, label) == pc' = [pc EXCEPT ![t] = label]

\* the loop body of run_task ends, and with it its locals
Ends(t) ==
  /\ pc' = [pc EXCEPT ![t] = "idle"]
  /\ cur' = [cur EXCEPT ![t] = NoAttempt]

\* what is remembered of the attempt that ends; clean: the primary did not
\* crash since its row was inserted
Outcome(t) == [row |-> cur[t].row, clean |-> cur[t].epoch = crashes]

\* the attempt is counted as completed (D6)
Completes(t) ==
  /\ confirmed' = confirmed \cup {Outcome(t)}
  /\ Ends(t)

-----------------------------------------------------------------------------
(* primary_step                                                            *)

\* Mutated form of InsertRow: RETURNING id is not read.
InsertRowNoId(t) ==
  /\ pc[t] = "idle"
  /\ nextRow <= MaxRows
  /\ AppendWal(nextRow)
  /\ nextRow' = nextRow + 1
  /\ Goto(t, "commit")
  /\ UNCHANGED <<opt, cur, confirmed, missing>>

\* the INSERT: its records enter the WAL, and nothing else yet
InsertRow(t) ==
  /\ pc[t] = "idle"
  /\ nextRow <= MaxRows
  /\ AppendWal(nextRow)
  /\ cur' = [cur EXCEPT ![t] = [row |-> nextRow, lsn |-> NoLsn, epoch |-> crashes]]
  /\ nextRow' = nextRow + 1
  /\ Goto(t, "commit")
  /\ UNCHANGED <<opt, confirmed, missing>>

\* status success, or no wait: verify if asked to, else complete
Succeeds(t) ==
  \/ opt.verify /\ Goto(t, "verify") /\ UNCHANGED <<cur, confirmed>>
  \/ ~opt.verify /\ Completes(t)

DefaultSyncCommit == IF opt.mode = "sync" THEN "on" ELSE "off"

\* Mutated form of SyncCommit: --synchronous-commit does not reach the sessions.
SyncCommitOfMode == DefaultSyncCommit

\* Args::sync_commit, which make_config gives to every session of the primary pool
SyncCommit == IF opt.override = "none" THEN DefaultSyncCommit ELSE opt.override

\* what a COMMIT waits for, if not off; only with a synchronous standby do on and
\* remote_* differ from local (PARAMETERS.md --synchronous-commit)
CommitPoint(setting) ==
  IF setting = "local" \/ ~opt.syncStandby THEN "primary_flush"
  ELSE IF setting = "remote_write" THEN "standby_write"
  ELSE IF setting = "on" THEN "standby_flush"
  ELSE "standby_replay"

RecordsAt(point) == IF point = "primary_flush" THEN flushed ELSE StandbyCount(point)

CommitMayReturn(t) ==
  SyncCommit # "off" => cur[t].row \in RowsIn(RecordsAt(CommitPoint(SyncCommit)))

NeedsLsn == opt.mode = "waitfor" \/ opt.fetchLsn

CommitReturns(t) ==
  /\ pc[t] = "commit"
  /\ CommitMayReturn(t)
  /\ \/ NeedsLsn /\ Goto(t, "lsn_fetch") /\ UNCHANGED <<cur, confirmed>>
     \/ ~NeedsLsn /\ Succeeds(t)
  /\ UNCHANGED <<serverVars, opt, nextRow, missing>>

\* Mutated form of FetchedLsn: LSN_SQL asks for the flush position.
FetchedFlushLsn == PgLsnOut(CurrentFlushLsn)

\* LSN_SQL and the page-boundary fix
FetchedLsn ==
  LET raw == PgLsnOut(CurrentInsertLsn)
  IN  IF opt.raw THEN raw ELSE FormatLsn(NormalizeInsertLsn(ParseLsn(raw)))

\* T1 fetches it for the round trip only
LsnReturns(t) ==
  /\ pc[t] = "lsn_fetch"
  /\ \/ /\ opt.mode = "waitfor"
        /\ cur' = [cur EXCEPT ![t].lsn = FetchedLsn]
        /\ Goto(t, "wait_for_lsn")
        /\ UNCHANGED confirmed
     \/ opt.mode = "sync" /\ Succeeds(t)
  /\ UNCHANGED <<serverVars, opt, nextRow, missing>>

-----------------------------------------------------------------------------
(* standby_step                                                            *)

\* Mutated form of WaitSucceeds: WAIT FOR with the wrong MODE.
WaitSucceedsOnWrite(t) ==
  /\ pc[t] = "wait_for_lsn"
  /\ Reached(ParseLsn(cur[t].lsn), "standby_write")
  /\ Succeeds(t)
  /\ UNCHANGED <<serverVars, opt, nextRow, missing>>

WaitSucceeds(t) ==
  /\ pc[t] = "wait_for_lsn"
  /\ IsValidLsn(cur[t].lsn)
  /\ Reached(ParseLsn(cur[t].lsn), opt.waitMode)
  /\ Succeeds(t)
  /\ UNCHANGED <<serverVars, opt, nextRow, missing>>

\* timeout or not in recovery: the transaction is not confirmed (D6)
WaitEndsUnconfirmed(t) ==
  /\ pc[t] = "wait_for_lsn"
  /\ IsValidLsn(cur[t].lsn)
  /\ opt.timesOut \/ promoted
  /\ Ends(t)
  /\ UNCHANGED <<serverVars, opt, nextRow, confirmed, missing>>

\* VERIFY_SQL: the rows visible on the standby are the replayed ones
VerifyReturns(t) ==
  /\ pc[t] = "verify"
  /\ missing' = IF cur[t].row \in RowsIn(replayed) THEN missing
                ELSE missing \cup {Outcome(t)}
  /\ Completes(t)
  /\ UNCHANGED <<serverVars, opt, nextRow>>

\* a statement fails, the pool has no connection, or an LSN is invalid: the attempt is dropped
AttemptFails(t) ==
  /\ pc[t] # "idle"
  /\ Ends(t)
  /\ UNCHANGED <<serverVars, opt, nextRow, confirmed, missing>>

-----------------------------------------------------------------------------
(* The environment.                                                        *)

\* WAL of other sessions and of the server itself (checkpoints, sequences)
OtherWal == AppendWal(NoRow) /\ UNCHANGED clientVars

\* a crash breaks every connection to the primary: statements in flight there
\* fail, and the program reports their attempts as errors
Crash ==
  /\ CrashPrimary
  /\ LET broken == {t \in Tasks : pc[t] \in {"commit", "lsn_fetch"}}
     IN  /\ pc' = [t \in Tasks |-> IF t \in broken THEN "idle" ELSE pc[t]]
         /\ cur' = [t \in Tasks |-> IF t \in broken THEN NoAttempt ELSE cur[t]]
  /\ UNCHANGED <<opt, nextRow, confirmed, missing>>

ServerStep == (ReplicationStep \/ Promote) /\ UNCHANGED clientVars

\* nothing to do: the clients are done, or all that are not wait for the standby
Quiet ==
  /\ \A t \in Tasks : pc[t] \in {"idle", "wait_for_lsn"}
  /\ UNCHANGED vars

WaitAnswers(t) == WaitSucceeds(t) \/ WaitEndsUnconfirmed(t)

Next ==
  \/ \E t \in Tasks :
       \/ InsertRow(t) \/ CommitReturns(t) \/ LsnReturns(t)
       \/ WaitAnswers(t) \/ VerifyReturns(t) \/ AttemptFails(t)
  \/ OtherWal \/ Crash \/ ServerStep \/ Quiet

Spec == Init /\ [][Next]_vars

(***************************************************************************)
(* Fairness: WAL that exists is flushed, sent, written, flushed and        *)
(* replayed, and the standby answers a wait it can answer.  No fairness    *)
(* for inserts or other WAL: with every client waiting, nobody writes.     *)
(***************************************************************************)
Fairness ==
  /\ WF_vars(FlushWal /\ UNCHANGED clientVars)
  /\ WF_vars(SendWal /\ UNCHANGED clientVars)
  /\ WF_vars(StandbyFlush /\ UNCHANGED clientVars)
  /\ WF_vars(StandbyReplay /\ UNCHANGED clientVars)
  /\ \A t \in Tasks : WF_vars(WaitAnswers(t))

FairSpec == Spec /\ Fairness

-----------------------------------------------------------------------------
(* Properties.                                                             *)

Outcomes == [row : Nat, clean : BOOLEAN]

TypeOK ==
  /\ ServersTypeOK
  /\ opt \in Options
  /\ pc \in [Tasks -> {"idle", "commit", "lsn_fetch", "wait_for_lsn", "verify"}]
  /\ cur \in [Tasks -> [row : Nat \cup {NoRow}, lsn : Texts, epoch : Nat]]
  /\ nextRow \in Nat
  /\ confirmed \in SUBSET Outcomes
  /\ missing \in SUBSET Outcomes

\* the synchronous_commit that PARAMETERS.md tells a user of T1 to expect
Asked == IF opt.override = "none" THEN "on" ELSE opt.override

\* only T1 with --synchronous-commit off asks for a completion that secures nothing
Vouched == opt.mode = "sync" => Asked # "off"

\* records that make a completed transaction as safe as was asked: where its
\* synchronous_commit says (T1), or on the standby as --wait-mode says (T2)
SecuredPoint ==
  IF opt.mode = "waitfor" THEN opt.waitMode
  ELSE IF Vouched THEN CommitPoint(Asked) ELSE "primary_flush"

SecuredCount == RecordsAt(SecuredPoint)

(* D2: the LSN a task waits for covers its own commit record ("never too
   short") and, corrected, is a position some record ends at, so the standby
   gets there with no further WAL ("never stalls").  Only a crash of the
   primary during the attempt can break it. *)
TargetCoversCommit ==
  \A t \in Tasks :
    pc[t] = "wait_for_lsn" /\ cur[t].epoch = crashes =>
      \E i \in DOMAIN wal : \E j \in i .. Len(wal) :
        /\ wal[i].row = cur[t].row
        /\ LET lsn == ParseLsn(cur[t].lsn)
           IN  IF opt.raw THEN wal[j].end <= lsn ELSE wal[j].end = lsn

(* A completed transaction is where it was asked to be: T1 where its
   synchronous_commit says (by default on the primary's disk), T2 written,
   flushed or replayed on the standby whatever the setting, and both (because
   only flushed WAL is sent) on the primary's disk.  It stays so from then on,
   across later crashes and a promotion.  Exempt are transactions that had a
   crash between their INSERT and their confirmation, and T1 with
   --synchronous-commit off, where nothing was asked for. *)
ConfirmedIsSecured ==
  Vouched =>
    \A c \in confirmed : c.clean =>
      c.row \in RowsIn(SecuredCount) /\ c.row \in RowsIn(flushed)

(* PARAMETERS.md --verify: after a standby_replay success the row is visible
   on the standby, read by a later statement that other tasks' WAL, replay
   and promotion may precede; so it is in T1 with remote_apply and a
   synchronous standby. *)
NothingMissing == SecuredPoint = "standby_replay" => \A m \in missing : ~m.clean

(* The run is a behaviour of the commit contract: rows are committed, secured
   and confirmed in that order, a secured row is never lost, and the order of
   events in between is left to the servers. *)
Contract == INSTANCE CommitContract WITH
  Rows      <- 1 .. MaxRows,
  committed <- RowsIn(Len(wal)),
  secured   <- RowsIn(SecuredCount),
  confirmed <- {c.row : c \in {d \in confirmed : Vouched /\ d.clean}}

RefinesContract == Contract!Spec

(* D2's page-boundary fix: a wait without a TIMEOUT ends although nobody
   writes WAL any more, because the corrected LSN is a position the standby
   reaches.  (With --raw-insert-lsn it may not.) *)
NoStall == \A t \in Tasks : pc[t] = "wait_for_lsn" ~> pc[t] # "wait_for_lsn"

-----------------------------------------------------------------------------
(* A claim of the documentation the code does not keep.                    *)

(* DESIGN.md D2: a standby_flush or standby_replay success implies the commit
   is also flushed on the primary: "T2 is at least as durable as T1". *)
ConfirmedOnPrimaryDisk ==
  opt.mode = "waitfor" => \A c \in confirmed : c.row \in RowsIn(flushed)
=============================================================================
