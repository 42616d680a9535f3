------------------------------ MODULE Workload ------------------------------
(***************************************************************************)
(* The closed-loop worker tasks of waitforlsn (src/workload.rs): run_task, *)
(* primary_step, standby_step, diagnose_timeout and keep_going, with the   *)
(* two deadpool pools, the per-task statistics (src/metrics.rs) and the    *)
(* shared atomics of Ctx.                                                  *)
(*                                                                         *)
(* One action per await point: a task is between two actions exactly when  *)
(* it is suspended in an await, so the interleavings of the model are      *)
(* those of the tasks on a multi-threaded runtime.  What a server answers  *)
(* is a nondeterministic choice; which WAL the answers stand for is the    *)
(* subject of module ReadYourWrites.                                       *)
(*                                                                         *)
(* Left out: durations (a histogram is its number of samples), messages    *)
(* and the ten-message print budget, and two error paths no server answer  *)
(* reaches: an unparsable pg_lsn (in ReadYourWrites what the server prints *)
(* parses) and a WAIT FOR that returns no row (counted with its errors).   *)
(***************************************************************************)
EXTENDS Integers, FiniteSets, Functions

CONSTANTS
  Tasks,          \* the worker tasks (--tasks)
  Mode,           \* "sync" (T1) or "waitfor" (T2)
  Verify,         \* --verify
  FetchLsn,       \* --fetch-lsn
  PrimaryPool,    \* --primary-pool
  StandbyPool,    \* --standby-pool
  MaxTxns,        \* --txns, or NoTxns
  NoTxns,
  HasDeadline,    \* effective_duration() is Some
  WaitTimeoutMs,  \* --wait-timeout in whole milliseconds; 0 is "wait forever"
  PoolWaitSecs,   \* wait_timeout of make_pool (30 in the code); 0 is None
  AttemptBound    \* bound of the model: attempts begun when --txns is absent

ASSUME ModeAssumption == Mode \in {"sync", "waitfor"}
ASSUME OptionAssumption ==
  Verify \in BOOLEAN /\ FetchLsn \in BOOLEAN /\ HasDeadline \in BOOLEAN
ASSUME PoolAssumption == PrimaryPool \in Nat \ {0} /\ StandbyPool \in Nat \ {0}
ASSUME TxnsAssumption == NoTxns \notin Nat /\ MaxTxns \in Nat \cup {NoTxns}
ASSUME TimeoutAssumption == WaitTimeoutMs \in Nat /\ PoolWaitSecs \in Nat
ASSUME BoundAssumption == AttemptBound \in Nat
ASSUME TasksAssumption == IsFiniteSet(Tasks) /\ Tasks # {}

VARIABLES
  pc,        \* pc[t]: the await task t is suspended in
  primary,   \* tasks that hold a connection of the primary pool
  standby,   \* tasks that hold a connection of the standby pool
  st,        \* st[t]: the TaskStats task t owns
  live,      \* Ctx.live: counters shared by all tasks
  issued,    \* Ctx.issued, counted only with --txns
  stop,      \* Ctx.stop, set by the Ctrl-C handler
  expired,   \* Instant::now() >= Ctx.deadline
  started    \* history: attempts that entered the loop body

vars == <<pc, primary, standby, st, live, issued, stop, expired, started>>

-----------------------------------------------------------------------------
(* Options derived from other options (src/cli.rs).                        *)

UsesStandby == Mode = "waitfor" \/ Verify
NeedsLsn    == Mode = "waitfor" \/ FetchLsn

(* Steps an error is counted under (D11) and histograms (metrics.rs Hists). *)
Steps == {"primary_acquire", "commit", "lsn_fetch",
          "standby_acquire", "wait_for_lsn", "verify"}
Hists == Steps \cup {"total"}

WaitStatus == {"success", "timeout", "not_in_recovery", "other"}
NoStatus   == "none"       \* Option::None: no WAIT FOR in sync mode
Found      == {"yes", "no"}
NotChecked == "none"       \* Option::None: the verify query did not run

(***************************************************************************)
(* TaskStats and its updates.                                              *)
(***************************************************************************)
\* Mutated form of NewStats: a Hists::new that forgets the total histogram.
NewStatsNoTotal ==
  [h |-> [x \in Steps |-> 0], completed |-> 0,
   wait |-> [x \in WaitStatus |-> 0], verify |-> [x \in Found |-> 0],
   errors |-> [x \in Steps |-> 0], boundary_lsns |-> 0]

NewStats ==
  [h |-> [x \in Hists |-> 0], completed |-> 0,
   wait |-> [x \in WaitStatus |-> 0], verify |-> [x \in Found |-> 0],
   errors |-> [x \in Steps |-> 0], boundary_lsns |-> 0]

\* rec(&mut st.h.<step>, elapsed)
Rec(s, step) == [s EXCEPT !.h[step] = @ + 1]

\* TaskStats::error
CountError(s, step) == [s EXCEPT !.errors[step] = @ + 1]

\* Mutated form of CountStatus: no counter for a promoted standby.
CountStatusPromotedLost(s, status) ==
  IF status \in {NoStatus, "not_in_recovery"} THEN s
  ELSE [s EXCEPT !.wait[status] = @ + 1]

\* match status in run_task
CountStatus(s, status) ==
  IF status = NoStatus THEN s ELSE [s EXCEPT !.wait[status] = @ + 1]

\* match found in run_task
CountFound(s, found) ==
  IF found = NotChecked THEN s ELSE [s EXCEPT !.verify[found] = @ + 1]

\* `complete` as run_task computes it from the status of the standby step (D6)
IsComplete(status) == status \in {NoStatus, "success"}

\* the completed branch at the end of the loop body
CountCompleted(s) == [Rec(s, "total") EXCEPT !.completed = @ + 1]

\* TaskStats::error_total
ErrorTotal(s) ==
  s.errors["primary_acquire"] + s.errors["commit"] + s.errors["lsn_fetch"]
  + s.errors["standby_acquire"] + s.errors["wait_for_lsn"] + s.errors["verify"]

-----------------------------------------------------------------------------
Init ==
  /\ pc = [t \in Tasks |-> "loop"]
  /\ primary = {}
  /\ standby = {}
  /\ st = [t \in Tasks |-> NewStats]
  /\ live = [completed |-> 0, failed |-> 0]
  /\ issued = 0
  /\ stop = FALSE
  /\ expired = FALSE
  /\ started = 0

Goto(t, label) == pc' = [pc EXCEPT ![t] = label]
SetStats(t, s) == st' = [st EXCEPT ![t] = s]

\* an attempt is in flight from keep_going's yes to its count in Ctx.live
Idle == {"loop", "count", "backoff_primary", "done"}
InFlight == {t \in Tasks : pc[t] \notin Idle}
AllDone == \A t \in Tasks : pc[t] = "done"

(***************************************************************************)
(* keep_going, in its two atomic parts: the loads of stop and of the clock *)
(* and, with --txns, the fetch_add on issued.  Another task or the Ctrl-C  *)
(* handler may run between them.                                           *)
(***************************************************************************)
WithinBound ==
  MaxTxns = NoTxns =>
    started + Cardinality({u \in Tasks : pc[u] = "count"}) < AttemptBound

CheckFlags(t) ==
  /\ pc[t] = "loop"
  /\ \/ /\ stop \/ expired
        /\ Goto(t, "done")
     \/ /\ ~stop /\ ~expired
        /\ WithinBound
        /\ Goto(t, "count")
  /\ UNCHANGED <<primary, standby, st, live, issued, stop, expired, started>>

\* Mutated form of BudgetSpent: > instead of >=.
BudgetSpentOffByOne == MaxTxns # NoTxns /\ issued > MaxTxns

\* issued.fetch_add(1) >= max: no other attempt may start
BudgetSpent == MaxTxns # NoTxns /\ issued >= MaxTxns

CountTxn(t) ==
  /\ pc[t] = "count"
  /\ issued' = IF MaxTxns = NoTxns THEN issued ELSE issued + 1
  /\ \/ /\ BudgetSpent
        /\ Goto(t, "done")
        /\ UNCHANGED started
     \/ /\ ~BudgetSpent
        /\ Goto(t, "primary_acquire")
        /\ started' = started + 1
  /\ UNCHANGED <<primary, standby, st, live, stop, expired>>

(***************************************************************************)
(* Pool::get (deadpool).  A task that finds a permit free takes it, and    *)
(* then either has a connection or fails to open one (create_timeout, or a *)
(* server that refuses); a task that finds none waits until wait_timeout.  *)
(* Which waiting task is served next is left open.                         *)
(***************************************************************************)
PermitFree(held, size) == Cardinality(held) < size
GetMayFail(held, size) == PermitFree(held, size) \/ PoolWaitSecs > 0

(***************************************************************************)
(* primary_step.  The pooled connection is dropped when the function       *)
(* returns, on success and on every `?`.                                   *)
(***************************************************************************)
CountFailed == live' = [live EXCEPT !.failed = @ + 1]

\* primary_step returned Err: the connection (if any) is dropped, the error is
\* counted and published, and the task backs off for 100 ms
PrimaryFails(t, step) ==
  /\ SetStats(t, CountError(st[t], step))
  /\ CountFailed
  /\ primary' = primary \ {t}
  /\ Goto(t, "backoff_primary")
  /\ UNCHANGED <<standby, issued, stop, expired, started>>

\* the loop body ends with the attempt completed
Completes(t, s) ==
  /\ SetStats(t, CountCompleted(s))
  /\ live' = [live EXCEPT !.completed = @ + 1]
  /\ Goto(t, "loop")

\* primary_step returned Ok with statistics s: the connection goes back to the
\* pool before any standby step (D1)
PrimaryReturns(t, s) ==
  /\ primary' = primary \ {t}
  /\ \/ /\ UsesStandby
        /\ SetStats(t, s)
        /\ Goto(t, "standby_acquire")
        /\ UNCHANGED live
     \/ /\ ~UsesStandby
        /\ Completes(t, s)
  /\ UNCHANGED <<standby, issued, stop, expired, started>>

PrimaryAcquired(t) ==
  /\ pc[t] = "primary_acquire"
  /\ PermitFree(primary, PrimaryPool)
  /\ primary' = primary \cup {t}
  /\ SetStats(t, Rec(st[t], "primary_acquire"))
  /\ Goto(t, "commit")
  /\ UNCHANGED <<standby, live, issued, stop, expired, started>>

PrimaryAcquireFails(t) ==
  /\ pc[t] = "primary_acquire"
  /\ GetMayFail(primary, PrimaryPool)
  /\ PrimaryFails(t, "primary_acquire")

CommitReturns(t) ==
  /\ pc[t] = "commit"
  /\ LET s == Rec(st[t], "commit")
     IN  \/ /\ NeedsLsn
            /\ SetStats(t, s)
            /\ Goto(t, "lsn_fetch")
            /\ UNCHANGED <<primary, standby, live, issued, stop, expired, started>>
         \/ /\ ~NeedsLsn
            /\ PrimaryReturns(t, s)

CommitFails(t) ==
  /\ pc[t] = "commit"
  /\ PrimaryFails(t, "commit")

\* boundary: 1 when the insert LSN pointed just past a page header
LsnFetched(t) ==
  /\ pc[t] = "lsn_fetch"
  /\ \E boundary \in {0, 1} :
       PrimaryReturns(t, [Rec(st[t], "lsn_fetch") EXCEPT !.boundary_lsns = @ + boundary])

LsnFetchFails(t) ==
  /\ pc[t] = "lsn_fetch"
  /\ PrimaryFails(t, "lsn_fetch")

\* the 100 ms sleep after a primary error, then `continue`
PrimaryBackoffEnds(t) ==
  /\ pc[t] = "backoff_primary"
  /\ Goto(t, "loop")
  /\ UNCHANGED <<primary, standby, st, live, issued, stop, expired, started>>

(***************************************************************************)
(* standby_step and the rest of the loop body.                             *)
(***************************************************************************)

\* Mutated form of StandbyFails: published before the sleep, and again after it.
StandbyFailsCountedTwice(t, step) ==
  /\ SetStats(t, CountError(st[t], step))
  /\ CountFailed
  /\ standby' = standby \ {t}
  /\ Goto(t, "backoff_standby")
  /\ UNCHANGED <<primary, issued, stop, expired, started>>

\* Mutated form of StandbyFails: the connection is not given back.
StandbyFailsLeaking(t, step) ==
  /\ SetStats(t, CountError(st[t], step))
  /\ Goto(t, "backoff_standby")
  /\ UNCHANGED <<primary, standby, live, issued, stop, expired, started>>

\* standby_step returned Err: unlike after a primary error, the attempt is
\* published in Ctx.live only after the sleep
StandbyFails(t, step) ==
  /\ SetStats(t, CountError(st[t], step))
  /\ standby' = standby \ {t}
  /\ Goto(t, "backoff_standby")
  /\ UNCHANGED <<primary, live, issued, stop, expired, started>>

\* Mutated form of StandbyBackoffEnds: `continue` before live.inc_failed.
StandbyBackoffEndsSilently(t) ==
  /\ pc[t] = "backoff_standby"
  /\ Goto(t, "loop")
  /\ UNCHANGED <<primary, standby, st, live, issued, stop, expired, started>>

StandbyBackoffEnds(t) ==
  /\ pc[t] = "backoff_standby"
  /\ CountFailed
  /\ Goto(t, "loop")
  /\ UNCHANGED <<primary, standby, st, issued, stop, expired, started>>

\* standby_step returned Ok((status, found)) with statistics s
StandbyReturns(t, s, status, found) ==
  LET counted == CountFound(CountStatus(s, status), found)
  IN  /\ standby' = standby \ {t}
      /\ \/ /\ IsComplete(status)
            /\ Completes(t, counted)
         \/ /\ ~IsComplete(status)
            /\ SetStats(t, counted)
            /\ CountFailed
            /\ Goto(t, "loop")
      /\ UNCHANGED <<issued, stop, expired, started>>

StandbyAcquired(t) ==
  /\ pc[t] = "standby_acquire"
  /\ PermitFree(standby, StandbyPool)
  /\ standby' = standby \cup {t}
  /\ SetStats(t, Rec(st[t], "standby_acquire"))
  /\ Goto(t, IF Mode = "waitfor" THEN "wait_for_lsn" ELSE "verify")
  /\ UNCHANGED <<primary, live, issued, stop, expired, started>>

StandbyAcquireFails(t) ==
  /\ pc[t] = "standby_acquire"
  /\ GetMayFail(standby, StandbyPool)
  /\ StandbyFails(t, "standby_acquire")

\* the server answers WAIT FOR before its TIMEOUT
WaitAnswered(t, status) ==
  /\ pc[t] = "wait_for_lsn"
  /\ status # "timeout"
  /\ LET s == Rec(st[t], "wait_for_lsn")
     IN  \/ /\ status = "success" /\ Verify
            /\ SetStats(t, s)
            /\ Goto(t, "verify")
            /\ UNCHANGED <<primary, standby, live, issued, stop, expired, started>>
         \/ /\ ~(status = "success" /\ Verify)
            /\ StandbyReturns(t, s, status, NotChecked)
            /\ UNCHANGED primary

\* Mutated form of WaitExpires: a wait_sql without its TIMEOUT option.
WaitExpiresNever(t) == pc[t] = "wait_for_lsn" /\ FALSE /\ UNCHANGED vars

\* TIMEOUT elapsed: diagnose_timeout starts, on the connection still held
WaitExpires(t) ==
  /\ pc[t] = "wait_for_lsn"
  /\ WaitTimeoutMs > 0
  /\ SetStats(t, Rec(st[t], "wait_for_lsn"))
  /\ Goto(t, "diag_standby")
  /\ UNCHANGED <<primary, standby, live, issued, stop, expired, started>>

WaitFails(t) ==
  /\ pc[t] = "wait_for_lsn"
  /\ StandbyFails(t, "wait_for_lsn")

\* should_verify held: sync mode, or WAIT FOR returned success
VerifyReturns(t) ==
  /\ pc[t] = "verify"
  /\ \E found \in Found :
       StandbyReturns(t, Rec(st[t], "verify"),
                      IF Mode = "waitfor" THEN "success" ELSE NoStatus, found)
  /\ UNCHANGED primary

VerifyFails(t) ==
  /\ pc[t] = "verify"
  /\ StandbyFails(t, "verify")

(***************************************************************************)
(* diagnose_timeout.  It runs while the task holds its standby connection, *)
(* and takes a primary connection from the same pool the workload uses.    *)
(* Failures only change the text it returns.                               *)
(***************************************************************************)
DiagStandbyAnswered(t) ==
  /\ pc[t] = "diag_standby"
  /\ Goto(t, "diag_acquire")
  /\ UNCHANGED <<primary, standby, st, live, issued, stop, expired, started>>

DiagAcquired(t) ==
  /\ pc[t] = "diag_acquire"
  /\ PermitFree(primary, PrimaryPool)
  /\ primary' = primary \cup {t}
  /\ Goto(t, "diag_query")
  /\ UNCHANGED <<standby, st, live, issued, stop, expired, started>>

DiagAcquireFails(t) ==
  /\ pc[t] = "diag_acquire"
  /\ GetMayFail(primary, PrimaryPool)
  /\ StandbyReturns(t, st[t], "timeout", NotChecked)
  /\ UNCHANGED primary

DiagPrimaryAnswered(t) ==
  /\ pc[t] = "diag_query"
  /\ primary' = primary \ {t}
  /\ StandbyReturns(t, st[t], "timeout", NotChecked)

-----------------------------------------------------------------------------
(* The Ctrl-C handler of main.rs and the clock.                            *)

CtrlC ==
  /\ ~stop
  /\ stop' = TRUE
  /\ UNCHANGED <<pc, primary, standby, st, live, issued, expired, started>>

DeadlinePasses ==
  /\ HasDeadline /\ ~expired
  /\ expired' = TRUE
  /\ UNCHANGED <<pc, primary, standby, st, live, issued, stop, started>>

\* every task has returned its TaskStats: main joins them
Finished ==
  /\ AllDone
  /\ UNCHANGED vars

-----------------------------------------------------------------------------
PrimaryStep(t) ==
  \/ PrimaryAcquired(t) \/ PrimaryAcquireFails(t)
  \/ CommitReturns(t)   \/ CommitFails(t)
  \/ LsnFetched(t)      \/ LsnFetchFails(t)
  \/ PrimaryBackoffEnds(t)

StandbyStep(t) ==
  \/ StandbyAcquired(t) \/ StandbyAcquireFails(t)
  \/ VerifyReturns(t)   \/ VerifyFails(t)
  \/ StandbyBackoffEnds(t)

Diagnose(t) ==
  \/ DiagStandbyAnswered(t)
  \/ DiagAcquired(t) \/ DiagAcquireFails(t)
  \/ DiagPrimaryAnswered(t)

\* steps the task, the pool or a statement that always answers takes
OwnStep(t) ==
  \/ CheckFlags(t) \/ CountTxn(t)
  \/ PrimaryStep(t) \/ StandbyStep(t) \/ Diagnose(t)

\* answers to WAIT FOR: only its TIMEOUT is sure to come
WaitStep(t) ==
  \/ \E status \in WaitStatus : WaitAnswered(t, status)
  \/ WaitFails(t)
  \/ WaitExpires(t)

TaskStep(t) == OwnStep(t) \/ WaitStep(t)

Next ==
  \/ \E t \in Tasks : TaskStep(t)
  \/ CtrlC
  \/ DeadlinePasses
  \/ Finished

Spec == Init /\ [][Next]_vars

(***************************************************************************)
(* Fairness: the runtime polls every ready task, pool gets end (a free     *)
(* connection, wait_timeout or create_timeout), statements other than WAIT *)
(* FOR are answered or their connection breaks, sleeps end, and a WAIT FOR *)
(* with a positive TIMEOUT times out.  Nothing obliges the standby to      *)
(* answer success, and nobody has to press Ctrl-C.                         *)
(***************************************************************************)
Fairness ==
  /\ \A t \in Tasks : WF_vars(OwnStep(t)) /\ WF_vars(WaitExpires(t))
  /\ WF_vars(DeadlinePasses)

FairSpec == Spec /\ Fairness

-----------------------------------------------------------------------------
(* Properties.                                                             *)

Labels == {"loop", "count", "primary_acquire", "commit", "lsn_fetch",
           "standby_acquire", "wait_for_lsn", "diag_standby", "diag_acquire",
           "diag_query", "verify", "backoff_primary", "backoff_standby", "done"}

TaskStats ==
  [h : [Hists -> Nat], completed : Nat, wait : [WaitStatus -> Nat],
   verify : [Found -> Nat], errors : [Steps -> Nat], boundary_lsns : Nat]

TypeOK ==
  /\ pc \in [Tasks -> Labels]
  /\ primary \in SUBSET Tasks
  /\ standby \in SUBSET Tasks
  /\ st \in [Tasks -> TaskStats]
  /\ live \in [completed : Nat, failed : Nat]
  /\ issued \in Nat
  /\ stop \in BOOLEAN
  /\ expired \in BOOLEAN
  /\ started \in Nat

(* Every attempt is published in Ctx.live exactly once: what keep_going let in
   is what the progress lines show as completed or failed plus what is still
   in flight, whatever the interleaving of tasks, errors and back-offs. *)
AttemptsSettledOnce ==
  live.completed + live.failed + Cardinality(InFlight) = started

(* The progress lines (Ctx.live) and the final report (the merged TaskStats)
   agree: completed is the tasks' sum, failed is errors plus non-success
   statuses (metrics.rs Live), late by the attempts whose standby error is
   still in its 100 ms sleep. *)
NotConfirmed(s) ==
  s.wait["timeout"] + s.wait["not_in_recovery"] + s.wait["other"]

LiveMatchesStats ==
  /\ live.completed = SumFunction([t \in Tasks |-> st[t].completed])
  /\ live.failed + Cardinality({t \in Tasks : pc[t] = "backoff_standby"})
       = SumFunction([t \in Tasks |-> ErrorTotal(st[t]) + NotConfirmed(st[t])])

(* DESIGN.md D6: "Each step has its own histogram that includes all attempts",
   so that slow failures stay visible: a step has at least as many samples as it
   has failures. *)
StepsIncludeFailures ==
  \A t \in Tasks, step \in Steps : st[t].errors[step] <= st[t].h[step]

(* Connections come back: a task holds a primary connection exactly while it
   runs statements there, a standby connection exactly from the end of its
   get() to the end of standby_step, on every path including errors; and no
   pool hands out more than its size. *)
OnPrimary == {"commit", "lsn_fetch", "diag_query"}
OnStandby == {"wait_for_lsn", "verify", "diag_standby", "diag_acquire", "diag_query"}

ConnectionsReturned ==
  /\ primary = {t \in Tasks : pc[t] \in OnPrimary}
  /\ standby = {t \in Tasks : pc[t] \in OnStandby}
  /\ Cardinality(primary) <= PrimaryPool
  /\ Cardinality(standby) <= StandbyPool

(* --txns N runs exactly N attempts: never more, even when every task races
   for the last one, and a task that leaves because the budget is spent leaves
   only once N have begun.  The shared counter runs over N by at most one per
   task that has left. *)
BudgetExact ==
  MaxTxns # NoTxns =>
    /\ started <= MaxTxns
    /\ (\E t \in Tasks : pc[t] = "done") /\ ~stop /\ ~expired => started = MaxTxns
    /\ issued <= started + Cardinality({t \in Tasks : pc[t] = "done"})

(* The run is one behaviour of the abstract ledger: attempts begin within the
   budget, settle once, and the tasks are all gone only when every attempt is
   settled, so that the joined statistics are final. *)
Ledger == INSTANCE TxnLedger WITH
  Budget    <- MaxTxns,
  begun     <- started,
  completed <- live.completed,
  failed    <- live.failed,
  open      <- ~AllDone

RefinesLedger == Ledger!Spec

(* Once the run has a reason to end (Ctrl-C, the deadline, --txns) every task
   leaves, whatever the servers answer: no get() or WAIT FOR blocks forever. *)
Termination == (stop \/ expired \/ MaxTxns # NoTxns) ~> AllDone

=============================================================================
