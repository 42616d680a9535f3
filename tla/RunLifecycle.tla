---------------------------- MODULE RunLifecycle ----------------------------
(***************************************************************************)
(* A run of waitforlsn from its first connection to its report             *)
(* (src/main.rs: run, make_pool, warm_up, pool_sampler, progress_reporter):*)
(* the startup checks, the warm-up, the worker tasks and their join, the   *)
(* two helper tasks, Ctrl-C and the report.                                *)
(*                                                                         *)
(* One action per await of main; the helper tasks also step between their  *)
(* locks and atomic loads, because they run on other threads.  The worker  *)
(* tasks are those of module Workload reduced to what main sees of them:   *)
(* attempts, the statistics they return and the shared counters.           *)
(*                                                                         *)
(* The servers are external.  A DSN may point to a wrong server: it is     *)
(* typed by hand, which is what the startup checks are for.                *)
(***************************************************************************)
EXTENDS PoolUsage, FiniteSets, Functions

CONSTANTS
  NTasks,         \* --tasks
  PoolSize,       \* PoolSize[p]: --primary-pool, --standby-pool
  Options,        \* the command lines: the run uses one of them
  NoTxns,         \* --txns not given
  Servers,        \* what the two DSNs may point to
  PoolStatuses,   \* PoolStatuses[p]: what Pool::status() may answer
  MaxWal,         \* bound: WAL positions
  MaxAttempts,    \* bound: attempts begun when --txns is absent
  MaxSamples      \* bound: samples taken of a pool

Pools == {"primary", "standby"}
Tasks == 0..(NTasks - 1)

\* duration, output: --duration, --output given; report, sampling:
\* --report-interval, --pool-sample-interval are not 0s; uses_standby as derived;
\* endless: a WAIT FOR with a --wait-timeout below a millisecond, for ever
CommandLines ==
  [duration : BOOLEAN, txns : Nat \cup {NoTxns}, uses_standby : BOOLEAN, endless : BOOLEAN,
   truncate : BOOLEAN, report : BOOLEAN, sampling : BOOLEAN, output : BOOLEAN]

\* a server in recovery is the standby of --primary ("own") or of another
\* primary ("foreign")
ServerPairs ==
  [primary : {"primary", "foreign"}, standby : {"own", "foreign", "primary"}]

ASSUME TasksAssumption == NTasks \in Nat
ASSUME PoolAssumption == PoolSize \in [Pools -> Nat \ {0}]
ASSUME OptionsAssumption == NoTxns \notin Nat /\ Options \subseteq CommandLines
ASSUME ServersAssumption == Servers \subseteq ServerPairs
ASSUME StatusAssumption == PoolStatuses \in [Pools -> SUBSET Statuses]
ASSUME BoundAssumption ==
  MaxWal \in Nat /\ MaxAttempts \in Nat /\ MaxSamples \in Nat

VARIABLES
  opt,       \* the options of the run; never changes
  dsn,       \* the servers behind the two DSNs; never changes
  mpc,       \* the await or the section main is in
  held,      \* held[p]: connections of the pool main holds
  warmed,    \* warm_up: how many of those its loop has taken
  open,      \* open[p]: open connections of the pool
  target,    \* the LSN of the startup WAIT FOR, while in scope
  wal,       \* WAL position of the primary
  schema,    \* WAL position of the last change of wfl_test, or NoTable
  replay,    \* WAL position the standby has replayed
  handler,   \* the Ctrl-C handler: "none", "installed" or "fired"
  expired,   \* the deadline has passed
  tpc,       \* tpc[t]: "none", "loop", "attempt", "done" or "panicked"
  st,        \* st[t]: counters of the TaskStats of task t
  live,      \* Ctx.live
  issued,    \* Ctx.issued; without --txns, attempts begun
  joined,    \* main has joined the tasks below this one
  total,     \* the merged TaskStats
  aborted,   \* main has aborted sampler and reporter
  spc,       \* where the sampler is
  rpc,       \* where the reporter is
  mon,       \* the reporter has its own connection
  usage,     \* usage[p]: PoolStats
  line,      \* the reporter's done, failed and last_done, last_failed
  printed    \* history: what the progress lines add up to

startVars    == <<held, warmed, open, target>>
walVars      == <<wal, schema, replay>>
taskVars     == <<tpc, st, live, issued>>
joinVars     == <<joined, total, aborted>>
reporterVars == <<rpc, mon, line, printed>>
helperVars   == <<spc, usage, reporterVars>>
runVars      == <<taskVars, joinVars, helperVars>>
vars == <<opt, dsn, mpc, startVars, walVars, handler, expired, runVars>>

NoTable == -1

-----------------------------------------------------------------------------
\* Mutated form of HasDuration: no default when neither limit is given.
HasDurationGivenOnly(o) == o.duration

\* Args::effective_duration is Some
HasDuration(o) == o.duration \/ o.txns = NoTxns

PoolsInUse == IF opt.uses_standby THEN Pools ELSE {"primary"}

NoCounts == [completed |-> 0, failed |-> 0]
Plus(a, b)  == [completed |-> a.completed + b.completed, failed |-> a.failed + b.failed]
Minus(a, b) == [completed |-> a.completed - b.completed, failed |-> a.failed - b.failed]

Startup == {"primary_get", "primary_role", "create", "truncate", "server_info",
            "lsn_get", "lsn_query", "standby_get", "standby_role",
            "startup_wait", "warm_primary", "warm_standby", "spawn"}
\* the tasks run, or have run and are reported
Measuring == mpc \in {"join", "summary", "csv", "done"}
Ended     == mpc \in {"done", "failed", "killed"}
Stop      == handler = "fired"

Init ==
  /\ opt \in Options
  /\ dsn \in Servers
  /\ mpc = "primary_get"
  /\ held = [p \in Pools |-> 0]
  /\ warmed = 0
  /\ open = [p \in Pools |-> 0]
  /\ target = 0
  /\ wal = 0
  /\ schema \in {NoTable, 0}
  /\ replay \in IF dsn.standby = "own" THEN {0} ELSE 0..MaxWal
  /\ handler = "none"
  /\ expired = FALSE
  /\ tpc = [t \in Tasks |-> "none"]
  /\ st = [t \in Tasks |-> NoCounts]
  /\ live = NoCounts
  /\ issued = 0
  /\ joined = 0
  /\ total = NoCounts
  /\ aborted = FALSE
  /\ spc = "none"
  /\ rpc = "none" /\ mon = FALSE
  /\ usage = [p \in Pools |-> NewUsage]
  /\ line = [now |-> NoCounts, last |-> NoCounts]
  /\ printed = [increments |-> NoCounts, shown |-> NoCounts,
                pools |-> [p \in Pools |-> NoSamples]]

-----------------------------------------------------------------------------
(* Startup: checks and schema, then the warm-up.                           *)

Goes(from, to) == mpc = from /\ mpc' = to

\* Pool::get: an idle connection, or a new one
Takes(p) ==
  /\ held[p] < PoolSize[p]
  /\ held' = [held EXCEPT ![p] = @ + 1]
  /\ open' = [open EXCEPT ![p] = Larger(@, held[p] + 1)]

\* the client goes out of scope
GivesBack(p, n) == held' = [held EXCEPT ![p] = @ - n]

PrimaryTaken ==
  /\ Goes("primary_get", "primary_role")
  /\ Takes("primary")
  /\ UNCHANGED <<opt, dsn, warmed, target, walVars, handler, expired, runVars>>

PrimaryRoleChecked ==
  /\ Goes("primary_role", IF dsn.primary = "primary" THEN "create" ELSE "failed")
  /\ UNCHANGED <<opt, dsn, startVars, walVars, handler, expired, runVars>>

WritesSchema == wal' = wal + 1 /\ schema' = wal + 1 /\ UNCHANGED replay

\* CREATE TABLE IF NOT EXISTS
TableCreated ==
  /\ Goes("create", IF opt.truncate THEN "truncate" ELSE "server_info")
  /\ IF schema = NoTable THEN WritesSchema ELSE UNCHANGED walVars
  /\ UNCHANGED <<opt, dsn, startVars, handler, expired, runVars>>

TableTruncated ==
  /\ Goes("truncate", "server_info")
  /\ WritesSchema
  /\ UNCHANGED <<opt, dsn, startVars, handler, expired, runVars>>

\* Mutated form of ServerInfoRead: the client lives on to the end of run.
ServerInfoReadKeepsClient ==
  /\ Goes("server_info", IF opt.uses_standby THEN "lsn_get" ELSE "warm_primary")
  /\ UNCHANGED <<opt, dsn, startVars, walVars, handler, expired, runVars>>

\* the SHOWs and settings; the client ends with the block
ServerInfoRead ==
  /\ Goes("server_info", IF opt.uses_standby THEN "lsn_get" ELSE "warm_primary")
  /\ GivesBack("primary", 1)
  /\ UNCHANGED <<opt, dsn, warmed, open, target, walVars, handler, expired, runVars>>

LsnConnectionTaken ==
  /\ Goes("lsn_get", "lsn_query")
  /\ Takes("primary")
  /\ UNCHANGED <<opt, dsn, warmed, target, walVars, handler, expired, runVars>>

\* the client is a temporary of the statement
LsnQueried ==
  /\ Goes("lsn_query", "standby_get")
  /\ target' = wal
  /\ GivesBack("primary", 1)
  /\ UNCHANGED <<opt, dsn, warmed, open, walVars, handler, expired, runVars>>

StandbyTaken ==
  /\ Goes("standby_get", "standby_role")
  /\ Takes("standby")
  /\ UNCHANGED <<opt, dsn, warmed, target, walVars, handler, expired, runVars>>

StandbyRoleChecked ==
  /\ Goes("standby_role", IF dsn.standby = "primary" THEN "failed" ELSE "startup_wait")
  /\ UNCHANGED <<opt, dsn, startVars, walVars, handler, expired, runVars>>

\* Mutated form of StartupWaitAnswered: the status is not looked at.
StartupWaitAnyStatus ==
  /\ Goes("startup_wait", "warm_primary")
  /\ GivesBack("standby", 1)
  /\ target' = 0
  /\ UNCHANGED <<opt, dsn, warmed, open, walVars, handler, expired, runVars>>

\* WaitStatus::Success; any other status is one of StartupFails.  The scope of
\* the LSN and of the client ends.
StartupWaitAnswered ==
  /\ Goes("startup_wait", "warm_primary")
  /\ target <= replay
  /\ GivesBack("standby", 1)
  /\ target' = 0
  /\ UNCHANGED <<opt, dsn, warmed, open, walVars, handler, expired, runVars>>

\* one `pool.get()` of warm_up, or its end
WarmUp(p, at, next) ==
  /\ mpc = at
  /\ IF warmed < PoolSize[p]
        THEN Takes(p) /\ warmed' = warmed + 1 /\ UNCHANGED mpc
        ELSE GivesBack(p, warmed) /\ warmed' = 0 /\ mpc' = next /\ UNCHANGED open
  /\ UNCHANGED <<opt, dsn, target, walVars, handler, expired, runVars>>

\* Mutated form of PrimaryWarmed: a single connection is opened.
PrimaryWarmedOnce ==
  /\ Goes("warm_primary", IF opt.uses_standby THEN "warm_standby" ELSE "spawn")
  /\ open' = [open EXCEPT !["primary"] = Larger(@, 1)]
  /\ UNCHANGED <<opt, dsn, held, warmed, target, walVars, handler, expired, runVars>>

PrimaryWarmed ==
  WarmUp("primary", "warm_primary", IF opt.uses_standby THEN "warm_standby" ELSE "spawn")
StandbyWarmed == WarmUp("standby", "warm_standby", "spawn")

\* `?` after any await: a connection, a query or the wait did not succeed
StartupFails ==
  /\ mpc \in Startup \ {"spawn"}
  /\ mpc' = "failed"
  /\ UNCHANGED <<opt, dsn, startVars, walVars, handler, expired, runVars>>

\* other sessions of the primary write; two positions stay for the schema
OthersWrite ==
  /\ mpc \in Startup
  /\ wal + 2 < MaxWal
  /\ wal' = wal + 1
  /\ UNCHANGED <<opt, dsn, mpc, startVars, schema, replay, handler, expired, runVars>>

StandbyReplays ==
  /\ mpc \in Startup
  /\ replay < IF dsn.standby = "own" THEN wal ELSE MaxWal
  /\ replay' = replay + 1
  /\ UNCHANGED <<opt, dsn, mpc, startVars, wal, schema, handler, expired, runVars>>

-----------------------------------------------------------------------------
(* The measured run.                                                       *)

\* Ctx, the helper tasks and the worker tasks.  interval(0) panics: a sampler
\* with a zero interval is gone at once.
Spawned ==
  /\ Goes("spawn", "join")
  /\ tpc' = [t \in Tasks |-> "loop"]
  /\ spc' = IF opt.sampling THEN "tick" ELSE "gone"
  /\ rpc' = IF opt.report THEN "connect" ELSE "none"
  /\ UNCHANGED <<opt, dsn, startVars, walVars, handler, expired,
                 st, live, issued, joinVars, usage, mon, line, printed>>

\* the spawned handler task reaches ctrl_c()
HandlerInstalled ==
  /\ mpc \notin Startup /\ ~Ended
  /\ handler = "none"
  /\ handler' = "installed"
  /\ UNCHANGED <<opt, dsn, mpc, startVars, walVars, expired, runVars>>

\* SIGINT: without a handler it ends the process
CtrlC ==
  /\ ~Ended
  /\ \/ /\ handler = "none"
        /\ mpc' = "killed"
        /\ UNCHANGED handler
     \/ /\ handler = "installed"
        /\ handler' = "fired"
        /\ UNCHANGED mpc
  /\ UNCHANGED <<opt, dsn, startVars, walVars, expired, runVars>>

DeadlinePasses ==
  /\ mpc \notin Startup /\ ~Ended
  /\ HasDuration(opt) /\ ~expired
  /\ expired' = TRUE
  /\ UNCHANGED <<opt, dsn, mpc, startVars, walVars, handler, runVars>>

SetTask(t, label) == tpc' = [tpc EXCEPT ![t] = label]

\* keep_going answers no for the flag or the clock
TaskStops(t) ==
  /\ tpc[t] = "loop" /\ ~Ended
  /\ Stop \/ expired
  /\ SetTask(t, "done")
  /\ UNCHANGED <<opt, dsn, mpc, startVars, walVars, handler, expired,
                 st, live, issued, joinVars, helperVars>>

\* keep_going counts the attempt
TaskCounts(t) ==
  /\ tpc[t] = "loop" /\ ~Ended
  /\ ~Stop /\ ~expired
  /\ opt.txns = NoTxns => issued < MaxAttempts
  /\ issued' = issued + 1
  /\ SetTask(t, IF opt.txns # NoTxns /\ issued >= opt.txns THEN "done" ELSE "attempt")
  /\ UNCHANGED <<opt, dsn, mpc, startVars, walVars, handler, expired,
                 st, live, joinVars, helperVars>>

\* the loop body ends: the task's own statistics and the live counters
TaskSettles(t) ==
  /\ tpc[t] = "attempt" /\ ~Ended
  /\ \E c \in DOMAIN NoCounts :
       /\ st' = [st EXCEPT ![t][c] = @ + 1]
       /\ live' = [live EXCEPT ![c] = @ + 1]
  /\ SetTask(t, "loop")
  /\ UNCHANGED <<opt, dsn, mpc, startVars, walVars, handler, expired,
                 issued, joinVars, helperVars>>

\* a panic: the statistics of the task are lost, and its attempt with them
TaskPanics(t) ==
  /\ tpc[t] = "attempt" /\ ~Ended
  /\ SetTask(t, "panicked")
  /\ UNCHANGED <<opt, dsn, mpc, startVars, walVars, handler, expired,
                 st, live, issued, joinVars, helperVars>>

-----------------------------------------------------------------------------
(* Join and report.                                                        *)

TaskJoined ==
  /\ mpc = "join"
  /\ joined < NTasks
  /\ tpc[joined] = "done"
  /\ total' = Plus(total, st[joined])
  /\ joined' = joined + 1
  /\ UNCHANGED <<opt, dsn, mpc, startVars, walVars, handler, expired,
                 taskVars, aborted, helperVars>>

\* the `?` after h.await: run returns without a report
JoinFails ==
  /\ Goes("join", "failed")
  /\ joined < NTasks
  /\ tpc[joined] = "panicked"
  /\ UNCHANGED <<opt, dsn, startVars, walVars, handler, expired, runVars>>

\* Mutated form of AllJoined: one task too few.
AllJoinedButOne ==
  /\ Goes("join", "summary")
  /\ joined >= NTasks - 1
  /\ aborted' = TRUE
  /\ UNCHANGED <<opt, dsn, startVars, walVars, handler, expired,
                 taskVars, joined, total, helperVars>>

AllJoined ==
  /\ Goes("join", "summary")
  /\ joined = NTasks
  /\ aborted' = TRUE
  /\ UNCHANGED <<opt, dsn, startVars, walVars, handler, expired,
                 taskVars, joined, total, helperVars>>

SummaryPrinted ==
  /\ Goes("summary", IF opt.output THEN "csv" ELSE "done")
  /\ UNCHANGED <<opt, dsn, startVars, walVars, handler, expired, runVars>>

CsvWritten ==
  /\ mpc = "csv"
  /\ mpc' \in {"done", "failed"}
  /\ UNCHANGED <<opt, dsn, startVars, walVars, handler, expired, runVars>>

-----------------------------------------------------------------------------
(* The helper tasks.  abort() ends them at their next await: a poll that   *)
(* is under way on another thread goes on until then.                      *)

MainAndTasks == <<opt, dsn, mpc, startVars, walVars, handler, expired,
                  taskVars, joinVars>>

SamplerTicks ==
  /\ spc = "tick" /\ ~aborted /\ ~Ended
  /\ usage["primary"].run.samples < MaxSamples
  /\ spc' = "primary"
  /\ UNCHANGED <<MainAndTasks, usage, reporterVars>>

\* Pool::status() and PoolUsage::sample under the pool's lock
PoolSampled(p) ==
  /\ spc = p /\ ~Ended
  /\ \E status \in PoolStatuses[p] :
       usage' = [usage EXCEPT ![p] = Sample(@, status)]
  /\ spc' = IF p = "primary" /\ opt.uses_standby THEN "standby" ELSE "tick"
  /\ UNCHANGED <<MainAndTasks, reporterVars>>

\* connected or not, lines are printed
ReporterConnects ==
  /\ rpc = "connect" /\ ~aborted /\ ~Ended
  /\ rpc' = "tick" /\ mon' \in BOOLEAN
  /\ UNCHANGED <<MainAndTasks, spc, usage, line, printed>>

ReporterTicks ==
  /\ rpc = "tick" /\ ~aborted /\ ~Ended
  /\ rpc' = "completed"
  /\ UNCHANGED <<MainAndTasks, spc, usage, mon, line, printed>>

\* the two loads
CounterLoaded(c, next) ==
  /\ rpc = c /\ ~Ended
  /\ line' = [line EXCEPT !.now[c] = live[c]]
  /\ rpc' = next
  /\ UNCHANGED <<MainAndTasks, spc, usage, mon, printed>>

\* the lag query answers or fails, and the line is printed; without a connection
\* there is no query, and no await that an abort could end
LinePrinted ==
  /\ rpc = "lag" /\ ~Ended
  /\ mon => ~aborted
  /\ printed' = [printed EXCEPT
       !.increments = Plus(@, Minus(line.now, line.last)),
       !.shown = line.now]
  /\ rpc' = "primary"
  /\ UNCHANGED <<MainAndTasks, spc, usage, mon, line>>

\* Mutated form of NextLast: the counters are read again.
NextLastReread == live

\* last_done and last_failed of the next line
NextLast == line.now

\* the interval is printed and reset under one lock; after the last pool the
\* counters of the line become the last ones
PoolPrinted(p) ==
  /\ rpc = p /\ ~Ended
  /\ printed' = [printed EXCEPT !.pools[p] = Combine(@, usage[p].interval)]
  /\ usage' = [usage EXCEPT ![p] = ResetInterval(@)]
  /\ IF p = "primary" /\ opt.uses_standby
       THEN rpc' = "standby" /\ UNCHANGED line
       ELSE rpc' = "tick" /\ line' = [line EXCEPT !.last = NextLast]
  /\ UNCHANGED <<MainAndTasks, spc, mon>>

-----------------------------------------------------------------------------
Finished == Ended /\ UNCHANGED vars

MainStarts ==
  \/ PrimaryTaken \/ PrimaryRoleChecked \/ TableCreated \/ TableTruncated
  \/ ServerInfoRead \/ LsnConnectionTaken \/ LsnQueried \/ StandbyTaken
  \/ StandbyRoleChecked \/ StartupWaitAnswered \/ PrimaryWarmed \/ StandbyWarmed
  \/ StartupFails \/ Spawned
MainReports == TaskJoined \/ JoinFails \/ AllJoined \/ SummaryPrinted \/ CsvWritten
TaskSteps(t) == TaskStops(t) \/ TaskCounts(t) \/ TaskSettles(t) \/ TaskPanics(t)
SamplerSteps == SamplerTicks \/ \E p \in Pools : PoolSampled(p)
ReporterSteps ==
  \/ ReporterConnects \/ ReporterTicks
  \/ CounterLoaded("completed", "failed") \/ CounterLoaded("failed", "lag")
  \/ LinePrinted
  \/ \E p \in Pools : PoolPrinted(p)

Next ==
  \/ MainStarts \/ MainReports
  \/ \E t \in Tasks : TaskSteps(t)
  \/ SamplerSteps \/ ReporterSteps
  \/ OthersWrite \/ StandbyReplays
  \/ HandlerInstalled \/ CtrlC \/ DeadlinePasses
  \/ Finished

Spec == Init /\ [][Next]_vars

\* Every startup await ends (connections, queries and the 30 s WAIT FOR have
\* timeouts or answers), the worker tasks go on, and the clock runs.  An attempt
\* ends unless its WAIT FOR has no timeout (Termination of module Workload).
\* Ctrl-C need not come, and no run waits for its helper tasks.
Fairness ==
  /\ WF_vars(MainStarts)
  /\ WF_vars(MainReports)
  /\ \A t \in Tasks : WF_vars(TaskSteps(t) /\ (tpc[t] = "attempt" => ~opt.endless))
  /\ WF_vars(DeadlinePasses)

FairSpec == Spec /\ Fairness

-----------------------------------------------------------------------------
Counts == [completed : Nat, failed : Nat]

\* Every variable has the shape main.rs and metrics.rs give it.
TypeOK ==
  /\ opt \in Options /\ dsn \in Servers
  /\ mpc \in Startup \cup {"join", "summary", "csv", "done", "failed", "killed"}
  /\ held \in [Pools -> Nat] /\ open \in [Pools -> Nat] /\ warmed \in Nat
  /\ target \in Nat /\ wal \in Nat /\ replay \in Nat /\ schema \in Nat \cup {NoTable}
  /\ handler \in {"none", "installed", "fired"}
  /\ expired \in BOOLEAN /\ aborted \in BOOLEAN
  /\ tpc \in [Tasks -> {"none", "loop", "attempt", "done", "panicked"}]
  /\ st \in [Tasks -> Counts] /\ live \in Counts /\ total \in Counts
  /\ issued \in Nat /\ joined \in 0..NTasks
  /\ spc \in {"none", "tick", "gone"} \cup Pools
  /\ mon \in BOOLEAN
  /\ rpc \in {"none", "connect", "tick", "completed", "failed", "lag"} \cup Pools
  /\ usage \in [Pools -> Usages]
  /\ line \in [now : Counts, last : Counts]
  /\ printed \in [increments : Counts, shown : Counts, pools : [Pools -> Accumulators]]

\* main never asks a pool for a connection when it holds all of them itself:
\* the clients of the startup checks are out of scope before the warm-up takes
\* the whole pool, even a pool of one.
NoWaitOnItself ==
  /\ mpc \in {"primary_get", "lsn_get"} => held["primary"] < PoolSize["primary"]
  /\ mpc = "standby_get" => held["standby"] < PoolSize["standby"]
  /\ mpc = "warm_primary" /\ warmed < PoolSize["primary"]
       => held["primary"] < PoolSize["primary"]
  /\ mpc = "warm_standby" /\ warmed < PoolSize["standby"]
       => held["standby"] < PoolSize["standby"]

\* D10: when the tasks run, every connection they may ask for is open and back
\* in its pool.
PoolsAreWarm ==
  mpc = "join" => \A p \in PoolsInUse : open[p] = PoolSize[p] /\ held[p] = 0

\* D10: the tasks run only on a primary and, where one is needed, a server
\* in recovery; if that is the primary's own standby, it has replayed the last
\* change of wfl_test, CREATE TABLE or TRUNCATE.
PairIsChecked ==
  Measuring =>
    /\ dsn.primary = "primary"
    /\ opt.uses_standby => dsn.standby # "primary"
    /\ opt.uses_standby /\ dsn.standby = "own" => schema \in 0..replay

\* D9: a sample is in the run and in exactly one interval: the intervals
\* printed so far and the open one together are the run, whatever sampler and
\* reporter interleave.
SamplesReportedOnce ==
  \A p \in Pools : usage[p].run = Combine(printed.pools[p], usage[p].interval)

\* The increments of the progress lines add up to the totals of the last line,
\* and no line shows more than has happened: nothing is lost between two
\* lines although the counters move while one is being printed.
ProgressAddsUp ==
  /\ printed.increments = printed.shown
  /\ \A c \in DOMAIN NoCounts : printed.shown[c] <= live[c]

\* The report covers every attempt of every task: it is printed when all have
\* returned, its totals are the tasks' together and those of Ctx.live.
ReportIsComplete ==
  mpc \in {"summary", "csv", "done"} =>
    /\ \A t \in Tasks : tpc[t] = "done"
    /\ total = live
    /\ \A c \in DOMAIN NoCounts :
         total[c] = SumFunction([t \in Tasks |-> st[t][c]])

\* Every run ends by itself, unless a WAIT FOR may last for ever: with its report,
\* or with the error of a startup step, of a task's panic or of the CSV file.  No
\* task, helper or late Ctrl-C holds the report up; a Ctrl-C before the handler
\* may end it (InterruptedRunReports).
RunEnds ==
  ~opt.endless => <>(mpc \in {"done", "failed"} \/ (mpc = "killed" /\ handler = "none"))

\* PARAMETERS.md --txns: "Ctrl-C stops a run early at any time. The summary and
\* CSV line are still written."  No Ctrl-C ends the program without them.
InterruptedRunReports == mpc # "killed"

\* DESIGN.md D10: the startup WAIT FOR "proves the standby is streaming from
\* this primary".
StandbyIsOwn == Measuring /\ opt.uses_standby => dsn.standby = "own"
=============================================================================
