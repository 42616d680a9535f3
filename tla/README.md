# Formal models of pgscripts

TLA+ models, TLC runs and TLAPS proofs of the programs in this repository that
have a behaviour of their own: above all `waitforlsn`
(`patroni/connection/waitforlsn`), the load generator that compares
synchronous commits (T1) with asynchronous commits confirmed by
`WAIT FOR LSN` on a standby (T2).

## 1. Inventory

The repository is a collection of PostgreSQL tools. What it holds, with the
state each part keeps and what makes it correct:

| Component | State | Operations | Correct when |
|---|---|---|---|
| waitforlsn worker tasks (`workload.rs`) | per task: `TaskStats`; shared: `issued`, `stop`, `Live`, two pools | `keep_going`, `primary_step`, `standby_step`, `diagnose_timeout`, back-offs | every attempt is counted once, counters agree, connections come back, no pool deadlock, `--txns` is exact, the run ends |
| waitforlsn LSN arithmetic (`workload.rs`) | none | `is_valid_lsn`, `parse_lsn`, `format_lsn`, `normalize_insert_lsn` | the target is the end of the last record, and its text denotes it |
| completion rule over replication (`workload.rs`, D2, D6) | WAL of the primary, positions of both servers, the LSN a task waits for | INSERT, LSN query, `WAIT FOR`, verify; flush, send, replay, crash, promotion | a completed transaction is where its mode promises, and waits do not stall |
| run lifecycle (`main.rs run`) | pools, `Ctx`, helper tasks | startup checks, warm-up, Ctrl-C, spawn, join and merge, abort, summary | checks guard the right pair of servers; the merged report is the sum of the tasks |
| pool usage and progress (`metrics.rs`, `main.rs`) | `PoolUsage` behind a mutex, last counters | sampler, reporter, summary | a sample is in exactly one interval and in the run; rates fit their interval |
| command line (`cli.rs`) | options | derived options | every combination of options leads to a run that can end |
| docker and matrix scripts | data directory, WAL writer settings | clone, run matrix | an interrupted clone is not mistaken for a finished one; one `--truncate` only |
| `Retry_Pool_Demo.py`, `threaded_db_pool2.py` | semaphore, pool, shutdown event | acquire, query, close or put back, retry, shutdown | slots and connections balance; shutdown joins every thread |
| `connPerSec`, `mysqlConnPerSec` | two atomic counters, a clock and a connection per task | connect, perhaps a statement, drop, until the duration is over | what is printed is what the tasks did; the program ends |
| `deadpool` demo | pool of permits and connections, tasks | get, query, give back, a fixed number of iterations | permits and connections balance on every path; no task starves |
| Java pool application | threads of the framework | save and list employees, log the pool's gauges | (endless loops of framework calls) |
| `HAtester.py` | one connection and its open transaction | insert on a primary, select on a replica, reconnect | it finds the primary again after a failover, at the cost of one transaction |
| `pg_upgrade_link_check.py` | what the walks found, rows, errors | pair tablespaces, walk both trees, classify, report, exit status | the exit status tells whether a user relation is not linked, whatever changes meanwhile |
| keepalived VIP routing | fall/rise counters, priorities | health check, election | after the last trouble the address is at the leader, and only there |
| other scripts, SQL, Kubernetes, Terraform | none | one-shot commands, declarations | - |

Interaction: the tasks share the two pools, the atomics of `Ctx` and, through
the servers, one WAL. `main` hands them `Ctx`, sets `stop` on Ctrl-C and joins
them; the sampler polls the pools and the reporter reads `Live` and drains the
sampler's intervals. The client programs share a pool, counters or a shutdown event among
their own threads or tasks. `HAtester.py` meets keepalived, Patroni and the servers
through one address.

Hard to test: the race for the last `--txns` slot; errors at every await with
a pool of one; `diagnose_timeout` holding a standby connection while it waits
for a primary one; a `WAIT FOR` timeout next to a late success; insert LSNs at
page and segment boundaries; a crash of the primary between an asynchronous
commit and its flush; startup checks that hold connections the warm-up needs;
samples and progress lines taken while the counters move; Ctrl-C at the wrong
moment; clean-up clauses that fail themselves; sessions that outlive the client that
dropped them; a panic or a `continue` with a pooled connection out; a replica promoted
under an open transaction; an address that follows the leader late; an interrupted
clone; trees that change while they are
walked, one after the other. `PROJECT.json` lists each at its line ("hazards").

## 2. Modules

| Module | Models | Role |
|---|---|---|
| `TxnLedger` | - | abstract: attempts begin within the budget and settle once |
| `Workload` | `run_task`, `primary_step`, `standby_step`, `diagnose_timeout`, `keep_going`, `TaskStats`, `Live` | implements `TxnLedger` |
| `WorkloadProofs` | - | theorems about `Workload` |
| `WalLayout` | `normalize_insert_lsn`, next to PostgreSQL's page layout | operators |
| `LsnText` | `is_valid_lsn`, `parse_lsn`, `format_lsn` | operators |
| `Replication` | PostgreSQL primary and standby (external) | environment |
| `ReadYourWrites` | what `primary_step` and `standby_step` obtain from the servers | composes tasks with `Replication`, implements `CommitContract` |
| `ReadYourWritesProofs` | - | theorems about `WalLayout`, `LsnText` and `ReadYourWrites`, with the refinement |
| `RunLifecycle` | `run`, `make_pool`, `warm_up`, `pool_sampler`, `progress_reporter` of `main.rs` | composes `PoolUsage` and reduced worker tasks |
| `PoolUsage` | `UsageAcc`, `PoolUsage` of `metrics.rs` | operators |
| `RunLifecycleProofs` | - | theorems about `RunLifecycle` |
| `PooledThreads` | `Retry_Pool_Demo.py`, `threaded_db_pool2.py` | both programs, chosen in `Init` |
| `PooledThreadsProofs` | - | theorems about `PooledThreads` |
| `ClientLoops` | `connPerSec` (three programs), `mysqlConnPerSec`, `deadpool` | one of them, chosen in `Init` |
| `ClientLoopsProofs` | - | theorems about `ClientLoops` |
| `VipRouting` | `chk_primary.sh` and the two keepalived configurations | operators and actions of `HATester` |
| `HATester` | `HAtester.py` | composes the tester with `VipRouting` |
| `HATesterProofs` | - | theorems about `HATester` and `VipRouting` |
| `Counting` | - | lemmas on cardinalities and on sums over finite sets that the proof modules share |
| `LinkCheck` | `pg_upgrade_link_check.py`: `main`, `tablespace_pairs`, `scan`, `compare_trees`, `report` | on its own, with an environment that changes the trees |
| `LinkCheckProofs` | - | theorems about `LinkCheck` |
| `CommitContract` | - | abstract: only secured rows are confirmed, secured rows are never lost |
| `MC*` | - | instances for TLC: `MCSideBySide` puts three command lines of `Workload`, the WAL of `ReadYourWrites` and `LinkCheck` next to each other, one of them per behaviour, `MCPrograms` the three small client modules |

### Workload

One action per await point. `pc[t]` is the await task `t` is suspended in:

| `pc` | code |
|---|---|
| `loop`, `count` | `keep_going`: loads of `stop` and the clock, then the `fetch_add` on `issued` |
| `primary_acquire`, `commit`, `lsn_fetch` | the awaits of `primary_step` |
| `standby_acquire`, `wait_for_lsn`, `verify` | the awaits of `standby_step` |
| `diag_standby`, `diag_acquire`, `diag_query` | the awaits of `diagnose_timeout` |
| `backoff_primary`, `backoff_standby` | the two 100 ms sleeps of `run_task` |
| `done` | `run_task` has returned its `TaskStats` |

`primary` and `standby` are the tasks that hold a connection of a pool; `st`
the statistics (a histogram is its number of samples); `live`, `issued` and
`stop` the atomics of `Ctx`; `expired` says that the deadline has passed;
`started` is a history variable. An error after which the code publishes in
`Ctx.live` before its sleep (primary) and one where it does so after it
(standby) are different actions, because the difference is visible.

`Pool::get` is modelled by what deadpool does: a free permit is taken and then
a connection is there or cannot be opened; without a free permit the task waits
at most `wait_timeout`. Which waiter is served first is left open.

### WalLayout and LsnText

`InsertLsn(end)` is what `pg_current_wal_insert_lsn()` reports when the last
record ends at `end`; `RecordEnd` where the next record ends. An LSN text is its
two numbers and the numbers of digits they are written with, so that `parse_lsn` and
`format_lsn` can lose something. Sizes and the width of a half are constants: the code's
24, 40, 8192, 16 MB and eight hexadecimal digits are one instance.

### ReadYourWrites

The WAL is a sequence of records with their end and the row they commit. Servers'
positions count records. `cur[t]` is the attempt of task `t`: its row, the LSN text it
waits for (what the primary printed, parsed, corrected, formatted and validated as the code
does) and the number of crashes of the primary before it. `opt` is the
command line, chosen in `Init` from `Options` and never changed, and with it the one setting
of the primary it meets: whether `synchronous_standby_names` names the standby. `SyncCommit` is
`Args::sync_commit`, the mode's default unless `--synchronous-commit` is given; `CommitPoint`
is where PostgreSQL's COMMIT waits under that setting, and `off` does not wait. A crash of the
primary may lose what it had not flushed and breaks the statements running
there; a promotion makes the standby replay what it has.

### RunLifecycle and PoolUsage

`mpc` is the await `run` is suspended in: first the startup checks in their order
(`primary_get`, `primary_role`, `create`, `truncate`, `server_info`, `lsn_get`,
`lsn_query`, `standby_get`, `standby_role`, `startup_wait`, `warm_primary`,
`warm_standby`, `spawn`), then `join`, `summary`, `csv` and `done`; `failed` is a
`?` of the startup, of the join (a task that panicked) or of the CSV file, `killed` a Ctrl-C
before the handler was installed. `held` counts
the connections `main` itself has out of a pool: Rust's scopes decide when they
come back, which is what `NoWaitOnItself` is about. `dsn` says which servers the two
connection strings really lead to; `wal`, `schema` and `replay` are the positions
the startup `WAIT FOR` compares.

The helper tasks run on other threads than `main`, so they step between locks and
atomic loads: `spc` and `rpc` are the pool the sampler, or the await or load the
reporter, is at. `usage` is `PoolStats`, `line` the counters of the line being printed
and of the one before. `printed` is a history variable: the sum of all increments
and intervals shown. `mon` says whether the reporter has a connection
of its own: without one its line has no await an abort could end. The worker tasks are reduced to what `main` sees of them
(attempts, two counters, the value they return or the panic they end in); `Workload` has the
rest. `opt.endless` is a `--wait-timeout` below a millisecond, with which a `WAIT FOR` may
last for ever.

### PooledThreads

`thr[t].pc` is the call thread `t` is about to make: `loop`, `acquire`, `getconn`,
`query`, `discard` (`putconn(close=True)` of the except clause), `putback` (`putconn` of
the finally clause), `release`, `backoff` (tenacity's sleep). `slot` and `conn`
are `got_slot` and `conn`, `fault` the exception on its way out, `attempt` tenacity's
count. `pool` is psycopg2's book of its connections, which is external;
`leaked` counts the connections it still counts as used after a failed `putconn`.
`mpc` is the main thread.

### LinkCheck

`phase` is the part of the program that runs: `isdir` and `pairs` in `main`, `list` (a round of
`os.walk`) and `stat` (the `lstat` of its files) in `scan`, `compare`, `csv`, and the
ends `exit` and `uncaught` (an exception no clause catches: a `pg_tblspc` that cannot be
listed, a CSV file that cannot be written, a symbolic link that is gone before `readlink`).
`trees` is the list `main` builds, `dirs` the directories `os.walk` has still to visit,
`found` the two dictionaries of `compare_trees`, `rows` the rows without sizes.
`start` is what the program was started on: options, the outcome of the version files,
directories that may not be read or searched, and the files. Between two steps a running cluster
may create, replace or remove a file (`Changes`); `touched` is the history of that. `os.walk`
goes top down: a directory's subdirectories are found when it is listed, and one that cannot be
listed (`DirRefused`) costs one error and everything below it. A path is its directories, its
file name and the number `relfilenode_of` leaves of the name.

### ClientLoops

`client` says which program runs: `churn` (`main.rs` and `main_noStatement.rs` of
`connPerSec`, which have the same loop), `select` (`main_withSelect.rs`), `mysql`,
`deadpool`. `task[t].pc` is the await task `t` is in: `check` (the head of the loop),
`connect`, `query`, and for the pool `get`, `create`, `query`, `print`; `done` and
`panicked` are its ends. `over` is the task's own clock, `session` the server's view of its
connection, `good` and `bad` are histories of its attempts. `count` is the pair of atomics,
`shown` what `main` printed. A dropped `Client` does not close its session: the
detached driver task does, later, and until then the session is `draining` and counts
towards `max_connections`. `permits` and `idle` are deadpool's semaphore and its queue,
with connections that live, are dead and not yet known to be, or are known closed (`Fast`
recycling looks at that only).

### VipRouting and HATester

`result[n]` is keepalived's counter of the check script at node `n`: up from `RISE`, with
room for `FALL` failures before it is down. `Priority` is `BasePriority` of the file and
`WEIGHT` when it is down; `owners` are the nodes that act as VRRP master, `apart` a
partition between them, `leader` the holder of Patroni's lock. There is no clock: a check or
a timer may be as late as it likes, but a backup's timer runs out only when no master it has
to accept is heard. `troubles` counts lost leaders, failed checks, partitions and refused
connections.

`tpc` is the call the tester is in: `start` and `connect` (`create_conn`, the first and
those of the except clause), `sleep`, `ask` (`pg_is_in_recovery`), `insert`, `commit`,
`max`; `exit` and `stillborn` are its ends. `conn` is the node its session leads to and
the transaction open in it: one that began in recovery stays read-only even when
the server is promoted. `promotions` and `refused` are histories. The host the tester is
given is taken to be the virtual IP.

## 3. Runs

| Run | Instance | Shows |
|---|---|---|
| `workload_safety` | T2 `--verify`, 3 tasks, pools of 1 and 1, `--txns 3 --duration` | five invariants, see below |
| `workload_histograms` | T2 `--verify`, 1 task | violation, see findings |
| `ryw_safety` | T1, T2 in all wait modes, verify, raw LSN, `--synchronous-commit` with and without a synchronous standby; 2 tasks, 2 rows, 4 records, 1 crash, promotion | confirmed rows are secured, verified rows visible, `CommitContract` implemented |
| `ryw_durability` | T2 with a crash of the primary | violation, see findings |
| `run_lifecycle` | 2 tasks, pools of 2 and 1, five command lines, DSNs right, wrong and swapped, a task that panics, Ctrl-C at any moment | startup checks, warm-up, samples, progress lines and report, see below |
| `run_foreign_standby` | the standby of another primary | violation, see findings |
| `run_interrupted` | 1 task, Ctrl-C at any moment | violation, see findings |
| `client_programs` | one of: both Python pools, 3 threads, 2 connections, 2 attempts; the Rust loops, 2 tasks, 1 pooled connection, 2 rounds, 3 sessions, 1 restart; the HA tester, 3 nodes, 2 troubles, 1 Ctrl-C | slots, permits and connections balance; reports are final; every program ends; the address finds the leader and stays there, and the tester finds the primary |
| `pooled_slots` | `threaded_db_pool2.py`, 2 threads, 1 connection | violation, see findings |
| `side_by_side` | one of: 2 tasks under three command lines (T2 `--verify --txns 2`; T1 with `--duration` only; T1 `--fetch-lsn --verify --txns 2 --duration`); T2 with `--wait-timeout 0s` and a promotion; the link checker on 12 kinds of paths, data directory and tablespace, 3 inodes, unreadable directories, 2 changes during the walk | `Workload` implements `TxnLedger` and ends; no wait stalls at a page boundary; exit status 0 means what it says, and a change of one file leaves the verdict on others alone |
| `link_errors` | the link checker with one change | violation, see findings |
| `ha_outage` | the HA tester, 2 nodes, 2 troubles, no Ctrl-C | violation, see findings |

Bounds and why they are enough. Pools of one connection are the tightest the
options allow and already make every `get` wait; three tasks let one hold a
primary, one a standby connection and one race for the budget; three attempts
let the budget run out with attempts in flight. Without `--txns`,
`AttemptBound` caps the attempts. In `ReadYourWrites` pages hold at most six
units of records, so that two or three records (of two or three units) reach a
page boundary, a segment boundary or neither; one crash is enough to lose a
row and overtake its LSN with other WAL; two tasks are enough to write between
a commit and its LSN query. `MaxRecords`, `MaxRows` and `MaxCrashes` are the other bounds. In `RunLifecycle` the primary pool has two connections, so that
the warm-up's loop repeats, and the standby pool one, so that a connection kept by
the startup checks blocks it; WAL positions up to 3 leave room for the table, the
truncation and other sessions; two samples of a pool make an interval that is
reset between them, and one pool status was read while a connection was being
replaced (`available` above `size`). Sampler and reporter together run with `--txns 0`,
the counters with the reporter alone: the two share only `usage`, which tasks do not
touch. `PooledThreads` has one thread more than connections, which is when `acquire`
times out, and two attempts, so that an operation both retries and gives up. `ClientLoops`
has two tasks for one permit, two rounds, so that a connection is given back and used again,
one session more on the server than tasks, so that sessions that drain can use them up,
and one restart, which kills idle connections and those in use. `HATester` has three nodes,
so that neither of two backups need be the one promoted; two troubles let a leader be
lost while the nodes are parted, or again after a failover. `MCPrograms` runs one program
per behaviour, and `MCSideBySide` one of three models: those that do not run are over or idle
from the start and share no variable with the one that does. `LinkCheck`
has one path for every rule of `expected_reason`, next to a table: no rule looks at more
than one path, and links by inode need two; the directory that is refused is the table's, the one
above it or the root of a tree; `MaxChanges` allows a rename, which takes two
changes. The runs `workload_safety` and `ryw_safety` use symmetry of the tasks (the refinement
the second checks is a property of steps and names no task); runs with liveness properties do not.

Properties of `Workload`: `AttemptsSettledOnce` (what `keep_going` let in is what
`Live` shows plus what is in flight), `LiveMatchesStats` (progress lines and
final report agree, up to the standby back-off), `ConnectionsReturned` (on every path of every
error; that D1 keeps `diagnose_timeout`'s hold-and-wait harmless follows from it and is the
theorem `PoolsNeverDeadlock`), `BudgetExact`, `RefinesLedger`, `Termination`.

Properties of `ReadYourWrites`: `TargetCoversCommit` (D2: the LSN covers the own
commit record, and corrected it is a position the standby reaches),
`ConfirmedIsSecured` (a completed transaction is where the mode or `--synchronous-commit` says,
and stays there), `NothingMissing`, `RefinesContract`, `NoStall`. T1 with `--synchronous-commit off`
is the one command line of which `ConfirmedIsSecured` and `RefinesContract` claim nothing: its
commits return before any flush, so that a crash may lose them, and that is what was asked for.

Properties of `RunLifecycle`: `NoWaitOnItself` (`main` never asks for a connection
when it holds them all), `PoolsAreWarm` and `PairIsChecked` (D10: the tasks find open
connections, the right kind of servers and a replayed table), `SamplesReportedOnce`
(D9: the run is the intervals together), `ProgressAddsUp` (no attempt is lost or
doubled between two lines), `ReportIsComplete`, `RunEnds` (with the report, or an error; the
Ctrl-C that comes before its handler is the finding of `run_interrupted`).

Properties of `PooledThreads`: `SlotsAndConnectionsAgree`, `ClosedAfterWorkers`,
`ShutdownEnds`; that the semaphore keeps `getconn` from finding the pool exhausted
(`SlotMeansConnection`) follows from the first and is a theorem.

Properties of `ClientLoops`: `ReportIsFinal` (`main` prints what all tasks did in their full
duration, and a pool task that did not panic has done all its iterations),
`PermitsBalance`, `LoopsEnd`.

Properties of `VipRouting` and `HATester`: `VipFindsLeader` (the weight outweighs the
difference between the two files), `AddressStays` (an address that is at the leader is moved by
new trouble only), `PromotionCostsOneInsert` (the transaction left open on a
replica costs one insert after a promotion and no more), `TesterWritesAgain`.

Properties of `LinkCheck`: `UserRelationsLinked` (status 0 is a clean bill for every file
`pg_upgrade --link` links), `UntouchedJudgedRight` (a file nobody touched has exactly one row, with
the right category, unless an error is reported for it or for a directory on its path). Nothing
is claimed of status 1: it may be a false alarm (see the observations) or an uncaught exception.

### Fairness

`Workload!Fairness`: the runtime polls ready tasks; `get` ends (a free connection, or
the 30 s and 10 s timeouts of `make_pool`); statements other than `WAIT FOR` are
answered or fail; sleeps end; a `WAIT FOR` with a positive TIMEOUT times out; the
clock passes the deadline. Nothing makes the standby answer success, and Ctrl-C
never has to come. `ReadYourWrites!Fairness`: existing WAL is flushed, sent,
written, flushed and replayed, and a wait that can be answered is. No client has to
write: that is why the page-boundary fix matters. `RunLifecycle!Fairness`: the
awaits of the startup and of the report end (pools and the startup `WAIT FOR` have
timeouts), the tasks go on, the clock runs; an attempt ends (`Workload!Termination` is the
reason) unless its `WAIT FOR` has no timeout, of which runs nothing is claimed;
nothing is assumed of sampler, reporter or Ctrl-C. `PooledThreads!Fairness`: calls
return and sleeps end; nobody has to press Ctrl-C, and no thread is sure to get a slot.
`LoopsFairness`: connects, pool gets and statements end, one way or the other, and clocks run;
nothing makes a connect succeed. `HAFairness`: checks run every second, a backup's timer
runs out, partitions heal, Patroni elects a leader, and the tester's calls return; the
troubles end because they are bounded, which "after the last trouble" in the properties
refers to.

### Findings

- `ryw_durability`: if the primary crashes between an asynchronous commit and its flush,
  the LSN the task waits for can be reached by other WAL; the lost row is reported
  as complete. DESIGN.md D2 calls T2 "at least as durable as T1". Without such a
  crash during the attempt the claim holds (`ConfirmedIsSecured`).
- `workload_histograms`: a step that fails returns through `?` before its duration is recorded.
  DESIGN.md D6 says that each step's histogram "includes all attempts", so that slow failures stay
  visible; those that fail with an error (a pool that answers after 30 s, say) are in the error
  counters only.
- `run_interrupted`: PARAMETERS.md says of Ctrl-C that it "stops a run early at any time. The
  summary and CSV line are still written". The handler is installed by a task that is spawned
  after startup checks and warm-up; before that, a Ctrl-C ends the process without either.
- `run_foreign_standby`: the startup check compares LSN numbers. A standby of another
  primary that has replayed more WAL answers success, and the tasks are measured
  against it; DESIGN.md D10 says the check proves that the standby streams from this
  primary.
- `pooled_slots`: in `threaded_db_pool2.py` the `putconn` of the finally clause can raise
  (its rollback, when the server has just gone), which skips the release of the slot that
  the comment calls unconditional and ends the thread. `Retry_Pool_Demo.py` releases in
  a finally of its own and does not have this.
- `link_errors`: directories that cannot be listed and files that cannot be stat'ed are
  printed and forgotten; the script's header promises exit status 2 for IO errors.
- `ha_outage`: the except clause of `HAtester.py` calls `create_conn`, which ends the script
  with `sys.exit(1)` when it cannot connect: an outage longer than one attempt to connect ends
  the tester whose header promises "connection retry on connection failure".

More observations without a run of their own. A success of `WAIT FOR` whose verify query then fails
is in no counter of statuses, while metrics.rs says that `wait_success` counts those that
"returned `success`". An `OSError` of the link checker that nobody catches ends it with status 1,
that of unexpected findings. It raises false alarms, user relations "NOT hard-linked" with status
1, for files that pg_upgrade never links: a catalog that `VACUUM FULL` has rewritten (its
relfilenode is then above `FIRST_NORMAL_OID`), a temporary relation such as `t3_16500` left by a
crash, an administrator's `server.key`. Tablespaces it cannot pair are only warned about. With
`--pool-sample-interval 0s` the sampler panics and the report shows idle pools. A standby container
that is killed between `pg_basebackup` and the line that appends its connection string starts
without the application name. The helper tasks are aborted and not awaited, so that the CSV line
may count a sample that the summary does not have. `Ctx.issued` ends above the number of
transactions started, by one per task that leaves for `--txns` (`BudgetExact` states by how much).

## 4. Proofs

`WorkloadProofs` proves, for every set of tasks, pool size and option:

| Theorem | States |
|---|---|
| `TypeCorrect` | `Spec => []TypeOK` |
| `ConnectionsCorrect` | `[]ConnectionsReturned` |
| `AttemptsCorrect` | `[]AttemptsSettledOnce` |
| `BudgetCorrect` | `[]BudgetExact` |
| `LiveMatchesStatsCorrect` | `[]LiveMatchesStats` |
| `PoolsNeverDeadlock` | `[]NoPoolDeadlock`: while a task is left, one of them waits for no exhausted pool |
| `AttemptsAlwaysRunDown` | `Spec => AttemptsRunDown`: every step of a task brings its attempt nearer to its end, and only before Ctrl-C and the deadline another begins |
| `WorkloadRefinesLedger` | `Spec => RefinesLedger` |

Assumptions: `Tasks` is finite and not empty, pools have at least one connection,
timeouts are numbers, `MaxTxns` is a number or `NoTxns`. All are checked by TLC in
every run.

The argument. Type correctness first, one lemma per helper of the statistics and per
shared ending of a step. `ConnectionsReturned` is inductive with it; a pool's bound
needs that taking a free permit adds one task to a finite set. `AttemptsSettledOnce` rests on a lemma that sorts
every action by what it does to the attempt (begins one, settles one, neither) and on
one about how a single task's move changes the number of tasks in flight. `BudgetExact`
is not inductive: `BudgetInv` adds how `issued`, `started` and the tasks that have
left are related, and when a task may have left. The refinement uses both: a settling
step maps to `Complete` or `Fail`, which the ledger allows because the attempt is in
flight. `LiveMatchesStats` is a sum over the tasks: `SumChanges`
of `Counting` says how a sum changes when the statistics of one task do, and each action adds
the same to both sides, the standby back-off being a term of its own. The sums themselves
(`SumIsNat`, `SumIsZero`, `SumChanges`, about `SumFunction` of the community modules) are proved
by induction over sets of numbers, which needs no operator as parameter. `PoolsNeverDeadlock` and
`AttemptsAlwaysRunDown` are what `Termination` rests on besides fairness: the first follows from
`ConnectionsReturned` (who waits for the standby holds nothing, who waits for a primary connection
may hold a standby one, but no holder of a primary one waits for another) and holds even
if `get` waited for ever, the second is a measure on `pc` (`Ahead`) that every action lowers.

`ReadYourWritesProofs` proves, for every size of pages, segments, headers and records, every
set of tasks and of command lines (every `--mode`, `--wait-mode` and `--synchronous-commit`), and
any number of rows, records and crashes:

| Theorem | States |
|---|---|
| `ConfirmedAlwaysSecured` | `Spec => []ConfirmedIsSecured` |
| `NeverMissing` | `[]NothingMissing` |
| `TargetAlwaysCoversCommit` | `[]TargetCoversCommit` |
| `ImplementsContract` | `Spec => RefinesContract` |
| `ReadYourWritesTypes` | `[]TypeOK` |
| `NormalizeUndoesInsert` | if a record ends at `end`, then `NormalizeInsertLsn(InsertLsn(end)) = end` |
| `RecordEndIsRecordEnd` | a record that is appended ends further on, and where records can end |
| `PositionsRoundTrip` | the text of a position that fits two halves is valid and reads back as the position |

Assumptions: those of `WalLayout`, `LsnText` and `ReadYourWrites` on sizes, lengths and
options (among them that `HexBase ^ HalfDigits` is a positive number, which holds for all values
but would need an induction); TLC checks them in every run of `ReadYourWrites`.

The argument. `IInv` is `WalInv /\ ShapeInv /\ TaskInv` and the two properties. `WalInv`:
records end where records can end, in order, and no server is ahead of the one it copies.
`TaskInv` says what a task has of its attempt at each statement: after the LSN query, a
target that covers its row (`Targets`), and after a successful wait, a row that is secured,
each unless the primary crashed since. The WAL enters the task lemmas only through four
facts: a step that appends or copies keeps every row, every target and every secured
row (`GrowthKeepsTargets`, `AdvanceKeepsRows`, `SecuredCountAdvances`), and a target that is
reached means a secured row (`ReachedIsSecured`). What the code computes of the printed LSN is in
`TextReadsBack` and `FetchedPosition`, which cite `NormalizeUndoesInsert` and
`RecordEndIsRecordEnd`. A crash is the one step that shortens the WAL: it touches only what
is not flushed, and every clause about an earlier epoch falls silent. The refinement maps
each step to one of `CommitContract` or to a stutter by what it does to three sets of rows
(`contractView`); `RowInv`, that rows of the WAL were drawn from the sequence, makes a
commit one of a new row. The types are proved last (`OutcomesInv` has what `IInv` leaves open):
the number of digits of a half is defined for WAL of any length, as the smallest that suffices
or one more than a half holds (`SmallestExists`, `DigitsType`); for numbers that fit a half it is at
most what a half holds (`DigitsFit`), which `PositionsRoundTrip` rests on.

`NormalizeUndoesInsert` and `RecordEndIsRecordEnd`: a position has a page number and an offset in
the page, and a page a segment and a number in it (`Coordinates`, from the uniqueness of quotient
and remainder, `RemainderUnique`); `Remainders` computes the two remainders the code takes from
them. Then there are two cases: `end` is a page boundary, and the insert position is a header past
it, of the size of that page; or it is not, and no record ends exactly a header past a boundary.

`RunLifecycleProofs` proves, for every number of tasks, pool sizes, options, servers and
pool statuses:

| Theorem | States |
|---|---|
| `LifecycleTypeCorrect` | `Spec => []TypeOK` |
| `NoWaitOnItselfCorrect` | `[]NoWaitOnItself` |
| `PoolsAreWarmCorrect` | `[]PoolsAreWarm` |
| `PairIsCheckedCorrect` | `[]PairIsChecked` |
| `SamplesCorrect` | `[]SamplesReportedOnce` |
| `ProgressCorrect` | `[]ProgressAddsUp` |
| `ReportCorrect` | `[]ReportIsComplete` |

Assumptions: pools have at least one connection, and the constants have the types the
command line gives them; TLC checks them in every run of `RunLifecycle`.

The argument. Of these properties only the samples' is inductive. `HeldInv` says
exactly what `main` holds at each await, `WarmInv` that an open connection stays open
and that the loop of `warm_up` never has more than are open, `PairInv` that each check
still holds at every later await and that `schema` is settled before `target` is read,
`ProgressInv` where in its line the reporter is. Together with `TypeOK` they are `IInv`.
The steps are sorted first (`NextSplit`): those of the startup, the spawn, and those of the
run, which leave the startup's variables alone (`StartupFrame`, `RunFrame`), so that each
part of `IInv` is proved only where it can change. `SamplesReportedOnce` rests on two
algebraic lemmas about accumulators: adding a sample to an interval adds it to the
combination (`CombineAdd`), and a fresh interval adds nothing (`CombineNone`). For the report,
`JoinInv` adds that the shared counters are the sum over all tasks, the merged ones the sum over
the joined tasks, and that a joined task is done, so that what was merged stays what it counted;
it uses the sums of `Counting`.

`PooledThreadsProofs`, `ClientLoopsProofs` and `HATesterProofs` prove, for every number of
threads, tasks and nodes, every pool size and any number of failures:

| Theorem | States |
|---|---|
| `PoolTypesCorrect` | `Spec => []TypeOK` of `PooledThreads` |
| `SlotsAndConnectionsAlwaysAgree` | `[]SlotsAndConnectionsAgree` |
| `SlotAlwaysMeansConnection` | `[]SlotMeansConnection` |
| `AlwaysClosedAfterWorkers` | `[]ClosedAfterWorkers` |
| `WorkersAlwaysRunDown` | `Spec => WorkersRunDown`: after the shutdown event every step of a worker leaves it fewer, retries and back-offs included |
| `LoopsTypesCorrect` | `LoopsSpec => []LoopsTypeOK` |
| `PermitsAlwaysBalance` | `[]PermitsBalance` |
| `ReportAlwaysFinal` | `[]ReportIsFinal` |
| `PermitsAlwaysComeBack` | `[]PermitsComeBack`: while no permit is free, a task that has one waits for the server only |
| `LoopsAlwaysRunDown` | `LoopsSpec => LoopsRunDown`: a task that is in the pool or whose clock has run out has fewer calls ahead after each one |
| `HATypesCorrect` | `HASpec => []HATypeOK` |
| `PromotionAlwaysCostsOneInsert` | `[]PromotionCostsOneInsert` |
| `AddressStaysAtLeader` | `HASpec => AddressStays` |

Assumptions: finite sets of threads and tasks, at least one connection and one attempt,
bounds that are numbers, nodes that are numbers with the MASTER's among them.

The arguments. The balances of the pools are sums over threads: `CountStep` of `Counting` says
how the number of threads with a property changes when one thread moves. In
`PooledThreadsProofs`, `ThreadInv` adds at which calls a thread has its slot and its connection,
and `MainInv` which steps `main` has taken; `ThreadMoves` then reduces every step of a
thread to the one record it writes. `SlotMeansConnection` follows without induction: a thread in
`getconn` has a slot and no connection, so that one fewer connection than slots is in
use. `ClientLoopsProofs` goes the same way with permits. In `HATesterProofs` the bound on
refused inserts is not inductive: `PaidFor` also counts the insert that is going to be refused,
from the moment the replica is promoted under the tester's open transaction (`Doomed`).
`AddressStaysAtLeader` compares priorities: a node whose checks pass outranks every
node whose checks fail (`RisingOutranksFalling`), because the weight is larger than the difference
between the two files, so that no backup's timer may run out against the leader.
`ReportAlwaysFinal` needs `FinalInv`: a pooled task at a call has an iteration left, a task that is
done has used up its clock or its iterations, the counters are the sums over the tasks, and what is
shown was read when all had ended. The measures of `WorkersAlwaysRunDown` and `LoopsAlwaysRunDown`
(`StepsLeft`, `RoundsLeft`) count the calls a thread or task has at most ahead of it; the first
needs that only an operation with an attempt left backs off (`BackoffInv`).

`LinkCheckProofs` proves, for every set of paths and inodes, every situation the program may be
started in and any number of changes while it runs:

| Theorem | States |
|---|---|
| `LinkTypesCorrect` | `CheckSpec => []CheckTypeOK` |
| `CleanBillIsClean` | `[]UserRelationsLinked` |
| `UntouchedAlwaysRight` | `[]UntouchedJudgedRight` |

Assumptions: a path is a sequence of directories, a name and a number or none, and a name that
leaves a number is none of the names the program knows (`PathAssumption`: `relfilenode_of` takes
names of digits, `PG_VERSION` and the like are not); entries are distinct (`EntryAssumption`);
situations are well typed. TLC checks them in every run of `LinkCheck`.

The argument. `OrderInv` says which trees are still to be compared and that a directory's files
are stat'ed before the next one is listed. `ScanInv` is about the files nobody has touched
(`Steady`): what was found of one is what the disk holds, and one that is there and can be read
has been found or its directory, or one above it, is still to come.
`RowInv` says that each row's category fits
what is on the disk if its file is steady (`Right`), and that each old file of a compared
tree that was steady and readable has exactly one row (`Judged`). `ExitInv` ties the exit status to
the unexpected rows. The two verdicts follow from `LinkInv`, the conjunction of these with
`CheckTypeOK`, without a further induction.

Only model-checked: liveness under fairness, which the prover cannot reach: `Termination`,
`NoStall`, `RunEnds`, `ShutdownEnds`, `LoopsEnd`, `VipFindsLeader` and `TesterWritesAgain`; of
some of them the safety half is a theorem (no deadlock on the pools, and measures that run
down). Every invariant and action property of a passing run is a theorem; the refinement of
`side_by_side`, which puts three command lines into one specification, is
`WorkloadRefinesLedger` for each of them. What the violations show stays with TLC as well.

## 5. Order of work

The project was built from the inside of `waitforlsn` outwards: its tasks, what they
obtain from the servers, its run, then the client programs and the link checker, each
with its runs before its proofs. What could follow:

1. the safety half of the remaining liveness properties: `RunLifecycle` (what ends each await of
   `main`), `NoStall` (a target that is ahead of the standby is one that existing WAL reaches) and
   the tester's reconnects;
2. `standby-entrypoint.sh` with the order in which `pg_basebackup` writes its files, once
   that order is documented well enough to model;
3. a clock in `VipRouting`, to bound how long the address may be at the wrong node.

## 6. Not modelled

Durations and histograms' values, messages and the ten-message print budget, the
layout of the summary and the CSV line, clap's parsing, and two error paths no
server answer reaches (an unparsable `pg_lsn`, a `WAIT FOR` without a row).
PostgreSQL, psycopg2's and deadpool's pools, tenacity, keepalived, VRRP and Patroni are
environments modelled from what the code relies on. What remains of the repository has
no state of its own that a model could add to: configuration of third-party programs, one-shot
administration and benchmark scripts, SQL snippets, and the Java application, whose threads are
endless loops around framework calls and share nothing. The container entrypoint of the standby
decides by the presence of `PG_VERSION` whether its clone is complete; whether a clone that was
killed can have that file depends on `pg_basebackup` alone, so that a model would state
the answer instead of finding it. `PROJECT.json` lists every part with the reason.
