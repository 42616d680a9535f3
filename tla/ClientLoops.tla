----------------------------- MODULE ClientLoops -----------------------------
(***************************************************************************)
(* The small Rust clients of src/patroni/connection, one chosen in Init:   *)
(*   "churn"    connPerSec main.rs and main_noStatement.rs                 *)
(*   "select"   connPerSec main_withSelect.rs                              *)
(*   "mysql"    mysqlConnPerSec main.rs                                    *)
(*   "deadpool" deadpool main.rs                                           *)
(* main spawns tasks that loop (the first three until their own clock has  *)
(* run out, the last a number of times), awaits them all and ends.  One    *)
(* action per await; what follows an await up to the next one is atomic    *)
(* but for other tasks' atomics, which commute.                            *)
(*                                                                         *)
(* External: the server, which may refuse a connection or restart; the     *)
(* driver that closes a session some time after its client was dropped;    *)
(* deadpool's pool (permits; Fast recycling discards what is known closed).*)
(***************************************************************************)
EXTENDS Naturals, FiniteSets, Functions

CONSTANTS
  LoopTasks,     \* the tasks main spawns
  PoolSize,      \* max_size of the deadpool demo
  Iterations,    \* its 0..1000
  MaxTries,      \* bound of the model: connects of a task before its clock runs out
  MaxSessions,   \* max_connections of the server
  MaxRestarts    \* bound of the model: restarts of the server

ASSUME LoopTasksAssumption == IsFiniteSet(LoopTasks)
ASSUME SizesAssumption ==
  /\ PoolSize \in Nat \ {0} /\ Iterations \in Nat /\ MaxTries \in Nat
  /\ MaxSessions \in Nat /\ MaxRestarts \in Nat

VARIABLES
  client,     \* the program that runs; never changes
  main,       \* "join", "over"
  task,       \* task[t]: pc, over (its clock has run out), session, permit, and
              \* as history its good and bad attempts
  count,      \* success_count (total_conns) and error_count
  shown,      \* what main loaded and printed
  draining,   \* sessions whose client is gone and whose driver is not
  permits,    \* free permits of the pool
  idle,       \* idle connections of the pool: live, dead, or known closed
  restarts
loopVars == <<client, main, task, count, shown, draining, permits, idle, restarts>>
mainState == <<client, main, shown>>
poolState == <<permits, idle>>

Pooled  == client = "deadpool"
Ended   == {"done", "panicked"}
Holding == {t \in LoopTasks : task[t].permit}
Live    == {t \in LoopTasks : task[t].session = "live"}

\* sessions the server has open
Sessions == Cardinality(Live) + draining + idle.live

NewTask == [pc |-> "check", over |-> FALSE, session |-> "none", permit |-> FALSE,
            good |-> 0, bad |-> 0]

LoopsInit ==
  /\ client \in {"churn", "select", "mysql", "deadpool"}
  /\ main = "join"
  /\ task = [t \in LoopTasks |-> NewTask]
  /\ count = [ok |-> 0, err |-> 0]
  /\ shown = [ok |-> 0, err |-> 0]
  /\ draining = 0
  /\ permits = PoolSize
  /\ idle = [live |-> 0, dead |-> 0, closed |-> 0]
  /\ restarts = 0

In(t, label) == task[t].pc = label /\ main = "join"
Tries(t)     == task[t].good + task[t].bad
Set(t, r)    == task' = [task EXCEPT ![t] = r]

-----------------------------------------------------------------------------
(* connPerSec and mysqlConnPerSec: a connection per round                  *)

\* task_start.elapsed() < test_duration no longer holds
TimeUp(t) == task[t].over

ClockChecked(t) ==
  /\ In(t, "check") /\ ~Pooled
  /\ \/ TimeUp(t) /\ Set(t, [task[t] EXCEPT !.pc = "done"])
     \/ ~TimeUp(t) /\ Tries(t) < MaxTries /\ Set(t, [task[t] EXCEPT !.pc = "connect"])
  /\ UNCHANGED <<mainState, count, draining, poolState, restarts>>

\* "churn" and "mysql" count the connection and drop it at once; "select" runs a
\* statement first.  The dropped client's driver ends the session later.
ConnectionReady(t) ==
  /\ In(t, "connect") /\ Sessions < MaxSessions
  /\ \/ /\ client # "select"
        /\ count' = [count EXCEPT !.ok = @ + 1]
        /\ Set(t, [task[t] EXCEPT !.pc = "check", !.good = @ + 1])
        /\ draining' = draining + 1
     \/ /\ client = "select"
        /\ Set(t, [task[t] EXCEPT !.pc = "query", !.session = "live"])
        /\ UNCHANGED <<count, draining>>
  /\ UNCHANGED <<mainState, poolState, restarts>>

\* refused, or no server: "select" does not count it
ConnectRefused(t) ==
  /\ In(t, "connect")
  /\ count' = IF client = "select" THEN count ELSE [count EXCEPT !.err = @ + 1]
  /\ Set(t, [task[t] EXCEPT !.pc = "check", !.bad = @ + 1])
  /\ UNCHANGED <<mainState, draining, poolState, restarts>>

\* SELECT 1; the client is dropped at the end of the round
SelectEnds(t) ==
  /\ In(t, "query") /\ ~Pooled
  /\ \/ /\ task[t].session = "live"
        /\ count' = [count EXCEPT !.ok = @ + 1]
        /\ Set(t, [task[t] EXCEPT !.pc = "check", !.session = "none", !.good = @ + 1])
     \/ /\ Set(t, [task[t] EXCEPT !.pc = "check", !.session = "none", !.bad = @ + 1])
        /\ UNCHANGED count
  /\ draining' = draining + IF task[t].session = "live" THEN 1 ELSE 0
  /\ UNCHANGED <<mainState, poolState, restarts>>

TimePasses(t) ==
  /\ ~Pooled /\ ~task[t].over /\ main = "join"
  /\ Set(t, [task[t] EXCEPT !.over = TRUE])
  /\ UNCHANGED <<mainState, count, draining, poolState, restarts>>

-----------------------------------------------------------------------------
(* deadpool: a pooled connection per iteration                             *)

\* for iter in 0..1000
NextIteration(t) ==
  /\ In(t, "check") /\ Pooled
  /\ Set(t, [task[t] EXCEPT !.pc = IF Tries(t) < Iterations THEN "get" ELSE "done"])
  /\ UNCHANGED <<mainState, count, draining, poolState, restarts>>

\* pool.get(): a permit, then an idle connection not known to be closed, or a new one
Recycled(t) ==
  /\ In(t, "get") /\ permits > 0
  /\ permits' = permits - 1
  /\ \E s \in {"live", "dead"}, junk \in 0 .. idle.closed :
       /\ idle[s] > 0
       /\ idle' = [idle EXCEPT ![s] = @ - 1, !.closed = @ - junk]
       /\ Set(t, [task[t] EXCEPT !.pc = "query", !.session = s, !.permit = TRUE])
  /\ UNCHANGED <<mainState, count, draining, restarts>>

NothingIdle(t) ==
  /\ In(t, "get") /\ permits > 0 /\ idle.live + idle.dead = 0
  /\ permits' = permits - 1
  /\ idle' = [idle EXCEPT !.closed = 0]
  /\ Set(t, [task[t] EXCEPT !.pc = "create", !.permit = TRUE])
  /\ UNCHANGED <<mainState, count, draining, restarts>>

Created(t) ==
  /\ In(t, "create") /\ Sessions < MaxSessions
  /\ Set(t, [task[t] EXCEPT !.pc = "query", !.session = "live"])
  /\ UNCHANGED <<mainState, count, draining, poolState, restarts>>

\* Mutated form of CreateFails: the iteration is repeated.
CreateFailsRepeated(t) ==
  /\ In(t, "create")
  /\ permits' = permits + 1
  /\ Set(t, [task[t] EXCEPT !.pc = "get", !.permit = FALSE])
  /\ UNCHANGED <<mainState, count, draining, idle, restarts>>

\* a pool error: `continue`
CreateFails(t) ==
  /\ In(t, "create")
  /\ permits' = permits + 1
  /\ Set(t, [task[t] EXCEPT !.pc = "check", !.permit = FALSE, !.bad = @ + 1])
  /\ UNCHANGED <<mainState, count, draining, idle, restarts>>

\* Mutated form of GivenBack: dropped twice.
GivenBackTwice(t) ==
  /\ permits' = permits + 2
  /\ idle' = [idle EXCEPT ![task[t].session] = @ + 1]

\* the client goes out of scope: back to the pool, whatever its state
GivenBack(t) ==
  /\ permits' = permits + 1
  /\ idle' = [idle EXCEPT ![task[t].session] = @ + 1]

RowsReturned(t) ==
  /\ In(t, "query") /\ Pooled /\ task[t].session = "live"
  /\ GivenBack(t)
  /\ Set(t, [task[t] EXCEPT !.pc = "print", !.session = "none", !.permit = FALSE])
  /\ UNCHANGED <<mainState, count, draining, restarts>>

\* Mutated form of QueryFails: the client of a failed iteration is still in scope.
QueryFailsHolding(t) ==
  /\ In(t, "query") /\ Pooled
  /\ Set(t, [task[t] EXCEPT !.pc = "check", !.bad = @ + 1])
  /\ UNCHANGED <<mainState, count, draining, poolState, restarts>>

\* a query error: `continue`
QueryFails(t) ==
  /\ In(t, "query") /\ Pooled
  /\ GivenBack(t)
  /\ Set(t, [task[t] EXCEPT !.pc = "check", !.session = "none", !.permit = FALSE,
                            !.bad = @ + 1])
  /\ UNCHANGED <<mainState, count, draining, restarts>>

\* r.get panics on another column type: the task is gone, nobody looks at its result
RowsPrinted(t) ==
  /\ In(t, "print")
  /\ \/ Set(t, [task[t] EXCEPT !.pc = "check", !.good = @ + 1])
     \/ Set(t, [task[t] EXCEPT !.pc = "panicked", !.good = @ + 1])
  /\ UNCHANGED <<mainState, count, draining, poolState, restarts>>

-----------------------------------------------------------------------------
(* main, the drivers and the server                                        *)

\* Mutated form of AllEnded: only one handle is awaited.
OneEnded == \E t \in LoopTasks : task[t].pc \in Ended

\* every handle was awaited; a JoinError is ignored
AllEnded == \A t \in LoopTasks : task[t].pc \in Ended

Reported ==
  /\ main = "join" /\ AllEnded
  /\ shown' = count
  /\ main' = "over"
  /\ UNCHANGED <<client, task, count, draining, poolState, restarts>>

\* a detached driver has sent its Terminate
Drained ==
  /\ draining > 0 /\ main = "join"
  /\ draining' = draining - 1
  /\ UNCHANGED <<mainState, task, count, poolState, restarts>>

\* the driver of an idle connection notices that its server is gone
ClosedNoticed ==
  /\ idle.dead > 0 /\ main = "join"
  /\ idle' = [idle EXCEPT !.dead = @ - 1, !.closed = @ + 1]
  /\ UNCHANGED <<mainState, task, count, draining, permits, restarts>>

Restarted ==
  /\ main = "join" /\ restarts < MaxRestarts
  /\ restarts' = restarts + 1
  /\ draining' = 0
  /\ idle' = [idle EXCEPT !.dead = @ + idle.live, !.live = 0]
  /\ task' = [t \in LoopTasks |->
       IF task[t].session = "live" THEN [task[t] EXCEPT !.session = "dead"] ELSE task[t]]
  /\ UNCHANGED <<mainState, count, permits>>

LoopsOver == main = "over" /\ UNCHANGED loopVars

-----------------------------------------------------------------------------
TaskMoves(t) ==
  \/ ClockChecked(t) \/ ConnectionReady(t) \/ ConnectRefused(t) \/ SelectEnds(t)
  \/ NextIteration(t) \/ Recycled(t) \/ NothingIdle(t) \/ Created(t) \/ CreateFails(t)
  \/ RowsReturned(t) \/ QueryFails(t) \/ RowsPrinted(t)

LoopsNext ==
  \/ \E t \in LoopTasks : TaskMoves(t) \/ TimePasses(t)
  \/ Reported \/ Drained \/ ClosedNoticed \/ Restarted \/ LoopsOver

LoopsSpec == LoopsInit /\ [][LoopsNext]_loopVars

\* Connects and statements end (the pool's permits come in turn), clocks run.
LoopsFairness ==
  /\ \A t \in LoopTasks : WF_loopVars(TaskMoves(t)) /\ WF_loopVars(TimePasses(t))
  /\ WF_loopVars(Reported)

-----------------------------------------------------------------------------
\* Every variable has its shape, and the pool never has more permits than places.
LoopsTypeOK ==
  /\ client \in {"churn", "select", "mysql", "deadpool"}
  /\ main \in {"join", "over"}
  /\ task \in [LoopTasks ->
       [pc : Ended \cup {"check", "connect", "query", "get", "create", "print"},
        over : BOOLEAN, session : {"none", "live", "dead"}, permit : BOOLEAN,
        good : Nat, bad : Nat]]
  /\ count \in [ok : Nat, err : Nat] /\ shown \in [ok : Nat, err : Nat]
  /\ draining \in Nat /\ restarts \in Nat
  /\ permits \in 0 .. PoolSize
  /\ idle \in [live : Nat, dead : Nat, closed : Nat]

\* main ends when every task has run for the full duration, and what it prints is
\* what they did together ("select" shows its failures nowhere).  A deadpool task
\* that did not panic has done all its iterations, whatever failed in between.
ReportIsFinal ==
  main = "over" =>
    IF Pooled THEN \A t \in LoopTasks : task[t].pc # "panicked" => Tries(t) = Iterations
    ELSE /\ \A t \in LoopTasks : task[t].over
         /\ shown.ok = SumFunction([t \in LoopTasks |-> task[t].good])
         /\ shown.err = IF client = "select" THEN 0
                        ELSE SumFunction([t \in LoopTasks |-> task[t].bad])

\* A permit is free or held by a task, a connection is idle or held, and together
\* they never exceed the pool: also after pool errors, query errors and panics.
PermitsBalance ==
  /\ permits + Cardinality(Holding) = PoolSize
  /\ idle.live + idle.dead + idle.closed + Cardinality(Holding) <= PoolSize
  /\ \A t \in LoopTasks : task[t].permit <=> Pooled /\ task[t].pc \in {"create", "query"}

\* Every program ends by itself: no task is left without a permit, and the clock of
\* the others is read between connections that may all be refused.
LoopsEnd == <>(main = "over")
=============================================================================
