---------------------------- MODULE PooledThreads ----------------------------
(***************************************************************************)
(* The two Python demonstrations of many threads over few connections:     *)
(* "retry" (src/patroni/connection/Retry_Pool_Demo.py) and "plain"         *)
(* (src/patroni/connection/threaded_db_pool2.py).  Both guard a psycopg2   *)
(* ThreadedConnectionPool with a semaphore of the pool's size; the first   *)
(* retries with tenacity and shuts down through an Event, the second loops *)
(* in daemon threads.  One action per call that can block or fail.         *)
(*                                                                         *)
(* External: the psycopg2 pool.  It counts a connection as used from       *)
(* getconn until putconn has finished; putconn rolls an open transaction   *)
(* back first, and when the server has just gone that rollback raises.     *)
(***************************************************************************)
EXTENDS Naturals, FiniteSets

CONSTANTS
  Threads,     \* num_threads
  MaxConn,     \* max_connections: pool size (minconn = maxconn) and semaphore
  MaxAttempts, \* stop_after_attempt
  Programs     \* which of the two programs are run

ASSUME ThreadsAssumption == IsFiniteSet(Threads)
ASSUME PoolAssumption == MaxConn \in Nat \ {0} /\ MaxAttempts \in Nat \ {0}
ASSUME ProgramsAssumption == Programs \subseteq {"retry", "plain"}

VARIABLES
  program,     \* the program that runs; never changes
  mpc,         \* where the main thread is
  interrupts,  \* Ctrl-C seen by main, at most 2
  closed,      \* connection_pool.closeall() was called
  sem,         \* value of pool_semaphore
  pool,        \* connections: idle, used (handed out), leaked (of those, lost)
  thr          \* per thread: pc (the call it is about to make), slot, conn,
               \* fault (the exception on its way out) and attempt
vars == <<program, mpc, interrupts, closed, sem, pool, thr>>
mainVars == <<program, mpc, interrupts, closed>>

Retrying    == program = "retry"
ShutdownSet == Retrying /\ interrupts > 0
Gone        == {"unborn", "exited", "died"}
AllGone     == \A t \in Threads : thr[t].pc \in Gone
Holders     == {t \in Threads : thr[t].slot}
Clients     == {t \in Threads : thr[t].conn}

NewThread == [pc |-> "unborn", slot |-> FALSE, conn |-> FALSE, fault |-> "none", attempt |-> 1]

Init ==
  /\ program \in Programs
  /\ mpc = "init"
  /\ interrupts = 0
  /\ closed = FALSE
  /\ sem = MaxConn
  /\ pool = [idle |-> 0, used |-> 0, leaked |-> 0]
  /\ thr = [t \in Threads |-> NewThread]

\* daemon threads end with main, the others do not
At(t, label)    == thr[t].pc = label /\ (mpc # "end" \/ Retrying)
Becomes(t, new) == thr' = [thr EXCEPT ![t] = new]
Goes(t, label)  == Becomes(t, [thr[t] EXCEPT !.pc = label])

-----------------------------------------------------------------------------
(* worker_thread_task                                                      *)

\* the loop's test; after the first time, when shutdown_event.wait(1) or
\* time.sleep(1) is over
LoopTop(t) ==
  /\ At(t, "loop")
  /\ Goes(t, IF ShutdownSet THEN "exited" ELSE "acquire")
  /\ UNCHANGED <<mainVars, sem, pool>>

\* pool_semaphore.acquire(timeout=2)
SlotAcquired(t) ==
  /\ At(t, "acquire")
  /\ sem > 0
  /\ sem' = sem - 1
  /\ Becomes(t, [thr[t] EXCEPT !.pc = "getconn", !.slot = TRUE])
  /\ UNCHANGED <<mainVars, pool>>

\* "retry" raises TimeoutError, "plain" prints and goes on
SlotTimesOut(t) ==
  /\ At(t, "acquire")
  /\ sem = 0
  /\ Becomes(t, IF Retrying THEN [thr[t] EXCEPT !.pc = "release", !.fault = "retryable"]
                            ELSE [thr[t] EXCEPT !.pc = "loop"])
  /\ UNCHANGED <<mainVars, sem, pool>>

\* getconn: an idle connection, or a new one if the pool may have more
ConnTaken(t) ==
  /\ At(t, "getconn")
  /\ ~closed /\ (pool.idle > 0 \/ pool.used < MaxConn)
  /\ pool' = [pool EXCEPT !.idle = IF @ > 0 THEN @ - 1 ELSE 0, !.used = @ + 1]
  /\ Becomes(t, [thr[t] EXCEPT !.pc = "query", !.conn = TRUE])
  /\ UNCHANGED <<mainVars, sem>>

\* PoolError (closed, exhausted) or OperationalError (no server); conn stays None
ConnRefused(t) ==
  /\ At(t, "getconn")
  /\ closed \/ pool.idle = 0
  /\ Becomes(t, [thr[t] EXCEPT !.pc = "release", !.fault = "retryable"])
  /\ UNCHANGED <<mainVars, sem, pool>>

\* Answered; failed with an error the except clause names (in "plain" that is
\* any psycopg2.Error); or with another one: no such table, closed underneath.
QueryEnds(t) ==
  /\ At(t, "query")
  /\ \/ Goes(t, "putback")
     \/ Becomes(t, [thr[t] EXCEPT !.pc = "discard", !.fault = "retryable"])
     \/ Retrying /\ Becomes(t, [thr[t] EXCEPT !.pc = "putback", !.fault = "other"])
  /\ UNCHANGED <<mainVars, sem, pool>>

\* an exception of putconn leaves except or finally: only "retry" has a second
\* finally around it that releases the slot
PutconnRaises(t, f) ==
  Becomes(t, IF Retrying
               THEN [thr[t] EXCEPT !.pc = "release", !.conn = FALSE, !.fault = f]
               ELSE [thr[t] EXCEPT !.pc = "died", !.conn = FALSE])

\* putconn(conn, close=True) of the except clause; on a closed pool it raises,
\* and so does the putconn of the finally clause
Discarded(t) ==
  /\ At(t, "discard")
  /\ IF closed
       THEN PutconnRaises(t, "retryable") /\ UNCHANGED pool
       ELSE /\ pool' = [pool EXCEPT !.used = @ - 1]
            /\ Becomes(t, [thr[t] EXCEPT !.pc = "release", !.conn = FALSE])
  /\ UNCHANGED <<mainVars, sem>>

\* Mutated form of Kept: a broken connection is dropped, the pool not told.
KeptOrForgotten == {pool, [pool EXCEPT !.idle = @ + 1, !.used = @ - 1]}

\* what putconn makes of the connection: kept, or known to be broken and dropped
Kept == {[pool EXCEPT !.idle = i, !.used = @ - 1] : i \in {pool.idle, pool.idle + 1}}

\* putconn(conn) of the finally clause
PutBackSucceeds(t) ==
  /\ At(t, "putback") /\ ~closed
  /\ pool' \in Kept
  /\ Becomes(t, [thr[t] EXCEPT !.pc = "release", !.conn = FALSE])
  /\ UNCHANGED <<mainVars, sem>>

\* the pool is closed, or its rollback raises and the connection stays counted
PutBackFails(t) ==
  /\ At(t, "putback")
  /\ \E f \in {"retryable", "other"} : PutconnRaises(t, f)
  /\ pool' = IF closed THEN pool ELSE [pool EXCEPT !.leaked = @ + 1]
  /\ UNCHANGED <<mainVars, sem>>

\* Mutated form of Freed: release() also without got_slot.
FreedAlways(t) == 1

\* the outer finally of "retry": only a slot that was acquired
Freed(t) == IF thr[t].slot THEN 1 ELSE 0

\* Mutated form of Retries: tenacity without a stop.
RetriesForever(t) == Retrying /\ thr[t].fault = "retryable"

\* retry_if_exception_type and stop_after_attempt
Retries(t) == Retrying /\ thr[t].fault = "retryable" /\ thr[t].attempt < MaxAttempts

\* the slot is given back; the operation is retried, or over (the next one
\* starts with its first attempt)
Released(t) ==
  /\ At(t, "release")
  /\ sem' = sem + Freed(t)
  /\ Becomes(t, [thr[t] EXCEPT !.pc = IF Retries(t) THEN "backoff" ELSE "loop",
                               !.attempt = IF Retries(t) THEN @ ELSE 1,
                               !.slot = FALSE, !.fault = "none"])
  /\ UNCHANGED <<mainVars, pool>>

\* tenacity's sleep does not look at the event
BackoffEnds(t) ==
  /\ At(t, "backoff")
  /\ Becomes(t, [thr[t] EXCEPT !.pc = "acquire",
                               !.attempt = IF @ < MaxAttempts THEN @ + 1 ELSE @])
  /\ UNCHANGED <<mainVars, sem, pool>>

-----------------------------------------------------------------------------
(* __main__                                                                *)

\* minconn connections are opened, or an OperationalError ends the program
PoolCreated ==
  /\ mpc = "init"
  /\ \/ mpc' = "start" /\ pool' = [pool EXCEPT !.idle = MaxConn]
     \/ mpc' = "end" /\ UNCHANGED pool
  /\ UNCHANGED <<program, interrupts, closed, sem, thr>>

ThreadStarted(t) ==
  /\ mpc = "start"
  /\ At(t, "unborn") /\ Goes(t, "loop")
  /\ UNCHANGED <<mainVars, sem, pool>>

\* Mutated form of AfterInterrupt: the workers are signalled, not joined.
AfterInterruptNoJoin == "close"

\* "retry" sets the event and joins; a Ctrl-C while it joins, or one in "plain",
\* goes straight to the finally clause
AfterInterrupt == IF Retrying /\ mpc = "start" THEN "join" ELSE "close"

\* KeyboardInterrupt while main starts threads, sleeps or joins
CtrlC ==
  /\ mpc \in {"start", "join"}
  /\ interrupts' = interrupts + 1
  /\ mpc' = AfterInterrupt
  /\ UNCHANGED <<program, closed, sem, pool, thr>>

Joined ==
  /\ mpc = "join" /\ AllGone
  /\ mpc' = "close"
  /\ UNCHANGED <<program, interrupts, closed, sem, pool, thr>>

\* closeall also closes what is handed out
PoolClosed ==
  /\ mpc = "close"
  /\ closed' = TRUE /\ mpc' = "end"
  /\ UNCHANGED <<program, interrupts, sem, pool, thr>>

Over == mpc = "end" /\ (Retrying => AllGone)
Finished == Over /\ UNCHANGED vars

-----------------------------------------------------------------------------
ThreadSteps(t) ==
  \/ LoopTop(t) \/ SlotAcquired(t) \/ SlotTimesOut(t) \/ ConnTaken(t) \/ ConnRefused(t)
  \/ QueryEnds(t) \/ Discarded(t) \/ PutBackSucceeds(t) \/ PutBackFails(t)
  \/ Released(t) \/ BackoffEnds(t)
MainSteps == PoolCreated \/ Joined \/ PoolClosed

Next ==
  \/ \E t \in Threads : ThreadSteps(t) \/ ThreadStarted(t)
  \/ MainSteps \/ CtrlC \/ Finished

Spec == Init /\ [][Next]_vars

\* Calls return: the semaphore within 2 s, connections and queries when the
\* server answers or its loss is noticed, sleeps when they are over.  The user
\* need not press Ctrl-C.
Fairness ==
  /\ \A t \in Threads : WF_vars(ThreadSteps(t))
  /\ WF_vars(MainSteps)

FairSpec == Spec /\ Fairness

-----------------------------------------------------------------------------
\* Every variable has the shape the two programs give it.
TypeOK ==
  /\ program \in Programs
  /\ mpc \in {"init", "start", "join", "close", "end"}
  /\ interrupts \in 0..2 /\ closed \in BOOLEAN
  /\ sem \in 0..MaxConn
  /\ pool \in [idle : 0..MaxConn, used : 0..MaxConn, leaked : 0..MaxConn]
  /\ thr \in [Threads ->
       [pc : Gone \cup {"loop", "acquire", "getconn", "query", "discard", "putback",
                        "release", "backoff"},
        slot : BOOLEAN, conn : BOOLEAN, fault : {"none", "retryable", "other"},
        attempt : 1..MaxAttempts]]

\* The semaphore and its holders are the pool size, only a holder has a
\* connection, and while the pool is open its book of handed-out connections
\* is the threads' connections and those a failed putconn has lost.
SlotsAndConnectionsAgree ==
  /\ sem + Cardinality(Holders) = MaxConn
  /\ Clients \subseteq Holders
  /\ ~closed => pool.used = Cardinality(Clients) + pool.leaked
                  /\ pool.idle + pool.used <= MaxConn

\* The semaphore keeps the pool from being exhausted: a thread with a slot finds
\* a connection, or room for one, unless a failed putconn has lost one.
SlotMeansConnection ==
  \A t \in Threads :
    At(t, "getconn") /\ ~closed /\ pool.leaked = 0 => pool.idle > 0 \/ pool.used < MaxConn

\* "retry" closes the pool after a single Ctrl-C only when no worker is left.
ClosedAfterWorkers == Retrying /\ closed /\ interrupts <= 1 => AllGone

\* After Ctrl-C the program ends, also with operations being retried, also when a
\* second Ctrl-C has closed the pool under the workers.
ShutdownEnds == interrupts > 0 ~> Over

\* threaded_db_pool2.py: "ALWAYS release the semaphore slot if we acquired it".
SlotAlwaysReleased == \A t \in Threads : thr[t].pc \in Gone => ~thr[t].slot
=============================================================================
