------------------------- MODULE PooledThreadsProofs -------------------------
(***************************************************************************)
(* Theorems about PooledThreads, for every number of threads, pool size,   *)
(* number of attempts and choice of program.                               *)
(***************************************************************************)
EXTENDS PooledThreads, Counting

USE ThreadsAssumption, PoolAssumption, ProgramsAssumption

Pcs == Gone \cup {"loop", "acquire", "getconn", "query", "discard", "putback",
                  "release", "backoff"}
Records == [pc : Pcs, slot : BOOLEAN, conn : BOOLEAN,
            fault : {"none", "retryable", "other"}, attempt : 1..MaxAttempts]

(***************************************************************************)
(* The strengthening.  ThreadInv says at which calls a thread holds its    *)
(* slot and its connection, MainInv which steps of main have been taken.   *)
(***************************************************************************)
WithConn    == {"query", "discard", "putback"}
WithoutSlot == {"unborn", "exited", "loop", "acquire", "backoff"}

Placed(r) ==
  /\ r.conn <=> r.pc \in WithConn
  /\ r.pc \in WithConn \cup {"getconn"} => r.slot
  /\ r.pc \in WithoutSlot => ~r.slot

ThreadInv == \A t \in Threads : Placed(thr[t])

MainInv ==
  /\ closed => mpc = "end"
  /\ mpc = "init" =>
       /\ pool = [idle |-> 0, used |-> 0, leaked |-> 0]
       /\ \A t \in Threads : thr[t].pc = "unborn"
  /\ mpc \in {"init", "start"} => interrupts = 0
  /\ mpc = "join" => Retrying /\ interrupts = 1
  /\ mpc = "close" /\ Retrying /\ interrupts <= 1 => AllGone

IInv == TypeOK /\ ThreadInv /\ MainInv /\ SlotsAndConnectionsAgree /\ ClosedAfterWorkers

(***************************************************************************)
(* Counting.                                                               *)
(***************************************************************************)

\* A thread that becomes r: how many hold a slot, and how many a connection.
LEMMA BecomesCounts ==
  ASSUME TypeOK, NEW t \in Threads, NEW r \in Records, Becomes(t, r)
  PROVE  /\ thr[t] \in Records
         /\ thr' \in [Threads -> Records] /\ thr'[t] = r
         /\ \A u \in Threads \ {t} : thr'[u] = thr[u]
         /\ Cardinality(Holders) \in Nat /\ Cardinality(Clients) \in Nat
         /\ Cardinality(Holders') \in Nat /\ Cardinality(Clients') \in Nat
         /\ Cardinality(Holders') = Cardinality(Holders)
              + (IF r.slot THEN 1 ELSE 0) - (IF thr[t].slot THEN 1 ELSE 0)
         /\ Cardinality(Clients') = Cardinality(Clients)
              + (IF r.conn THEN 1 ELSE 0) - (IF thr[t].conn THEN 1 ELSE 0)
<1>1. thr \in [Threads -> Records] /\ thr' = [thr EXCEPT ![t] = r]
  BY DEF TypeOK, Records, Pcs, Becomes
<1>2. /\ thr[t] \in Records /\ thr' \in [Threads -> Records] /\ thr'[t] = r
      /\ \A u \in Threads \ {t} : thr'[u] = thr[u]
  BY <1>1
<1>3. /\ Holders \in SUBSET Threads /\ Holders' \in SUBSET Threads
      /\ Clients \in SUBSET Threads /\ Clients' \in SUBSET Threads
      /\ \A u \in Threads \ {t} : u \in Holders' <=> u \in Holders
      /\ \A u \in Threads \ {t} : u \in Clients' <=> u \in Clients
      /\ t \in Holders <=> thr[t].slot
      /\ t \in Holders' <=> r.slot
      /\ t \in Clients <=> thr[t].conn
      /\ t \in Clients' <=> r.conn
  BY <1>2 DEF Holders, Clients
<1>4. /\ Cardinality(Holders) \in Nat /\ Cardinality(Holders') \in Nat
      /\ Cardinality(Holders') = Cardinality(Holders)
           + (IF r.slot THEN 1 ELSE 0) - (IF thr[t].slot THEN 1 ELSE 0)
  BY <1>3, CountStep
<1>5. /\ Cardinality(Clients) \in Nat /\ Cardinality(Clients') \in Nat
      /\ Cardinality(Clients') = Cardinality(Clients)
           + (IF r.conn THEN 1 ELSE 0) - (IF thr[t].conn THEN 1 ELSE 0)
  BY <1>3, CountStep
<1> QED
  BY <1>2, <1>4, <1>5

-----------------------------------------------------------------------------
(***************************************************************************)
(* The initial states and the steps of main.                               *)
(***************************************************************************)

\* Nobody holds anything before main starts the threads.
LEMMA InitIInv == Init => IInv
<1> SUFFICES ASSUME Init PROVE IInv
  OBVIOUS
<1>1. TypeOK /\ ThreadInv /\ MainInv /\ ClosedAfterWorkers
  <2>1. NewThread \in Records /\ Placed(NewThread)
    BY DEF NewThread, Records, Pcs, Gone, Placed, WithConn, WithoutSlot
  <2>2. thr = [t \in Threads |-> NewThread]
    BY DEF Init
  <2>3. TypeOK
    <3>1. thr \in [Threads -> Records]
      BY <2>1, <2>2
    <3>2. pool \in [idle : 0..MaxConn, used : 0..MaxConn, leaked : 0..MaxConn]
      BY DEF Init
    <3>3. program \in Programs /\ mpc = "init" /\ interrupts = 0 /\ sem = MaxConn
      BY DEF Init
    <3>4. closed \in BOOLEAN
      BY Zenon DEF Init
    <3> QED
      BY <3>1, <3>2, <3>3, <3>4 DEF TypeOK, Records, Pcs
  <2>4. ThreadInv /\ ClosedAfterWorkers
    BY <2>1, <2>2 DEF Init, ThreadInv, ClosedAfterWorkers
  <2>5. MainInv
    BY <2>2 DEF Init, MainInv, NewThread
  <2> QED
    BY <2>3, <2>4, <2>5
<1>2. Holders = {} /\ Clients = {}
  BY DEF Init, NewThread, Holders, Clients
<1>3. Cardinality({}) = 0
  BY FS_EmptySet
<1>4. sem = MaxConn /\ pool.used = 0 /\ pool.idle = 0 /\ pool.leaked = 0
  BY DEF Init
<1> QED
  BY <1>1, <1>2, <1>3, <1>4 DEF IInv, SlotsAndConnectionsAgree

\* Steps that move no thread but may open the pool.
LEMMA MainKeeps ==
  ASSUME IInv, PoolCreated \/ CtrlC \/ Joined \/ PoolClosed
  PROVE  IInv'
<1> USE DEF IInv
<1>1. UNCHANGED <<program, sem, thr>>
  BY DEF PoolCreated, CtrlC, Joined, PoolClosed
<1>2. Holders' = Holders /\ Clients' = Clients /\ ThreadInv' /\ (AllGone' <=> AllGone)
      /\ (Retrying' <=> Retrying)
  BY <1>1 DEF Holders, Clients, ThreadInv, Placed, AllGone, Retrying
<1>3. CASE PoolCreated
  <2>1. Clients = {} /\ Cardinality(Clients) = 0
    <3>1. \A t \in Threads : ~thr[t].conn
      BY <1>3 DEF PoolCreated, MainInv, ThreadInv, Placed, WithConn, TypeOK
    <3> QED
      BY <3>1, FS_EmptySet DEF Clients
  <2>2. /\ pool.used = 0 /\ pool.idle = 0 /\ pool.leaked = 0
        /\ \/ mpc' = "start" /\ pool' = [pool EXCEPT !.idle = MaxConn]
           \/ mpc' = "end" /\ pool' = pool
        /\ UNCHANGED <<interrupts, closed>> /\ interrupts = 0 /\ ~closed
    BY <1>3 DEF PoolCreated, MainInv
  <2>3. TypeOK'
    BY <1>1, <2>2 DEF TypeOK
  <2>4. MainInv' /\ ClosedAfterWorkers'
    BY <1>2, <2>2 DEF MainInv, ClosedAfterWorkers
  <2>5. pool'.used = 0 /\ pool'.leaked = 0 /\ pool'.idle \in {0, MaxConn}
    BY <2>2 DEF TypeOK
  <2>6. SlotsAndConnectionsAgree'
    BY <1>1, <1>2, <2>1, <2>5 DEF SlotsAndConnectionsAgree
  <2> QED
    BY <1>2, <2>3, <2>4, <2>6
<1>4. CASE CtrlC
  <2>1. TypeOK' /\ MainInv' /\ ClosedAfterWorkers'
    BY <1>1, <1>2, <1>4
       DEF CtrlC, AfterInterrupt, TypeOK, MainInv, ClosedAfterWorkers, Retrying
  <2>2. SlotsAndConnectionsAgree'
    BY <1>1, <1>2, <1>4 DEF CtrlC, SlotsAndConnectionsAgree
  <2> QED
    BY <1>2, <2>1, <2>2
<1>5. CASE Joined \/ PoolClosed
  <2>1. TypeOK'
    BY <1>1, <1>5 DEF Joined, PoolClosed, TypeOK
  <2>2. ASSUME Joined PROVE MainInv' /\ ClosedAfterWorkers'
    BY <1>1, <1>2, <2>2 DEF Joined, MainInv, ClosedAfterWorkers
  <2>3. ASSUME PoolClosed PROVE MainInv' /\ ClosedAfterWorkers'
    BY <1>1, <1>2, <2>3 DEF PoolClosed, MainInv, ClosedAfterWorkers
  <2>4. SlotsAndConnectionsAgree'
    BY <1>1, <1>2, <1>5 DEF Joined, PoolClosed, SlotsAndConnectionsAgree
  <2> QED
    BY <1>2, <1>5, <2>1, <2>2, <2>3, <2>4
<1> QED
  BY <1>3, <1>4, <1>5

\* main starts a thread.
LEMMA StartKeeps ==
  ASSUME IInv, NEW t \in Threads, ThreadStarted(t)
  PROVE  IInv'
<1> USE DEF IInv
<1> DEFINE r == [thr[t] EXCEPT !.pc = "loop"]
<1>1. thr[t] \in Records /\ thr[t].pc = "unborn" /\ ~thr[t].slot /\ ~thr[t].conn
  BY DEF ThreadStarted, At, TypeOK, Records, Pcs, ThreadInv, Placed, WithConn, WithoutSlot
<1>2. /\ r \in Records /\ Becomes(t, r) /\ ~r.slot /\ ~r.conn /\ Placed(r)
      /\ UNCHANGED <<mainVars, sem, pool>> /\ mpc = "start"
  BY <1>1 DEF ThreadStarted, Goes, Records, Pcs, Placed, WithConn, WithoutSlot
<1> HIDE DEF r
<1>3. /\ thr' \in [Threads -> Records] /\ thr'[t] = r
      /\ \A u \in Threads \ {t} : thr'[u] = thr[u]
      /\ Cardinality(Holders') = Cardinality(Holders)
      /\ Cardinality(Clients') = Cardinality(Clients)
  BY <1>1, <1>2, BecomesCounts
<1>4. TypeOK' /\ ThreadInv' /\ MainInv' /\ ClosedAfterWorkers'
  <2>1. TypeOK'
    BY <1>2, <1>3 DEF TypeOK, mainVars, Records, Pcs
  <2>2. ThreadInv'
    BY <1>2, <1>3 DEF ThreadInv, Placed
  <2>3. MainInv' /\ ClosedAfterWorkers'
    BY <1>2 DEF MainInv, ClosedAfterWorkers, mainVars, Retrying
  <2> QED
    BY <2>1, <2>2, <2>3
<1>5. SlotsAndConnectionsAgree'
  <2>1. Clients' \subseteq Holders'
    BY <1>3, <1>4 DEF ThreadInv, Placed, Clients, Holders, WithConn, Records
  <2> QED
    BY <1>2, <1>3, <2>1 DEF SlotsAndConnectionsAgree, mainVars
<1> QED
  BY <1>4, <1>5

-----------------------------------------------------------------------------
(***************************************************************************)
(* The steps of a thread.                                                  *)
(***************************************************************************)

\* A thread that becomes r, moves the semaphore by its slot, and leaves the pool's
\* book in order, keeps the invariant.
LEMMA ThreadMoves ==
  ASSUME IInv, NEW t \in Threads, NEW r \in Records, Becomes(t, r), Placed(r),
         thr[t].pc \notin Gone, UNCHANGED mainVars,
         sem' \in Nat,
         sem' = sem + (IF thr[t].slot THEN 1 ELSE 0) - (IF r.slot THEN 1 ELSE 0),
         pool' \in [idle : 0..MaxConn, used : 0..MaxConn, leaked : 0..MaxConn],
         ~closed =>
           /\ pool'.used - pool'.leaked = pool.used - pool.leaked
                + (IF r.conn THEN 1 ELSE 0) - (IF thr[t].conn THEN 1 ELSE 0)
           /\ pool'.idle + pool'.used <= MaxConn
  PROVE  IInv'
<1> USE DEF IInv
<1>1. /\ thr[t] \in Records
      /\ thr' \in [Threads -> Records] /\ thr'[t] = r
      /\ \A u \in Threads \ {t} : thr'[u] = thr[u]
      /\ Cardinality(Holders) \in Nat /\ Cardinality(Clients) \in Nat
      /\ Cardinality(Holders') \in Nat /\ Cardinality(Clients') \in Nat
      /\ Cardinality(Holders') = Cardinality(Holders)
           + (IF r.slot THEN 1 ELSE 0) - (IF thr[t].slot THEN 1 ELSE 0)
      /\ Cardinality(Clients') = Cardinality(Clients)
           + (IF r.conn THEN 1 ELSE 0) - (IF thr[t].conn THEN 1 ELSE 0)
  BY BecomesCounts
<1>2. ~AllGone /\ mpc # "init"
  BY DEF AllGone, MainInv, Gone
<1>3. ThreadInv'
  BY <1>1 DEF ThreadInv, Placed
<1>4. MainInv' /\ ClosedAfterWorkers'
  BY <1>2 DEF MainInv, ClosedAfterWorkers, mainVars, Retrying
<1>5. sem' + Cardinality(Holders') = MaxConn
  BY <1>1 DEF SlotsAndConnectionsAgree, TypeOK
<1>6. TypeOK'
  BY <1>1, <1>5 DEF TypeOK, mainVars, Records, Pcs
<1>7. Clients' \subseteq Holders'
  BY <1>1, <1>3 DEF ThreadInv, Placed, Clients, Holders, WithConn, Records
<1>8. ~closed' => pool'.used = Cardinality(Clients') + pool'.leaked
                    /\ pool'.idle + pool'.used <= MaxConn
  BY <1>1 DEF SlotsAndConnectionsAgree, TypeOK, mainVars
<1> QED
  BY <1>3, <1>4, <1>5, <1>6, <1>7, <1>8 DEF SlotsAndConnectionsAgree

\* Every call a thread makes.
LEMMA ThreadStepsKeep ==
  ASSUME IInv, NEW t \in Threads, ThreadSteps(t)
  PROVE  IInv'
<1>1. /\ thr[t] \in Records /\ Placed(thr[t])
      /\ pool \in [idle : 0..MaxConn, used : 0..MaxConn, leaked : 0..MaxConn]
      /\ sem \in Nat
      /\ ~closed => pool.idle + pool.used <= MaxConn
  BY DEF IInv, TypeOK, ThreadInv, Records, Pcs, SlotsAndConnectionsAgree
<1>2. thr[t].conn /\ ~closed => pool.used >= pool.leaked + 1
  <2>1. thr[t].conn => t \in Clients
    BY DEF Clients
  <2>2. Clients \in SUBSET Threads
    BY DEF Clients
  <2>3. IsFiniteSet(Clients) /\ Cardinality(Clients) \in Nat
        /\ (Cardinality(Clients) = 0 <=> Clients = {})
    BY <2>2, FS_Subset, FS_CardinalityType, FS_EmptySet
  <2>4. ~closed => pool.used = Cardinality(Clients) + pool.leaked
    BY DEF IInv, SlotsAndConnectionsAgree
  <2> QED
    BY <1>1, <2>1, <2>3, <2>4
<1>3. ASSUME LoopTop(t) PROVE IInv'
  <2> DEFINE r == [thr[t] EXCEPT !.pc = IF ShutdownSet THEN "exited" ELSE "acquire"]
  <2>1. /\ thr[t].pc \notin Gone /\ UNCHANGED mainVars
        /\ r \in Records /\ Becomes(t, r) /\ Placed(r)
    BY <1>1, <1>3 DEF LoopTop, At, Goes, Records, Pcs, Gone, Placed, WithConn, WithoutSlot
  <2>2. /\ sem' \in Nat /\ pool' = pool
        /\ sem' = sem + (IF thr[t].slot THEN 1 ELSE 0) - (IF r.slot THEN 1 ELSE 0)
        /\ r.conn <=> thr[t].conn
    BY <1>1, <1>3 DEF LoopTop, At, Goes, Records, Placed, WithConn, WithoutSlot
  <2> HIDE DEF r
  <2> QED
    BY <1>1, <2>1, <2>2, ThreadMoves
<1>4. ASSUME SlotAcquired(t) PROVE IInv'
  <2> DEFINE r == [thr[t] EXCEPT !.pc = "getconn", !.slot = TRUE]
  <2>1. /\ thr[t].pc \notin Gone /\ UNCHANGED mainVars
        /\ r \in Records /\ Becomes(t, r) /\ Placed(r)
    BY <1>1, <1>4 DEF SlotAcquired, At, Goes, Records, Pcs, Gone, Placed, WithConn, WithoutSlot
  <2>2. /\ sem' \in Nat /\ pool' = pool
        /\ sem' = sem + (IF thr[t].slot THEN 1 ELSE 0) - (IF r.slot THEN 1 ELSE 0)
        /\ r.conn <=> thr[t].conn
    BY <1>1, <1>4 DEF SlotAcquired, At, Goes, Records, Placed, WithConn, WithoutSlot
  <2> HIDE DEF r
  <2> QED
    BY <1>1, <2>1, <2>2, ThreadMoves
<1>5. ASSUME SlotTimesOut(t) PROVE IInv'
  <2> DEFINE r == IF Retrying
                   THEN [thr[t] EXCEPT !.pc = "release", !.fault = "retryable"]
                   ELSE [thr[t] EXCEPT !.pc = "loop"]
  <2>1. /\ thr[t].pc \notin Gone /\ UNCHANGED mainVars
        /\ r \in Records /\ Becomes(t, r) /\ Placed(r)
    BY <1>1, <1>5 DEF SlotTimesOut, At, Goes, Records, Pcs, Gone, Placed, WithConn, WithoutSlot
  <2>2. /\ sem' \in Nat /\ pool' = pool
        /\ sem' = sem + (IF thr[t].slot THEN 1 ELSE 0) - (IF r.slot THEN 1 ELSE 0)
        /\ r.conn <=> thr[t].conn
    BY <1>1, <1>5 DEF SlotTimesOut, At, Goes, Records, Placed, WithConn, WithoutSlot
  <2> HIDE DEF r
  <2> QED
    BY <1>1, <2>1, <2>2, ThreadMoves
<1>6. ASSUME ConnTaken(t) PROVE IInv'
  <2> DEFINE r == [thr[t] EXCEPT !.pc = "query", !.conn = TRUE]
  <2>1. /\ thr[t].pc \notin Gone /\ UNCHANGED mainVars
        /\ r \in Records /\ Becomes(t, r) /\ Placed(r)
    BY <1>1, <1>6 DEF ConnTaken, At, Goes, Records, Pcs, Gone, Placed, WithConn, WithoutSlot
  <2>2. /\ sem' = sem /\ (r.slot <=> thr[t].slot) /\ r.conn /\ ~thr[t].conn
        /\ pool' = [pool EXCEPT !.idle = IF @ > 0 THEN @ - 1 ELSE 0, !.used = @ + 1]
        /\ ~closed /\ (pool.idle > 0 \/ pool.used < MaxConn)
    BY <1>1, <1>6 DEF ConnTaken, At, Records, Placed, WithConn
  <2>3. /\ pool' \in [idle : 0..MaxConn, used : 0..MaxConn, leaked : 0..MaxConn]
        /\ pool'.used = pool.used + 1 /\ pool'.leaked = pool.leaked
        /\ pool'.idle + pool'.used <= MaxConn
    <3>1. CASE pool.idle > 0
      <4>1. pool' = [idle |-> pool.idle - 1, used |-> pool.used + 1, leaked |-> pool.leaked]
        BY <1>1, <2>2, <3>1
      <4> QED
        BY <1>1, <2>2, <3>1, <4>1
    <3>2. CASE pool.idle = 0
      <4>1. pool' = [pool EXCEPT !.idle = 0, !.used = @ + 1]
        BY <1>1, <2>2, <3>2
      <4>2. pool.used \in 0..MaxConn /\ pool.leaked \in 0..MaxConn /\ pool.used < MaxConn
        BY <1>1, <2>2, <3>2
      <4>3. pool' = [idle |-> 0, used |-> pool.used + 1, leaked |-> pool.leaked]
        BY <1>1, <4>1
      <4> QED
        BY <4>2, <4>3
    <3> QED
      BY <1>1, <3>1, <3>2
  <2> HIDE DEF r
  <2> QED
    BY <1>1, <2>1, <2>2, <2>3, ThreadMoves
<1>7. ASSUME ConnRefused(t) PROVE IInv'
  <2> DEFINE r == [thr[t] EXCEPT !.pc = "release", !.fault = "retryable"]
  <2>1. /\ thr[t].pc \notin Gone /\ UNCHANGED mainVars
        /\ r \in Records /\ Becomes(t, r) /\ Placed(r)
    BY <1>1, <1>7 DEF ConnRefused, At, Goes, Records, Pcs, Gone, Placed, WithConn, WithoutSlot
  <2>2. /\ sem' \in Nat /\ pool' = pool
        /\ sem' = sem + (IF thr[t].slot THEN 1 ELSE 0) - (IF r.slot THEN 1 ELSE 0)
        /\ r.conn <=> thr[t].conn
    BY <1>1, <1>7 DEF ConnRefused, At, Goes, Records, Placed, WithConn, WithoutSlot
  <2> HIDE DEF r
  <2> QED
    BY <1>1, <2>1, <2>2, ThreadMoves
<1>8. ASSUME QueryEnds(t) PROVE IInv'
  <2>1. PICK r \in { [thr[t] EXCEPT !.pc = "putback"],
                     [thr[t] EXCEPT !.pc = "discard", !.fault = "retryable"],
                     [thr[t] EXCEPT !.pc = "putback", !.fault = "other"] } : Becomes(t, r)
    BY <1>8 DEF QueryEnds, Goes
  <2>2. /\ thr[t].pc \notin Gone /\ UNCHANGED mainVars /\ sem' = sem /\ pool' = pool
        /\ r \in Records /\ Placed(r) /\ (r.slot <=> thr[t].slot) /\ (r.conn <=> thr[t].conn)
    BY <1>1, <1>8, <2>1
       DEF QueryEnds, At, Records, Pcs, Gone, Placed, WithConn, WithoutSlot
  <2> QED
    BY <1>1, <2>1, <2>2, ThreadMoves
<1>9. ASSUME NEW f \in {"retryable", "other"}, PutconnRaises(t, f),
             thr[t].pc \in WithConn, UNCHANGED <<mainVars, sem>>,
             closed => pool' = pool,
             ~closed => pool' = [pool EXCEPT !.leaked = @ + 1]
      PROVE  IInv'
  <2> DEFINE r == IF Retrying
                    THEN [thr[t] EXCEPT !.pc = "release", !.conn = FALSE, !.fault = f]
                    ELSE [thr[t] EXCEPT !.pc = "died", !.conn = FALSE]
  <2>1. /\ thr[t].pc \notin Gone /\ Becomes(t, r)
        /\ r \in Records /\ Placed(r) /\ (r.slot <=> thr[t].slot) /\ ~r.conn /\ thr[t].conn
    BY <1>1, <1>9
       DEF PutconnRaises, Records, Pcs, Gone, Placed, WithConn, WithoutSlot
  <2>2. /\ pool' \in [idle : 0..MaxConn, used : 0..MaxConn, leaked : 0..MaxConn]
        /\ ~closed => /\ pool'.used = pool.used /\ pool'.leaked = pool.leaked + 1
                      /\ pool'.idle = pool.idle
    <3>1. CASE closed
      BY <1>1, <1>9, <3>1
    <3>2. CASE ~closed
      <4>1. pool' = [idle |-> pool.idle, used |-> pool.used, leaked |-> pool.leaked + 1]
        BY <1>1, <1>9, <3>2
      <4> QED
        BY <1>1, <1>2, <2>1, <3>2, <4>1
    <3> QED
      BY <3>1, <3>2
  <2>3. /\ sem' \in Nat
        /\ sem' = sem + (IF thr[t].slot THEN 1 ELSE 0) - (IF r.slot THEN 1 ELSE 0)
    BY <1>1, <1>9, <2>1
  <2>4. ~closed =>
          /\ pool'.used - pool'.leaked = pool.used - pool.leaked
               + (IF r.conn THEN 1 ELSE 0) - (IF thr[t].conn THEN 1 ELSE 0)
          /\ pool'.idle + pool'.used <= MaxConn
    BY <1>1, <2>1, <2>2
  <2> HIDE DEF r
  <2> QED
    BY <1>1, <1>9, <2>1, <2>2, <2>3, <2>4, ThreadMoves
<1>10. ASSUME Discarded(t) PROVE IInv'
  <2>1. CASE closed
    BY <1>9, <1>10, <2>1 DEF Discarded, At, WithConn
  <2>2. CASE ~closed
    <3> DEFINE r == [thr[t] EXCEPT !.pc = "release", !.conn = FALSE]
    <3>1. /\ thr[t].pc \notin Gone /\ UNCHANGED mainVars /\ sem' = sem /\ Becomes(t, r)
          /\ pool' = [pool EXCEPT !.used = @ - 1]
          /\ r \in Records /\ Placed(r) /\ (r.slot <=> thr[t].slot) /\ ~r.conn /\ thr[t].conn
      BY <1>1, <1>10, <2>2
         DEF Discarded, At, Records, Pcs, Gone, Placed, WithConn, WithoutSlot
    <3>2. /\ pool' \in [idle : 0..MaxConn, used : 0..MaxConn, leaked : 0..MaxConn]
          /\ pool'.used = pool.used - 1 /\ pool'.leaked = pool.leaked
          /\ pool'.idle = pool.idle
      BY <1>1, <1>2, <2>2, <3>1
    <3> HIDE DEF r
    <3> QED
      BY <1>1, <2>2, <3>1, <3>2, ThreadMoves
  <2> QED
    BY <2>1, <2>2
<1>11. ASSUME PutBackSucceeds(t) PROVE IInv'
  <2> DEFINE r == [thr[t] EXCEPT !.pc = "release", !.conn = FALSE]
  <2>1. /\ thr[t].pc \notin Gone /\ UNCHANGED mainVars /\ sem' = sem /\ Becomes(t, r)
        /\ pool' \in Kept /\ ~closed
        /\ r \in Records /\ Placed(r) /\ (r.slot <=> thr[t].slot) /\ ~r.conn /\ thr[t].conn
    BY <1>1, <1>11
       DEF PutBackSucceeds, At, Records, Pcs, Gone, Placed, WithConn, WithoutSlot
  <2>2. PICK i \in {pool.idle, pool.idle + 1} :
          pool' = [pool EXCEPT !.idle = i, !.used = @ - 1]
    BY <2>1 DEF Kept
  <2>3. /\ pool' \in [idle : 0..MaxConn, used : 0..MaxConn, leaked : 0..MaxConn]
        /\ pool'.used = pool.used - 1 /\ pool'.leaked = pool.leaked
        /\ pool'.idle + pool'.used <= MaxConn
    <3>1. pool' = [idle |-> i, used |-> pool.used - 1, leaked |-> pool.leaked]
      BY <1>1, <2>2
    <3>2. i \in Nat /\ i <= pool.idle + 1
      BY <1>1, <2>2
    <3> QED
      BY <1>1, <1>2, <2>1, <3>1, <3>2
  <2> HIDE DEF r
  <2> QED
    BY <1>1, <2>1, <2>3, ThreadMoves
<1>12. ASSUME PutBackFails(t) PROVE IInv'
  BY <1>9, <1>12 DEF PutBackFails, At, WithConn
<1>13. ASSUME Released(t) PROVE IInv'
  <2> DEFINE r == [thr[t] EXCEPT !.pc = IF Retries(t) THEN "backoff" ELSE "loop",
                              !.attempt = IF Retries(t) THEN @ ELSE 1,
                              !.slot = FALSE, !.fault = "none"]
  <2>1. /\ thr[t].pc \notin Gone /\ UNCHANGED mainVars
        /\ r \in Records /\ Becomes(t, r) /\ Placed(r)
    <3>1. /\ (IF Retries(t) THEN "backoff" ELSE "loop") \in {"backoff", "loop"}
          /\ (IF Retries(t) THEN thr[t].attempt ELSE 1) \in 1..MaxAttempts
      BY <1>1 DEF Records
    <3> QED
      BY <1>1, <1>13, <3>1
         DEF Released, At, Goes, Records, Pcs, Gone, Placed, WithConn, WithoutSlot, Freed
  <2>2. /\ sem' \in Nat /\ pool' = pool
        /\ sem' = sem + (IF thr[t].slot THEN 1 ELSE 0) - (IF r.slot THEN 1 ELSE 0)
        /\ r.conn <=> thr[t].conn
    BY <1>1, <1>13 DEF Released, At, Goes, Records, Placed, WithConn, WithoutSlot, Freed
  <2> HIDE DEF r
  <2> QED
    BY <1>1, <2>1, <2>2, ThreadMoves
<1>14. ASSUME BackoffEnds(t) PROVE IInv'
  <2> DEFINE r == [thr[t] EXCEPT !.pc = "acquire",
                              !.attempt = IF @ < MaxAttempts THEN @ + 1 ELSE @]
  <2>1. /\ thr[t].pc \notin Gone /\ UNCHANGED mainVars
        /\ r \in Records /\ Becomes(t, r) /\ Placed(r)
    <3>1. (IF thr[t].attempt < MaxAttempts THEN thr[t].attempt + 1 ELSE thr[t].attempt)
            \in 1..MaxAttempts
      BY <1>1 DEF Records
    <3> QED
      BY <1>1, <1>14, <3>1
         DEF BackoffEnds, At, Goes, Records, Pcs, Gone, Placed, WithConn, WithoutSlot
  <2>2. /\ sem' \in Nat /\ pool' = pool
        /\ sem' = sem + (IF thr[t].slot THEN 1 ELSE 0) - (IF r.slot THEN 1 ELSE 0)
        /\ r.conn <=> thr[t].conn
    BY <1>1, <1>14 DEF BackoffEnds, At, Goes, Records, Placed, WithConn, WithoutSlot
  <2> HIDE DEF r
  <2> QED
    BY <1>1, <2>1, <2>2, ThreadMoves
<1> QED
  BY <1>3, <1>4, <1>5, <1>6, <1>7, <1>8, <1>10, <1>11, <1>12, <1>13, <1>14 DEF ThreadSteps

-----------------------------------------------------------------------------
(***************************************************************************)
(* The theorems.                                                           *)
(***************************************************************************)

\* Every step keeps the invariant.
LEMMA NextKeeps == IInv /\ [Next]_vars => IInv'
<1> SUFFICES ASSUME IInv, [Next]_vars PROVE IInv'
  OBVIOUS
<1>1. ASSUME NEW t \in Threads, ThreadSteps(t) PROVE IInv'
  BY <1>1, ThreadStepsKeep
<1>2. ASSUME NEW t \in Threads, ThreadStarted(t) PROVE IInv'
  BY <1>2, StartKeeps
<1>3. ASSUME MainSteps \/ CtrlC PROVE IInv'
  BY <1>3, MainKeeps DEF MainSteps
<1>4. ASSUME Finished \/ UNCHANGED vars PROVE IInv'
  <2>1. UNCHANGED <<program, mpc, interrupts, closed, sem, pool, thr>>
    BY <1>4 DEF Finished, vars
  <2>2. Holders' = Holders /\ Clients' = Clients /\ AllGone' = AllGone /\ Retrying' = Retrying
    BY <2>1 DEF Holders, Clients, AllGone, Retrying
  <2>3. TypeOK' /\ ThreadInv'
    BY <2>1 DEF IInv, TypeOK, ThreadInv, Placed
  <2>4. MainInv' /\ ClosedAfterWorkers'
    BY <2>1, <2>2 DEF IInv, MainInv, ClosedAfterWorkers
  <2>5. SlotsAndConnectionsAgree'
    BY <2>1, <2>2 DEF IInv, SlotsAndConnectionsAgree
  <2> QED
    BY <2>3, <2>4, <2>5 DEF IInv
<1> QED
  BY <1>1, <1>2, <1>3, <1>4 DEF Next

\* A thread at getconn has a slot, and is not among the clients.
LEMMA SlotCountsConnections == IInv => SlotMeansConnection
<1> SUFFICES ASSUME IInv, NEW t \in Threads,
                    At(t, "getconn"), ~closed, pool.leaked = 0
             PROVE  pool.idle > 0 \/ pool.used < MaxConn
  BY DEF SlotMeansConnection
<1>1. t \in Holders /\ t \notin Clients /\ Clients \subseteq Holders
  BY DEF IInv, TypeOK, ThreadInv, Placed, At, WithConn, Holders, Clients,
         SlotsAndConnectionsAgree
<1>2. IsFiniteSet(Holders) /\ Clients \cup {t} \in SUBSET Holders
  <2>1. Holders \in SUBSET Threads
    BY DEF Holders
  <2> QED
    BY <1>1, <2>1, FS_Subset
<1>3. /\ IsFiniteSet(Clients) /\ Cardinality(Clients \cup {t}) = Cardinality(Clients) + 1
      /\ Cardinality(Clients \cup {t}) <= Cardinality(Holders)
      /\ Cardinality(Clients) \in Nat /\ Cardinality(Holders) \in Nat
  BY <1>1, <1>2, FS_Subset, FS_AddElement, FS_CardinalityType
<1> QED
  BY <1>3 DEF IInv, TypeOK, SlotsAndConnectionsAgree

\* The invariant holds in every state of both programs.
LEMMA Invariant == Spec => []IInv
  BY InitIInv, NextKeeps, PTL DEF Spec

\* Both programs: the variables keep their shape.
THEOREM PoolTypesCorrect == Spec => []TypeOK
<1>1. IInv => TypeOK
  BY DEF IInv
<1> QED
  BY <1>1, Invariant, PTL

\* Both programs: semaphore, holders and the pool's book agree at every step.
THEOREM SlotsAndConnectionsAlwaysAgree == Spec => []SlotsAndConnectionsAgree
<1>1. IInv => SlotsAndConnectionsAgree
  BY DEF IInv
<1> QED
  BY <1>1, Invariant, PTL

\* Both programs: getconn behind the semaphore is never refused for want of room.
THEOREM SlotAlwaysMeansConnection == Spec => []SlotMeansConnection
  BY SlotCountsConnections, Invariant, PTL

\* Retry_Pool_Demo.py: after one Ctrl-C the pool is closed behind the last worker.
THEOREM AlwaysClosedAfterWorkers == Spec => []ClosedAfterWorkers
<1>1. IInv => ClosedAfterWorkers
  BY DEF IInv
<1> QED
  BY <1>1, Invariant, PTL

-----------------------------------------------------------------------------
(***************************************************************************)
(* Why a shutdown ends: ShutdownEnds needs fairness and stays with TLC;    *)
(* that the steps of a worker run out holds for every instance.            *)
(***************************************************************************)
\* calls before the operation is over or backs off
Left ==
  [unborn |-> 0, exited |-> 0, died |-> 0, loop |-> 1, backoff |-> 2, release |-> 3,
   putback |-> 4, discard |-> 5, query |-> 6, getconn |-> 7, acquire |-> 8]
Outside == Gone \cup {"loop"}

\* What a thread has at most ahead of it: this attempt and those tenacity allows.
StepsLeft(r) ==
  IF r.pc \in Outside THEN Left[r.pc] ELSE Left[r.pc] + 7 * (MaxAttempts - r.attempt)

WorkersRunDown ==
  [][\A t \in Threads : ShutdownSet /\ thr'[t] # thr[t]
                          => StepsLeft(thr'[t]) < StepsLeft(thr[t])]_vars

\* Only an operation that has another attempt backs off.
BackoffInv == \A t \in Threads : thr[t].pc = "backoff" => thr[t].attempt < MaxAttempts

\* An operation that ends: what is left is the loop's test.
LEMMA EndIsNearer ==
  ASSUME NEW r \in Records, NEW s \in Records, r.pc \in Outside, s.pc \notin Outside
  PROVE  StepsLeft(r) < StepsLeft(s)
<1>1. StepsLeft(r) \in {0, 1}
  BY DEF StepsLeft, Left, Outside, Gone
<1>2. Left[s.pc] \in 2 .. 8 /\ MaxAttempts - s.attempt \in Nat
  BY DEF Records, Pcs, Left, Outside, Gone
<1>3. StepsLeft(s) = Left[s.pc] + 7 * (MaxAttempts - s.attempt)
  BY DEF StepsLeft
<1> QED
  BY <1>1, <1>2, <1>3

\* A later call of the same attempt.
LEMMA LaterIsNearer ==
  ASSUME NEW r \in Records, NEW s \in Records, r.attempt = s.attempt,
         s.pc \notin Outside, r.pc \notin Outside, Left[r.pc] < Left[s.pc]
  PROVE  StepsLeft(r) < StepsLeft(s)
<1>1. MaxAttempts - s.attempt \in Nat /\ Left[r.pc] \in Nat /\ Left[s.pc] \in Nat
  BY DEF Records, Pcs, Left, Outside, Gone
<1> QED
  BY <1>1 DEF StepsLeft

\* The first call of the next attempt, after a back-off.
LEMMA RetryIsNearer ==
  ASSUME NEW r \in Records, NEW s \in Records, r.attempt = s.attempt + 1,
         s.pc = "backoff", r.pc = "acquire"
  PROVE  StepsLeft(r) < StepsLeft(s)
<1>1. s.attempt \in 1 .. MaxAttempts /\ r.attempt \in 1 .. MaxAttempts
  BY DEF Records
<1>2. /\ StepsLeft(s) = 2 + 7 * (MaxAttempts - s.attempt)
      /\ StepsLeft(r) = 8 + 7 * (MaxAttempts - r.attempt)
  BY DEF StepsLeft, Left, Outside, Gone
<1> QED
  BY <1>1, <1>2

\* A thread that becomes r, and the others.
LEMMA BecomesOne ==
  ASSUME thr \in [Threads -> Records], NEW t \in Threads, NEW r, Becomes(t, r)
  PROVE  thr'[t] = r /\ \A u \in Threads \ {t} : thr'[u] = thr[u]
BY DEF Becomes

\* After the Ctrl-C a step of a worker uses up some of what it had left.
LEMMA StepUsesUp ==
  ASSUME TypeOK, TypeOK', BackoffInv, ShutdownSet, NEW t \in Threads, ThreadSteps(t)
  PROVE  /\ \A u \in Threads \ {t} : thr'[u] = thr[u]
         /\ StepsLeft(thr'[t]) < StepsLeft(thr[t])
<1>1. /\ thr \in [Threads -> Records] /\ thr[t] \in Records /\ thr'[t] \in Records
      /\ Retrying /\ interrupts > 0
  BY DEF TypeOK, Records, Pcs, ShutdownSet
<1> DEFINE Nearer == /\ \A u \in Threads \ {t} : thr'[u] = thr[u]
                     /\ StepsLeft(thr'[t]) < StepsLeft(thr[t])
<1> SUFFICES Nearer
  OBVIOUS
<1>2. ASSUME NEW x, Becomes(t, x), StepsLeft(x) < StepsLeft(thr[t]) PROVE Nearer
  BY <1>1, <1>2, BecomesOne
<1>3. ASSUME NEW x, Becomes(t, x) PROVE x \in Records
  BY <1>1, <1>3, BecomesOne
<1>4. ASSUME NEW x, Becomes(t, x), x.attempt = thr[t].attempt,
             thr[t].pc \notin Outside, x.pc \notin Outside, Left[x.pc] < Left[thr[t].pc]
      PROVE  Nearer
  BY <1>1, <1>2, <1>3, <1>4, LaterIsNearer
<1> HIDE DEF Nearer
<1>5. CASE LoopTop(t)
  <2> DEFINE x == [thr[t] EXCEPT !.pc = "exited"]
  <2>1. Becomes(t, x) /\ thr[t].pc = "loop"
    BY <1>1, <1>5 DEF LoopTop, Goes, At
  <2>2. x.pc = "exited"
    BY <1>1 DEF Records
  <2> HIDE DEF x
  <2>3. StepsLeft(x) = 0 /\ StepsLeft(thr[t]) = 1
    BY <2>1, <2>2 DEF StepsLeft, Left, Outside, Gone
  <2> QED
    BY <1>2, <2>1, <2>3
<1>6. CASE SlotAcquired(t)
  <2> DEFINE x == [thr[t] EXCEPT !.pc = "getconn", !.slot = TRUE]
  <2>1. Becomes(t, x) /\ thr[t].pc = "acquire"
    BY <1>1, <1>6 DEF SlotAcquired, At
  <2>2. x.pc = "getconn" /\ x.attempt = thr[t].attempt
    BY <1>1 DEF Records
  <2> HIDE DEF x
  <2> QED
    BY <1>4, <2>1, <2>2 DEF Left, Outside, Gone
<1>7. CASE ConnTaken(t)
  <2> DEFINE x == [thr[t] EXCEPT !.pc = "query", !.conn = TRUE]
  <2>1. Becomes(t, x) /\ thr[t].pc = "getconn"
    BY <1>1, <1>7 DEF ConnTaken, At
  <2>2. x.pc = "query" /\ x.attempt = thr[t].attempt
    BY <1>1 DEF Records
  <2> HIDE DEF x
  <2> QED
    BY <1>4, <2>1, <2>2 DEF Left, Outside, Gone
<1>8. CASE SlotTimesOut(t) \/ ConnRefused(t)
  <2> DEFINE x == [thr[t] EXCEPT !.pc = "release", !.fault = "retryable"]
  <2>1. Becomes(t, x) /\ thr[t].pc \in {"acquire", "getconn"}
    BY <1>1, <1>8 DEF SlotTimesOut, ConnRefused, At
  <2>2. x.pc = "release" /\ x.attempt = thr[t].attempt
    BY <1>1 DEF Records
  <2> HIDE DEF x
  <2> QED
    BY <1>4, <2>1, <2>2 DEF Left, Outside, Gone
<1>9. CASE QueryEnds(t)
  <2> DEFINE x == [thr[t] EXCEPT !.pc = "putback"]
             y == [thr[t] EXCEPT !.pc = "discard", !.fault = "retryable"]
             z == [thr[t] EXCEPT !.pc = "putback", !.fault = "other"]
  <2>1. thr[t].pc = "query" /\ (Becomes(t, x) \/ Becomes(t, y) \/ Becomes(t, z))
    BY <1>9 DEF QueryEnds, Goes, At
  <2>2. /\ x.pc = "putback" /\ x.attempt = thr[t].attempt
        /\ y.pc = "discard" /\ y.attempt = thr[t].attempt
        /\ z.pc = "putback" /\ z.attempt = thr[t].attempt
    BY <1>1 DEF Records
  <2> HIDE DEF x, y, z
  <2> QED
    BY <1>4, <2>1, <2>2 DEF Left, Outside, Gone
<1>10. CASE Discarded(t) \/ PutBackSucceeds(t) \/ PutBackFails(t)
  <2> DEFINE x(f) == [thr[t] EXCEPT !.pc = "release", !.conn = FALSE, !.fault = f]
             z == [thr[t] EXCEPT !.pc = "release", !.conn = FALSE]
  <2>1. /\ thr[t].pc \in {"putback", "discard"}
        /\ Becomes(t, z) \/ \E f \in {"retryable", "other"} : Becomes(t, x(f))
    BY <1>1, <1>10 DEF Discarded, PutBackSucceeds, PutBackFails, PutconnRaises, At
  <2>2. \A f : x(f).pc = "release" /\ x(f).attempt = thr[t].attempt
    BY <1>1 DEF Records
  <2>3. z.pc = "release" /\ z.attempt = thr[t].attempt
    BY <1>1 DEF Records
  <2> HIDE DEF x, z
  <2>4. PICK y : Becomes(t, y) /\ y.pc = "release" /\ y.attempt = thr[t].attempt
    BY <2>1, <2>2, <2>3
  <2> QED
    BY <1>4, <2>1, <2>4 DEF Left, Outside, Gone
<1>11. CASE Released(t)
  <2> DEFINE x == [thr[t] EXCEPT !.pc = IF Retries(t) THEN "backoff" ELSE "loop",
                                 !.attempt = IF Retries(t) THEN @ ELSE 1,
                                 !.slot = FALSE, !.fault = "none"]
  <2>1. Becomes(t, x) /\ thr[t].pc = "release"
    BY <1>11 DEF Released, At
  <2>2. IF Retries(t) THEN x.pc = "backoff" /\ x.attempt = thr[t].attempt ELSE x.pc = "loop"
    BY <1>1 DEF Records
  <2> HIDE DEF x
  <2>3. CASE Retries(t)
    BY <1>4, <2>1, <2>2, <2>3 DEF Left, Outside, Gone
  <2>4. CASE ~Retries(t)
    <3>1. x.pc \in Outside /\ thr[t].pc \notin Outside
      BY <2>1, <2>2, <2>4 DEF Outside, Gone
    <3> QED
      BY <1>1, <1>2, <1>3, <2>1, <3>1, EndIsNearer
  <2> QED
    BY <2>3, <2>4
<1>12. CASE BackoffEnds(t)
  <2> DEFINE x == [thr[t] EXCEPT !.pc = "acquire",
                                 !.attempt = IF @ < MaxAttempts THEN @ + 1 ELSE @]
  <2>1. thr[t].pc = "backoff" /\ thr[t].attempt < MaxAttempts
    BY <1>12 DEF BackoffEnds, At, BackoffInv
  <2>2. Becomes(t, x)
    BY <1>12 DEF BackoffEnds
  <2>3. x.pc = "acquire" /\ x.attempt = thr[t].attempt + 1
    BY <1>1, <2>1 DEF Records
  <2> HIDE DEF x
  <2> QED
    BY <1>1, <1>2, <1>3, <2>1, <2>2, <2>3, RetryIsNearer
<1> QED
  BY <1>5, <1>6, <1>7, <1>8, <1>9, <1>10, <1>11, <1>12 DEF ThreadSteps

\* Nobody enters the back-off of the last attempt.
LEMMA BackoffStep == TypeOK /\ BackoffInv /\ [Next]_vars => BackoffInv'
<1> SUFFICES ASSUME TypeOK, BackoffInv, [Next]_vars, NEW u \in Threads
             PROVE  thr'[u].pc = "backoff" => thr'[u].attempt < MaxAttempts
  BY DEF BackoffInv
<1>1. thr \in [Threads -> Records]
  BY DEF TypeOK, Records, Pcs
<1> DEFINE Good(x) == x.pc = "backoff" => x.attempt < MaxAttempts
<1>2. Good(thr[u])
  BY DEF BackoffInv
<1>3. ASSUME NEW t \in Threads, NEW x, Becomes(t, x), Good(x) PROVE Good(thr'[u])
  <2>1. thr'[u] = x \/ thr'[u] = thr[u]
    BY <1>1, <1>3, BecomesOne
  <2> QED
    BY <1>2, <1>3, <2>1
<1>4. ASSUME NEW t \in Threads, Released(t) PROVE Good(thr'[u])
  <2> DEFINE x == [thr[t] EXCEPT !.pc = IF Retries(t) THEN "backoff" ELSE "loop",
                                 !.attempt = IF Retries(t) THEN @ ELSE 1,
                                 !.slot = FALSE, !.fault = "none"]
  <2>1. Becomes(t, x)
    BY <1>4 DEF Released
  <2>2. x.pc = (IF Retries(t) THEN "backoff" ELSE "loop")
        /\ x.attempt = (IF Retries(t) THEN thr[t].attempt ELSE 1)
    BY <1>1 DEF Records
  <2>3. Good(x)
    BY <2>2 DEF Retries
  <2> QED
    BY <1>3, <2>1, <2>3
<1>5. ASSUME NEW t \in Threads, NEW x, Becomes(t, x), x.pc # "backoff" PROVE Good(thr'[u])
  BY <1>3, <1>5
<1> HIDE DEF Good
<1>6. ASSUME NEW t \in Threads,
             \/ LoopTop(t) \/ SlotAcquired(t) \/ SlotTimesOut(t) \/ ConnTaken(t)
             \/ ConnRefused(t) \/ QueryEnds(t) \/ BackoffEnds(t) \/ ThreadStarted(t)
             \/ Discarded(t) \/ PutBackSucceeds(t) \/ PutBackFails(t)
      PROVE  Good(thr'[u])
  <2>1. PICK x : Becomes(t, x)
    BY <1>6
       DEF LoopTop, SlotAcquired, SlotTimesOut, ConnTaken, ConnRefused, QueryEnds,
           BackoffEnds, ThreadStarted, Discarded, PutBackSucceeds, PutBackFails,
           PutconnRaises, Goes
  <2>2. thr'[t] = x
    BY <1>1, <2>1, BecomesOne
  <2>3. CASE LoopTop(t) \/ SlotAcquired(t) \/ SlotTimesOut(t) \/ ConnTaken(t) \/ ConnRefused(t)
    <3> SUFFICES thr'[t].pc # "backoff"
      BY <1>5, <2>1, <2>2
    <3>1. CASE LoopTop(t)
      BY <1>1, <3>1 DEF LoopTop, Goes, Becomes, Records
    <3>2. CASE SlotAcquired(t)
      BY <1>1, <3>2 DEF SlotAcquired, Becomes, Records
    <3>3. CASE SlotTimesOut(t)
      BY <1>1, <3>3 DEF SlotTimesOut, Becomes, Records
    <3>4. CASE ConnTaken(t) \/ ConnRefused(t)
      <4>1. \/ Becomes(t, [thr[t] EXCEPT !.pc = "query", !.conn = TRUE])
            \/ Becomes(t, [thr[t] EXCEPT !.pc = "release", !.fault = "retryable"])
        BY <3>4 DEF ConnTaken, ConnRefused
      <4> QED
        BY <1>1, <4>1 DEF Becomes, Records
    <3> QED
      BY <2>3, <3>1, <3>2, <3>3, <3>4
  <2>4. CASE QueryEnds(t) \/ BackoffEnds(t) \/ ThreadStarted(t)
    <3>1. thr'[t].pc # "backoff"
      BY <1>1, <2>4 DEF QueryEnds, BackoffEnds, ThreadStarted, Goes, Becomes, Records
    <3> QED
      BY <1>5, <2>1, <2>2, <3>1
  <2>5. CASE Discarded(t) \/ PutBackSucceeds(t) \/ PutBackFails(t)
    <3> SUFFICES thr'[t].pc # "backoff"
      BY <1>5, <2>1, <2>2
    <3>1. CASE Discarded(t)
      <4>1. CASE PutconnRaises(t, "retryable")
        BY <1>1, <4>1 DEF PutconnRaises, Becomes, Records
      <4>2. CASE Becomes(t, [thr[t] EXCEPT !.pc = "release", !.conn = FALSE])
        BY <1>1, <4>2 DEF Becomes, Records
      <4> QED
        BY <3>1, <4>1, <4>2 DEF Discarded
    <3>2. CASE PutBackSucceeds(t)
      BY <1>1, <3>2 DEF PutBackSucceeds, Becomes, Records
    <3>3. CASE PutBackFails(t)
      BY <1>1, <3>3 DEF PutBackFails, PutconnRaises, Becomes, Records
    <3> QED
      BY <2>5, <3>1, <3>2, <3>3
  <2> QED
    BY <1>6, <2>3, <2>4, <2>5
<1>7. ASSUME MainSteps \/ CtrlC \/ Finished \/ UNCHANGED vars PROVE thr' = thr
  BY <1>7 DEF MainSteps, PoolCreated, Joined, PoolClosed, CtrlC, Finished, vars
<1>8. Good(thr'[u])
  BY <1>2, <1>4, <1>6, <1>7 DEF Next, ThreadSteps
<1> QED
  BY <1>8 DEF Good

\* Retry_Pool_Demo.py: once Ctrl-C has set the event, every call a worker returns
\* from brings it nearer to its end, retries and back-offs included.
THEOREM WorkersAlwaysRunDown == Spec => WorkersRunDown
<1>1. Init => BackoffInv
  BY DEF Init, NewThread, BackoffInv
<1>2. IInv /\ BackoffInv /\ [Next]_vars =>
        [\A t \in Threads : ShutdownSet /\ thr'[t] # thr[t]
                              => StepsLeft(thr'[t]) < StepsLeft(thr[t])]_vars
  <2> SUFFICES ASSUME IInv, BackoffInv, [Next]_vars, NEW t \in Threads, ShutdownSet,
                      thr'[t] # thr[t]
               PROVE  StepsLeft(thr'[t]) < StepsLeft(thr[t])
    OBVIOUS
  <2>1. TypeOK /\ thr \in [Threads -> Records]
    BY DEF IInv, TypeOK, Records, Pcs
  <2>2. ASSUME NEW u \in Threads, ThreadSteps(u)
        PROVE  StepsLeft(thr'[t]) < StepsLeft(thr[t])
    <3>1. TypeOK'
      BY NextKeeps DEF IInv
    <3>2. /\ \A w \in Threads \ {u} : thr'[w] = thr[w]
          /\ StepsLeft(thr'[u]) < StepsLeft(thr[u])
      BY <2>1, <2>2, <3>1, StepUsesUp
    <3> QED
      BY <3>1, <3>2
  <2>3. ~(\E u \in Threads : ThreadStarted(u))
    BY DEF ThreadStarted, ShutdownSet, IInv, MainInv, TypeOK
  <2>4. ~MainSteps /\ ~CtrlC /\ ~Finished /\ ~UNCHANGED vars
    BY DEF MainSteps, PoolCreated, Joined, PoolClosed, CtrlC, Finished, vars
  <2> QED
    BY <2>2, <2>3, <2>4 DEF Next
<1>3. IInv => TypeOK
  BY DEF IInv
<1> QED
  BY <1>1, <1>2, <1>3, BackoffStep, Invariant, PTL DEF Spec, WorkersRunDown
=============================================================================
