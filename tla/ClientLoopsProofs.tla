-------------------------- MODULE ClientLoopsProofs --------------------------
(***************************************************************************)
(* Theorems about ClientLoops, for every number of tasks and iterations,   *)
(* pool size and server.                                                   *)
(***************************************************************************)
EXTENDS ClientLoops, Counting

USE LoopTasksAssumption, SizesAssumption

Pcs == Ended \cup {"check", "connect", "query", "get", "create", "print"}
TaskRecords == [pc : Pcs, over : BOOLEAN, session : {"none", "live", "dead"},
                permit : BOOLEAN, good : Nat, bad : Nat]
IdleRecords == [live : Nat, dead : Nat, closed : Nat]
IdleTotal == idle.live + idle.dead + idle.closed

(***************************************************************************)
(* The strengthening: which programs get to which call, and that a task at *)
(* a pooled query has a session to give back.                              *)
(***************************************************************************)
Placed(r) ==
  /\ r.permit <=> Pooled /\ r.pc \in {"create", "query"}
  /\ r.pc = "connect" => ~Pooled
  /\ r.pc \in {"get", "create", "print"} => Pooled
  /\ Pooled /\ r.pc = "query" => r.session \in {"live", "dead"}

LoopsInv ==
  /\ LoopsTypeOK
  /\ PermitsBalance
  /\ \A t \in LoopTasks : Placed(task[t])

\* A task that becomes r: how many hold a permit.
LEMMA SetCounts ==
  ASSUME LoopsTypeOK, NEW t \in LoopTasks, NEW r \in TaskRecords, Set(t, r)
  PROVE  /\ task[t] \in TaskRecords
         /\ task' \in [LoopTasks -> TaskRecords] /\ task'[t] = r
         /\ \A u \in LoopTasks \ {t} : task'[u] = task[u]
         /\ Cardinality(Holding) \in Nat /\ Cardinality(Holding') \in Nat
         /\ Cardinality(Holding') = Cardinality(Holding)
              + (IF r.permit THEN 1 ELSE 0) - (IF task[t].permit THEN 1 ELSE 0)
<1>1. task \in [LoopTasks -> TaskRecords] /\ task' = [task EXCEPT ![t] = r]
  BY DEF LoopsTypeOK, TaskRecords, Pcs, Set
<1>2. /\ task[t] \in TaskRecords /\ task' \in [LoopTasks -> TaskRecords] /\ task'[t] = r
      /\ \A u \in LoopTasks \ {t} : task'[u] = task[u]
  BY <1>1
<1>3. /\ Holding \in SUBSET LoopTasks /\ Holding' \in SUBSET LoopTasks
      /\ \A u \in LoopTasks \ {t} : u \in Holding' <=> u \in Holding
      /\ t \in Holding <=> task[t].permit
      /\ t \in Holding' <=> r.permit
  BY <1>2 DEF Holding
<1>4. /\ Cardinality(Holding) \in Nat /\ Cardinality(Holding') \in Nat
      /\ Cardinality(Holding') = Cardinality(Holding)
           + (IF r.permit THEN 1 ELSE 0) - (IF task[t].permit THEN 1 ELSE 0)
  BY <1>3, CountStep
<1> QED
  BY <1>2, <1>4

\* A task that becomes r, takes or gives its permit, and leaves no more idle
\* connections than the pool has places, keeps the invariant.
LEMMA TaskStepKeeps ==
  ASSUME LoopsInv, NEW t \in LoopTasks, NEW r \in TaskRecords, Set(t, r), Placed(r),
         UNCHANGED <<client, main, shown, restarts>>,
         count' \in [ok : Nat, err : Nat], draining' \in Nat,
         permits' \in Nat,
         permits' = permits + (IF task[t].permit THEN 1 ELSE 0) - (IF r.permit THEN 1 ELSE 0),
         idle' \in IdleRecords,
         IdleTotal' <= IdleTotal + (IF task[t].permit THEN 1 ELSE 0)
                                 - (IF r.permit THEN 1 ELSE 0)
           \/ IdleTotal' = 0
  PROVE  LoopsInv'
<1> USE DEF LoopsInv
<1>1. /\ task[t] \in TaskRecords
      /\ task' \in [LoopTasks -> TaskRecords] /\ task'[t] = r
      /\ \A u \in LoopTasks \ {t} : task'[u] = task[u]
      /\ Cardinality(Holding) \in Nat /\ Cardinality(Holding') \in Nat
      /\ Cardinality(Holding') = Cardinality(Holding)
           + (IF r.permit THEN 1 ELSE 0) - (IF task[t].permit THEN 1 ELSE 0)
  BY SetCounts
<1>2. /\ permits \in Nat /\ permits + Cardinality(Holding) = PoolSize
      /\ IdleTotal \in Nat /\ IdleTotal + Cardinality(Holding) <= PoolSize
      /\ IdleTotal' \in Nat
  BY DEF LoopsTypeOK, PermitsBalance, IdleTotal, IdleRecords
<1>3. permits' + Cardinality(Holding') = PoolSize
  BY <1>1, <1>2
<1>4. IdleTotal' + Cardinality(Holding') <= PoolSize
  BY <1>1, <1>2, <1>3
<1>5. LoopsTypeOK'
  BY <1>1, <1>3 DEF LoopsTypeOK, TaskRecords, Pcs, IdleRecords
<1>6. \A u \in LoopTasks : Placed(task[u])'
  BY <1>1 DEF Placed, Pooled
<1> QED
  BY <1>3, <1>4, <1>5, <1>6 DEF PermitsBalance, Placed, IdleTotal

-----------------------------------------------------------------------------
\* Every await of a task, and the running out of its clock.
LEMMA TaskMovesKeep ==
  ASSUME LoopsInv, NEW t \in LoopTasks, TaskMoves(t) \/ TimePasses(t)
  PROVE  LoopsInv'
<1>1. /\ task[t] \in TaskRecords /\ Placed(task[t])
      /\ count \in [ok : Nat, err : Nat] /\ draining \in Nat
      /\ permits \in Nat /\ idle \in IdleRecords /\ IdleTotal \in Nat
      /\ task[t].good + 1 \in Nat /\ task[t].bad + 1 \in Nat
  BY DEF LoopsInv, LoopsTypeOK, TaskRecords, Pcs, IdleRecords, IdleTotal
<1>2. ASSUME NEW r \in TaskRecords, Set(t, r), Placed(r),
             r.permit <=> task[t].permit,
             UNCHANGED <<client, main, shown, restarts, permits, idle>>,
             count' \in [ok : Nat, err : Nat], draining' \in Nat
      PROVE  LoopsInv'
  <2>1. IdleTotal' = IdleTotal
    BY <1>2 DEF IdleTotal
  <2> QED
    BY <1>1, <1>2, <2>1, TaskStepKeeps
<1>3. ASSUME ClockChecked(t) PROVE LoopsInv'
  <2>1. PICK r \in { [task[t] EXCEPT !.pc = "done"],
                     [task[t] EXCEPT !.pc = "connect"] } : Set(t, r)
    BY <1>3 DEF ClockChecked
  <2>2. r \in TaskRecords /\ Placed(r) /\ (r.permit <=> task[t].permit)
    BY <1>1, <1>3, <2>1 DEF ClockChecked, In, TaskRecords, Pcs, Ended, Placed, Pooled
  <2>3. /\ UNCHANGED <<client, main, shown, restarts, permits, idle>>
        /\ count' \in [ok : Nat, err : Nat] /\ draining' \in Nat
    BY <1>1, <1>3 DEF ClockChecked, mainState, poolState
  <2> QED
    BY <1>2, <2>1, <2>2, <2>3
<1>4. ASSUME ConnectionReady(t) PROVE LoopsInv'
  <2>1. PICK r \in { [task[t] EXCEPT !.pc = "check", !.good = @ + 1],
                     [task[t] EXCEPT !.pc = "query", !.session = "live"] } : Set(t, r)
    BY <1>4 DEF ConnectionReady
  <2>2. r \in TaskRecords /\ Placed(r) /\ (r.permit <=> task[t].permit)
    BY <1>1, <1>4, <2>1 DEF ConnectionReady, In, TaskRecords, Pcs, Ended, Placed, Pooled
  <2>3. /\ UNCHANGED <<client, main, shown, restarts, permits, idle>>
        /\ count' \in [ok : Nat, err : Nat] /\ draining' \in Nat
    BY <1>1, <1>4 DEF ConnectionReady, mainState, poolState
  <2> QED
    BY <1>2, <2>1, <2>2, <2>3
<1>5. ASSUME ConnectRefused(t) PROVE LoopsInv'
  <2> DEFINE r == [task[t] EXCEPT !.pc = "check", !.bad = @ + 1]
  <2>1. r \in TaskRecords /\ Set(t, r) /\ Placed(r) /\ (r.permit <=> task[t].permit)
    BY <1>1, <1>5 DEF ConnectRefused, In, TaskRecords, Pcs, Ended, Placed, Pooled
  <2>2. /\ UNCHANGED <<client, main, shown, restarts, permits, idle>>
        /\ count' \in [ok : Nat, err : Nat] /\ draining' \in Nat
    BY <1>1, <1>5 DEF ConnectRefused, mainState, poolState
  <2> HIDE DEF r
  <2> QED
    BY <1>2, <2>1, <2>2
<1>6. ASSUME SelectEnds(t) PROVE LoopsInv'
  <2>1. PICK r \in { [task[t] EXCEPT !.pc = "check", !.session = "none", !.good = @ + 1],
                     [task[t] EXCEPT !.pc = "check", !.session = "none", !.bad = @ + 1] } : Set(t, r)
    BY <1>6 DEF SelectEnds
  <2>2. r \in TaskRecords /\ Placed(r) /\ (r.permit <=> task[t].permit)
    BY <1>1, <1>6, <2>1 DEF SelectEnds, In, TaskRecords, Pcs, Ended, Placed, Pooled
  <2>3. /\ UNCHANGED <<client, main, shown, restarts, permits, idle>>
        /\ count' \in [ok : Nat, err : Nat] /\ draining' \in Nat
    BY <1>1, <1>6 DEF SelectEnds, mainState, poolState
  <2> QED
    BY <1>2, <2>1, <2>2, <2>3
<1>7. ASSUME TimePasses(t) PROVE LoopsInv'
  <2> DEFINE r == [task[t] EXCEPT !.over = TRUE]
  <2>1. r \in TaskRecords /\ Set(t, r) /\ Placed(r) /\ (r.permit <=> task[t].permit)
    BY <1>1, <1>7 DEF TimePasses, In, TaskRecords, Pcs, Ended, Placed, Pooled
  <2>2. /\ UNCHANGED <<client, main, shown, restarts, permits, idle>>
        /\ count' \in [ok : Nat, err : Nat] /\ draining' \in Nat
    BY <1>1, <1>7 DEF TimePasses, mainState, poolState
  <2> HIDE DEF r
  <2> QED
    BY <1>2, <2>1, <2>2
<1>8. ASSUME NextIteration(t) PROVE LoopsInv'
  <2> DEFINE r == [task[t] EXCEPT !.pc = IF Tries(t) < Iterations THEN "get" ELSE "done"]
  <2>1. r \in TaskRecords /\ Set(t, r) /\ Placed(r) /\ (r.permit <=> task[t].permit)
    BY <1>1, <1>8 DEF NextIteration, In, TaskRecords, Pcs, Ended, Placed, Pooled
  <2>2. /\ UNCHANGED <<client, main, shown, restarts, permits, idle>>
        /\ count' \in [ok : Nat, err : Nat] /\ draining' \in Nat
    BY <1>1, <1>8 DEF NextIteration, mainState, poolState
  <2> HIDE DEF r
  <2> QED
    BY <1>2, <2>1, <2>2
<1>9. ASSUME Created(t) PROVE LoopsInv'
  <2> DEFINE r == [task[t] EXCEPT !.pc = "query", !.session = "live"]
  <2>1. r \in TaskRecords /\ Set(t, r) /\ Placed(r) /\ (r.permit <=> task[t].permit)
    BY <1>1, <1>9 DEF Created, In, TaskRecords, Pcs, Ended, Placed, Pooled
  <2>2. /\ UNCHANGED <<client, main, shown, restarts, permits, idle>>
        /\ count' \in [ok : Nat, err : Nat] /\ draining' \in Nat
    BY <1>1, <1>9 DEF Created, mainState, poolState
  <2> HIDE DEF r
  <2> QED
    BY <1>2, <2>1, <2>2
<1>10. ASSUME RowsPrinted(t) PROVE LoopsInv'
  <2>1. PICK r \in { [task[t] EXCEPT !.pc = "check", !.good = @ + 1],
                     [task[t] EXCEPT !.pc = "panicked", !.good = @ + 1] } : Set(t, r)
    BY <1>10 DEF RowsPrinted
  <2>2. r \in TaskRecords /\ Placed(r) /\ (r.permit <=> task[t].permit)
    BY <1>1, <1>10, <2>1 DEF RowsPrinted, In, TaskRecords, Pcs, Ended, Placed, Pooled
  <2>3. /\ UNCHANGED <<client, main, shown, restarts, permits, idle>>
        /\ count' \in [ok : Nat, err : Nat] /\ draining' \in Nat
    BY <1>1, <1>10 DEF RowsPrinted, mainState, poolState
  <2> QED
    BY <1>2, <2>1, <2>2, <2>3
<1>11. ASSUME Recycled(t) PROVE LoopsInv'
  <2>1. PICK s \in {"live", "dead"}, junk \in 0 .. idle.closed :
          /\ idle[s] > 0
          /\ idle' = [idle EXCEPT ![s] = @ - 1, !.closed = @ - junk]
          /\ Set(t, [task[t] EXCEPT !.pc = "query", !.session = s, !.permit = TRUE])
    BY <1>11 DEF Recycled
  <2> DEFINE r == [task[t] EXCEPT !.pc = "query", !.session = s, !.permit = TRUE]
  <2>2. /\ r \in TaskRecords /\ Set(t, r) /\ Placed(r) /\ r.permit /\ ~task[t].permit
        /\ permits > 0 /\ permits' = permits - 1
        /\ UNCHANGED <<client, main, shown, restarts, count, draining>>
    BY <1>1, <1>11, <2>1 DEF Recycled, In, mainState, TaskRecords, Pcs, Placed, Pooled
  <2>3. idle' \in IdleRecords /\ IdleTotal' <= IdleTotal - 1
    <3>0. /\ idle.live \in Nat /\ idle.dead \in Nat /\ idle.closed \in Nat
          /\ junk \in Nat /\ idle.closed - junk \in Nat
      BY <1>1 DEF IdleRecords
    <3>1. CASE s = "live"
      <4>1. idle' = [live |-> idle.live - 1, dead |-> idle.dead, closed |-> idle.closed - junk]
        BY <1>1, <2>1, <3>1 DEF IdleRecords
      <4>2. idle.live > 0
        BY <2>1, <3>1
      <4>3. idle.live - 1 \in Nat
        BY <3>0, <4>2
      <4> QED
        BY <3>0, <4>1, <4>3 DEF IdleRecords, IdleTotal
    <3>2. CASE s = "dead"
      <4>1. idle' = [live |-> idle.live, dead |-> idle.dead - 1, closed |-> idle.closed - junk]
        BY <1>1, <2>1, <3>2 DEF IdleRecords
      <4>2. idle.dead > 0
        BY <2>1, <3>2
      <4>3. idle.dead - 1 \in Nat
        BY <3>0, <4>2
      <4> QED
        BY <3>0, <4>1, <4>3 DEF IdleRecords, IdleTotal
    <3> QED
      BY <3>1, <3>2
  <2> HIDE DEF r
  <2> QED
    BY <1>1, <2>2, <2>3, TaskStepKeeps
<1>12. ASSUME NothingIdle(t) PROVE LoopsInv'
  <2> DEFINE r == [task[t] EXCEPT !.pc = "create", !.permit = TRUE]
  <2>1. /\ r \in TaskRecords /\ Set(t, r) /\ Placed(r) /\ r.permit /\ ~task[t].permit
        /\ permits > 0 /\ permits' = permits - 1
        /\ UNCHANGED <<client, main, shown, restarts, count, draining>>
    BY <1>1, <1>12 DEF NothingIdle, In, mainState, TaskRecords, Pcs, Placed, Pooled
  <2>2. idle' \in IdleRecords /\ IdleTotal' = 0
    BY <1>1, <1>12 DEF NothingIdle, IdleRecords, IdleTotal
  <2> HIDE DEF r
  <2> QED
    BY <1>1, <2>1, <2>2, TaskStepKeeps
<1>13. ASSUME CreateFails(t) PROVE LoopsInv'
  <2> DEFINE r == [task[t] EXCEPT !.pc = "check", !.permit = FALSE, !.bad = @ + 1]
  <2>1. /\ r \in TaskRecords /\ Set(t, r) /\ Placed(r) /\ ~r.permit /\ task[t].permit
        /\ permits' = permits + 1 /\ idle' = idle
        /\ UNCHANGED <<client, main, shown, restarts, count, draining>>
    BY <1>1, <1>13 DEF CreateFails, In, mainState, TaskRecords, Pcs, Placed, Pooled
  <2>2. IdleTotal' = IdleTotal
    BY <2>1 DEF IdleTotal
  <2> HIDE DEF r
  <2> QED
    BY <1>1, <2>1, <2>2, TaskStepKeeps
<1>14. ASSUME NEW r \in TaskRecords, Set(t, r), Placed(r), ~r.permit, GivenBack(t),
              Pooled, task[t].pc = "query",
              UNCHANGED <<client, main, shown, restarts, count, draining>>
       PROVE  LoopsInv'
  <2>1. task[t].permit /\ task[t].session \in {"live", "dead"}
    BY <1>1, <1>14 DEF Placed
  <2>2. idle' \in IdleRecords /\ IdleTotal' = IdleTotal + 1
    <3>1. CASE task[t].session = "live"
      <4>1. idle' = [live |-> idle.live + 1, dead |-> idle.dead, closed |-> idle.closed]
        BY <1>1, <1>14, <3>1 DEF GivenBack, IdleRecords
      <4> QED
        BY <1>1, <4>1 DEF IdleRecords, IdleTotal
    <3>2. CASE task[t].session = "dead"
      <4>1. idle' = [live |-> idle.live, dead |-> idle.dead + 1, closed |-> idle.closed]
        BY <1>1, <1>14, <3>2 DEF GivenBack, IdleRecords
      <4> QED
        BY <1>1, <4>1 DEF IdleRecords, IdleTotal
    <3> QED
      BY <2>1, <3>1, <3>2
  <2>3. permits' = permits + 1
    BY <1>14 DEF GivenBack
  <2> QED
    BY <1>1, <1>14, <2>1, <2>2, <2>3, TaskStepKeeps
<1>15. ASSUME RowsReturned(t) PROVE LoopsInv'
  <2> DEFINE r == [task[t] EXCEPT !.pc = "print", !.session = "none", !.permit = FALSE]
  <2>1. /\ r \in TaskRecords /\ Set(t, r) /\ Placed(r) /\ ~r.permit
        /\ GivenBack(t) /\ Pooled /\ task[t].pc = "query"
        /\ UNCHANGED <<client, main, shown, restarts, count, draining>>
    BY <1>1, <1>15 DEF RowsReturned, In, mainState, TaskRecords, Pcs, Placed
  <2> HIDE DEF r
  <2> QED
    BY <1>14, <2>1
<1>16. ASSUME QueryFails(t) PROVE LoopsInv'
  <2> DEFINE r == [task[t] EXCEPT !.pc = "check", !.session = "none", !.permit = FALSE,
                                  !.bad = @ + 1]
  <2>1. /\ r \in TaskRecords /\ Set(t, r) /\ Placed(r) /\ ~r.permit
        /\ GivenBack(t) /\ Pooled /\ task[t].pc = "query"
        /\ UNCHANGED <<client, main, shown, restarts, count, draining>>
    BY <1>1, <1>16 DEF QueryFails, In, mainState, TaskRecords, Pcs, Placed
  <2> HIDE DEF r
  <2> QED
    BY <1>14, <2>1
<1> QED
  BY <1>3, <1>4, <1>5, <1>6, <1>7, <1>8, <1>9, <1>10, <1>11, <1>12, <1>13, <1>15, <1>16
     DEF TaskMoves

-----------------------------------------------------------------------------
\* The tasks before their first step.
LEMMA LoopsInitInv == LoopsInit => LoopsInv
<1> SUFFICES ASSUME LoopsInit PROVE LoopsInv
  OBVIOUS
<1>1. NewTask \in TaskRecords /\ Placed(NewTask)
  BY DEF NewTask, TaskRecords, Pcs, Placed
<1>2. task = [t \in LoopTasks |-> NewTask] /\ task \in [LoopTasks -> TaskRecords]
  BY <1>1 DEF LoopsInit
<1>3. LoopsTypeOK
  BY <1>2 DEF LoopsInit, LoopsTypeOK, TaskRecords, Pcs
<1>4. \A t \in LoopTasks : Placed(task[t])
  BY <1>1, <1>2
<1>5. Holding = {}
  BY <1>2 DEF Holding, NewTask
<1>6. Cardinality(Holding) = 0
  BY <1>5, FS_EmptySet
<1>7. /\ permits = PoolSize /\ idle.live = 0 /\ idle.dead = 0 /\ idle.closed = 0
  BY DEF LoopsInit
<1> QED
  BY <1>3, <1>4, <1>6, <1>7 DEF LoopsInv, PermitsBalance, Placed

\* Steps that move no task: of main, of the drivers and of the clock.
LEMMA OthersKeep ==
  ASSUME LoopsInv, Reported \/ Drained \/ ClosedNoticed \/ LoopsOver \/ UNCHANGED loopVars
  PROVE  LoopsInv'
<1> USE DEF LoopsInv
<1>1. UNCHANGED <<client, task, count, permits, restarts>> /\ Holding' = Holding
  <2>1. UNCHANGED <<client, task, count, permits, restarts>>
    BY DEF Reported, Drained, ClosedNoticed, LoopsOver, loopVars, mainState, poolState
  <2> QED
    BY <2>1 DEF Holding
<1>2. count \in [ok : Nat, err : Nat] /\ idle \in IdleRecords /\ IdleTotal \in Nat
      /\ draining \in Nat /\ main \in {"join", "over"} /\ shown \in [ok : Nat, err : Nat]
  BY DEF LoopsTypeOK, IdleRecords, IdleTotal
<1>3. idle' \in IdleRecords /\ IdleTotal' = IdleTotal
  <2>1. CASE ClosedNoticed
    <3>1. idle' = [live |-> idle.live, dead |-> idle.dead - 1, closed |-> idle.closed + 1]
          /\ idle.dead > 0
      BY <1>2, <2>1 DEF ClosedNoticed, IdleRecords
    <3> QED
      BY <1>2, <3>1 DEF IdleRecords, IdleTotal
  <2>2. CASE ~ClosedNoticed
    <3>1. idle' = idle
      BY <2>2 DEF Reported, Drained, LoopsOver, loopVars, poolState
    <3> QED
      BY <1>2, <3>1 DEF IdleTotal
  <2> QED
    BY <2>1, <2>2
<1>4. draining' \in Nat
  BY <1>2 DEF Reported, Drained, ClosedNoticed, LoopsOver, loopVars
<1>5. main' \in {"join", "over"} /\ shown' \in [ok : Nat, err : Nat]
  BY <1>2 DEF Reported, Drained, ClosedNoticed, LoopsOver, loopVars, mainState
<1>6. LoopsTypeOK'
  BY <1>1, <1>2, <1>3, <1>4, <1>5 DEF LoopsTypeOK, IdleRecords
<1>7. \A t \in LoopTasks : Placed(task[t])'
  BY <1>1 DEF Placed, Pooled
<1> QED
  BY <1>1, <1>3, <1>6, <1>7 DEF PermitsBalance, Placed, IdleTotal

\* The server restarts: sessions die, nobody's permit moves.
LEMMA RestartKeeps ==
  ASSUME LoopsInv, Restarted
  PROVE  LoopsInv'
<1> USE DEF LoopsInv
<1> DEFINE After(t) == IF task[t].session = "live"
                         THEN [task[t] EXCEPT !.session = "dead"] ELSE task[t]
<1>1. /\ task' = [t \in LoopTasks |-> After(t)]
      /\ UNCHANGED <<client, main, shown, count, permits>>
      /\ draining' = 0 /\ restarts' = restarts + 1
  BY DEF Restarted, mainState
<1>2. task \in [LoopTasks -> TaskRecords]
  BY DEF LoopsTypeOK, TaskRecords, Pcs
<1>3. \A t \in LoopTasks :
        /\ After(t) \in TaskRecords
        /\ After(t).pc = task[t].pc /\ (After(t).permit <=> task[t].permit)
        /\ After(t).session \in {"live", "dead"} <=> task[t].session \in {"live", "dead"}
  BY <1>2 DEF TaskRecords
<1>4. task' \in [LoopTasks -> TaskRecords] /\ \A t \in LoopTasks : task'[t] = After(t)
  BY <1>1, <1>3
<1> HIDE DEF After
<1>5. \A t \in LoopTasks : Placed(task[t])'
  BY <1>1, <1>3, <1>4 DEF Placed, Pooled
<1>6. Holding' = Holding
  BY <1>3, <1>4 DEF Holding
<1>7. idle' \in IdleRecords /\ IdleTotal' = IdleTotal /\ IdleTotal \in Nat
  <2>1. idle' = [live |-> 0, dead |-> idle.dead + idle.live, closed |-> idle.closed]
        /\ idle \in IdleRecords
    BY DEF Restarted, LoopsTypeOK, IdleRecords
  <2> QED
    BY <2>1 DEF IdleRecords, IdleTotal
<1>8. LoopsTypeOK'
  BY <1>1, <1>4, <1>7 DEF LoopsTypeOK, TaskRecords, Pcs, IdleRecords
<1> QED
  BY <1>1, <1>5, <1>6, <1>7, <1>8 DEF PermitsBalance, Placed, IdleTotal

\* The invariant holds in every state of the four programs.
LEMMA LoopsInvariant == LoopsSpec => []LoopsInv
<1>1. LoopsInv /\ [LoopsNext]_loopVars => LoopsInv'
  BY TaskMovesKeep, OthersKeep, RestartKeeps DEF LoopsNext
<1> QED
  BY <1>1, LoopsInitInv, PTL DEF LoopsSpec

\* The Rust client programs: the variables keep their shape.
THEOREM LoopsTypesCorrect == LoopsSpec => []LoopsTypeOK
<1>1. LoopsInv => LoopsTypeOK
  BY DEF LoopsInv
<1> QED
  BY <1>1, LoopsInvariant, PTL

\* deadpool main.rs: whatever fails, every permit is free or held by a task at a
\* call of the pool or a query, and the pool never exceeds max_size.
THEOREM PermitsAlwaysBalance == LoopsSpec => []PermitsBalance
<1>1. LoopsInv => PermitsBalance
  BY DEF LoopsInv
<1> QED
  BY <1>1, LoopsInvariant, PTL

-----------------------------------------------------------------------------
(***************************************************************************)
(* What is reported.  A task of the deadpool demo is at a call only while  *)
(* it has an iteration left; a task of the others is done only when its    *)
(* clock has run out; of those only "select" queries.  The shared counters *)
(* are the sums of what the tasks did (module Counting), and what is shown *)
(* was read after the last of them.                                        *)
(***************************************************************************)
Good == [t \in LoopTasks |-> task[t].good]
Bad  == [t \in LoopTasks |-> task[t].bad]

Rounds(r) ==
  /\ Pooled =>
       /\ r.good + r.bad <= Iterations
       /\ r.pc \in {"get", "create", "query", "print"} => r.good + r.bad < Iterations
       /\ r.pc = "done" => r.good + r.bad = Iterations
  /\ ~Pooled =>
       /\ r.pc = "done" => r.over
       /\ r.pc # "panicked"
       /\ r.pc = "query" => client = "select"

Counted ==
  ~Pooled => /\ count.ok = SumFunction(Good)
             /\ count.err = IF client = "select" THEN 0 ELSE SumFunction(Bad)

FinalInv ==
  /\ \A t \in LoopTasks : Rounds(task[t])
  /\ Counted
  /\ main = "over" => AllEnded /\ shown = count

\* The history of a task that does d good and e bad attempts more, and the sums.
LEMMA RoundsCount ==
  ASSUME LoopsTypeOK, LoopsTypeOK', NEW t \in LoopTasks, NEW r \in TaskRecords, Set(t, r),
         NEW d \in Nat, NEW e \in Nat,
         r.good = task[t].good + d, r.bad = task[t].bad + e
  PROVE  /\ SumFunction(Good') = SumFunction(Good) + d
         /\ SumFunction(Bad') = SumFunction(Bad) + e
         /\ task'[t] = r /\ \A u \in LoopTasks \ {t} : task'[u] = task[u]
<1>1. /\ task \in [LoopTasks -> TaskRecords] /\ task' \in [LoopTasks -> TaskRecords]
      /\ task'[t] = r /\ \A u \in LoopTasks \ {t} : task'[u] = task[u]
  BY DEF LoopsTypeOK, TaskRecords, Pcs, Set
<1>2. \A u \in LoopTasks : /\ task[u].good \in Nat /\ task'[u].good \in Nat
                           /\ task[u].bad \in Nat /\ task'[u].bad \in Nat
  BY <1>1 DEF TaskRecords
<1>3. /\ Good \in [LoopTasks -> Nat] /\ Good' \in [LoopTasks -> Nat]
      /\ Bad \in [LoopTasks -> Nat] /\ Bad' \in [LoopTasks -> Nat]
  BY <1>2 DEF Good, Bad
<1>4. /\ Good'[t] = Good[t] + d /\ \A u \in LoopTasks \ {t} : Good'[u] = Good[u]
      /\ Bad'[t] = Bad[t] + e /\ \A u \in LoopTasks \ {t} : Bad'[u] = Bad[u]
  BY <1>1 DEF Good, Bad
<1>5. ASSUME NEW f \in [LoopTasks -> Nat], NEW g \in [LoopTasks -> Nat], NEW n \in Nat,
             g[t] = f[t] + n, \A u \in LoopTasks \ {t} : g[u] = f[u]
      PROVE  SumFunction(g) = SumFunction(f) + n
  <2>1. IsFiniteSet(LoopTasks) /\ n \in Int
    BY LoopTasksAssumption
  <2> QED
    BY <1>5, <2>1, SumChanges
<1>6. SumFunction(Good') = SumFunction(Good) + d
  <2> DEFINE f == Good
             g == Good'
  <2>1. f \in [LoopTasks -> Nat] /\ g \in [LoopTasks -> Nat]
        /\ g[t] = f[t] + d /\ \A u \in LoopTasks \ {t} : g[u] = f[u]
    BY <1>3, <1>4
  <2> HIDE DEF f, g
  <2>2. SumFunction(g) = SumFunction(f) + d
    BY <1>5, <2>1
  <2> QED
    BY <2>2 DEF f, g
<1>7. SumFunction(Bad') = SumFunction(Bad) + e
  <2> DEFINE f == Bad
             g == Bad'
  <2>1. f \in [LoopTasks -> Nat] /\ g \in [LoopTasks -> Nat]
        /\ g[t] = f[t] + e /\ \A u \in LoopTasks \ {t} : g[u] = f[u]
    BY <1>3, <1>4
  <2> HIDE DEF f, g
  <2>2. SumFunction(g) = SumFunction(f) + e
    BY <1>5, <2>1
  <2> QED
    BY <2>2 DEF f, g
<1> QED
  BY <1>1, <1>6, <1>7

\* A step of a task that counts what it did.
LEMMA CountedStep ==
  ASSUME LoopsTypeOK, LoopsTypeOK', FinalInv,
         NEW t \in LoopTasks, NEW r \in TaskRecords, Set(t, r), Rounds(r),
         NEW d \in Nat, NEW e \in Nat,
         r.good = task[t].good + d, r.bad = task[t].bad + e,
         main = "join", UNCHANGED <<client, main>>,
         ~Pooled => /\ count'.ok = count.ok + d
                    /\ count'.err = count.err + IF client = "select" THEN 0 ELSE e
  PROVE  FinalInv'
<1>1. /\ SumFunction(Good') = SumFunction(Good) + d
      /\ SumFunction(Bad') = SumFunction(Bad) + e
      /\ task'[t] = r /\ \A u \in LoopTasks \ {t} : task'[u] = task[u]
  BY RoundsCount
<1>2. \A u \in LoopTasks : Rounds(task[u])'
  BY <1>1 DEF FinalInv, Rounds, Pooled
<1>3. Counted'
  <2>1. ~Pooled => /\ count'.ok = SumFunction(Good) + d
                   /\ count'.err = IF client = "select" THEN 0 ELSE SumFunction(Bad) + e
    BY DEF FinalInv, Counted
  <2> QED
    BY <1>1, <2>1 DEF Counted, Pooled
<1> QED
  BY <1>2, <1>3 DEF FinalInv

\* Every await of a task, and the running out of its clock.
LEMMA TaskMovesCount ==
  ASSUME LoopsInv, LoopsTypeOK', FinalInv,
         NEW t \in LoopTasks, TaskMoves(t) \/ TimePasses(t)
  PROVE  FinalInv'
<1>1. /\ task[t] \in TaskRecords /\ Placed(task[t]) /\ Rounds(task[t])
      /\ count \in [ok : Nat, err : Nat] /\ LoopsTypeOK
      /\ task[t].good \in Nat /\ task[t].bad \in Nat /\ Iterations \in Nat
      /\ task[t].good + 1 \in Nat /\ task[t].bad + 1 \in Nat
  BY SizesAssumption DEF LoopsInv, LoopsTypeOK, TaskRecords, Pcs, FinalInv
<1>2. UNCHANGED <<client, main>> /\ main = "join"
  BY DEF TaskMoves, ClockChecked, ConnectionReady, ConnectRefused, SelectEnds, NextIteration,
         Recycled, NothingIdle, Created, CreateFails, RowsReturned, QueryFails, RowsPrinted,
         TimePasses, In, mainState
<1>3. ASSUME NEW r \in TaskRecords, Set(t, r), Rounds(r), count' = count,
             r.good = task[t].good, r.bad = task[t].bad
      PROVE  FinalInv'
  <2>1. /\ 0 \in Nat /\ r.good = task[t].good + 0 /\ r.bad = task[t].bad + 0
        /\ count'.ok = count.ok + 0
        /\ count'.err = count.err + IF client = "select" THEN 0 ELSE 0
    BY <1>1, <1>3
  <2> QED
    BY <1>1, <1>2, <1>3, <2>1, CountedStep
<1>4. ASSUME NEW r \in TaskRecords, Set(t, r), Rounds(r),
             ~Pooled => /\ count'.ok = count.ok + 1 /\ count'.err = count.err,
             r.good = task[t].good + 1, r.bad = task[t].bad
      PROVE  FinalInv'
  <2>1. /\ 0 \in Nat /\ 1 \in Nat /\ r.bad = task[t].bad + 0
        /\ ~Pooled => count'.err = count.err + IF client = "select" THEN 0 ELSE 0
    BY <1>1, <1>4
  <2> QED
    BY <1>1, <1>2, <1>4, <2>1, CountedStep
<1>5. ASSUME NEW r \in TaskRecords, Set(t, r), Rounds(r),
             ~Pooled => /\ count'.ok = count.ok
                        /\ count'.err = count.err + IF client = "select" THEN 0 ELSE 1,
             r.good = task[t].good, r.bad = task[t].bad + 1
      PROVE  FinalInv'
  <2>1. /\ 0 \in Nat /\ 1 \in Nat /\ r.good = task[t].good + 0
        /\ ~Pooled => count'.ok = count.ok + 0
    BY <1>1, <1>5
  <2> QED
    BY <1>1, <1>2, <1>5, <2>1, CountedStep
<1>6. ASSUME ClockChecked(t) PROVE FinalInv'
  <2>1. PICK r \in { [task[t] EXCEPT !.pc = "done"],
                     [task[t] EXCEPT !.pc = "connect"] } :
          Set(t, r) /\ (r.pc = "done" => task[t].over)
    BY <1>1, <1>6 DEF ClockChecked, TimeUp, TaskRecords
  <2>2. r \in TaskRecords /\ Rounds(r) /\ r.good = task[t].good /\ r.bad = task[t].bad
    BY <1>1, <1>6, <2>1 DEF ClockChecked, TaskRecords, Pcs, Ended, Rounds
  <2>3. count' = count
    BY <1>6 DEF ClockChecked
  <2> QED
    BY <1>3, <2>1, <2>2, <2>3
<1>7. ASSUME ConnectionReady(t) PROVE FinalInv'
  <2>0. ~Pooled
    BY <1>1, <1>7 DEF ConnectionReady, In, Placed
  <2>1. CASE client # "select"
    <3> DEFINE r == [task[t] EXCEPT !.pc = "check", !.good = @ + 1]
    <3>1. Set(t, r) /\ count' = [count EXCEPT !.ok = @ + 1]
      BY <1>7, <2>1 DEF ConnectionReady
    <3>2. /\ r \in TaskRecords /\ r.pc = "check"
          /\ r.good = task[t].good + 1 /\ r.bad = task[t].bad
      BY <1>1 DEF TaskRecords, Pcs
    <3>3. count'.ok = count.ok + 1 /\ count'.err = count.err
      BY <1>1, <3>1
    <3>4. Rounds(r)
      BY <2>0, <3>2 DEF Rounds
    <3> HIDE DEF r
    <3> QED
      BY <1>4, <3>1, <3>2, <3>3, <3>4
  <2>2. CASE client = "select"
    <3> DEFINE r == [task[t] EXCEPT !.pc = "query", !.session = "live"]
    <3>1. Set(t, r) /\ count' = count
      BY <1>7, <2>2 DEF ConnectionReady
    <3>2. r \in TaskRecords /\ r.pc = "query" /\ r.good = task[t].good /\ r.bad = task[t].bad
      BY <1>1 DEF TaskRecords, Pcs
    <3>3. Rounds(r)
      BY <2>0, <2>2, <3>2 DEF Rounds
    <3> HIDE DEF r
    <3> QED
      BY <1>3, <3>1, <3>2, <3>3
  <2> QED
    BY <2>1, <2>2
<1>8. ASSUME ConnectRefused(t) PROVE FinalInv'
  <2> DEFINE r == [task[t] EXCEPT !.pc = "check", !.bad = @ + 1]
  <2>0. ~Pooled
    BY <1>1, <1>8 DEF ConnectRefused, In, Placed
  <2>1. /\ Set(t, r) /\ r \in TaskRecords /\ r.pc = "check"
        /\ r.good = task[t].good /\ r.bad = task[t].bad + 1
    BY <1>1, <1>8 DEF ConnectRefused, TaskRecords, Pcs
  <2>3. Rounds(r)
    BY <2>0, <2>1 DEF Rounds
  <2>2. /\ count'.ok = count.ok
        /\ count'.err = count.err + IF client = "select" THEN 0 ELSE 1
    BY <1>1, <1>8 DEF ConnectRefused
  <2> HIDE DEF r
  <2> QED
    BY <1>5, <2>1, <2>2, <2>3
<1>9. ASSUME SelectEnds(t) PROVE FinalInv'
  <2>0. ~Pooled /\ task[t].pc = "query" /\ client = "select"
    BY <1>1, <1>9 DEF SelectEnds, In, Rounds
  <2>1. CASE count' = [count EXCEPT !.ok = @ + 1]
             /\ Set(t, [task[t] EXCEPT !.pc = "check", !.session = "none", !.good = @ + 1])
    <3> DEFINE r == [task[t] EXCEPT !.pc = "check", !.session = "none", !.good = @ + 1]
    <3>1. /\ Set(t, r) /\ r \in TaskRecords /\ r.pc = "check"
          /\ r.good = task[t].good + 1 /\ r.bad = task[t].bad
      BY <1>1, <2>1 DEF TaskRecords, Pcs
    <3>2. count'.ok = count.ok + 1 /\ count'.err = count.err
      BY <1>1, <2>1
    <3>3. Rounds(r)
      BY <2>0, <3>1 DEF Rounds
    <3> HIDE DEF r
    <3> QED
      BY <1>4, <3>1, <3>2, <3>3
  <2>2. CASE count' = count
             /\ Set(t, [task[t] EXCEPT !.pc = "check", !.session = "none", !.bad = @ + 1])
    <3> DEFINE r == [task[t] EXCEPT !.pc = "check", !.session = "none", !.bad = @ + 1]
    <3>1. /\ Set(t, r) /\ r \in TaskRecords /\ r.pc = "check"
          /\ r.good = task[t].good /\ r.bad = task[t].bad + 1
      BY <1>1, <2>2 DEF TaskRecords, Pcs
    <3>2. /\ count'.ok = count.ok
          /\ count'.err = count.err + IF client = "select" THEN 0 ELSE 1
      BY <1>1, <2>0, <2>2
    <3>3. Rounds(r)
      BY <2>0, <3>1 DEF Rounds
    <3> HIDE DEF r
    <3> QED
      BY <1>5, <3>1, <3>2, <3>3
  <2> QED
    BY <1>9, <2>1, <2>2 DEF SelectEnds
<1>10. ASSUME TimePasses(t) PROVE FinalInv'
  <2> DEFINE r == [task[t] EXCEPT !.over = TRUE]
  <2>1. /\ Set(t, r) /\ r \in TaskRecords /\ Rounds(r) /\ count' = count
        /\ r.good = task[t].good /\ r.bad = task[t].bad
    BY <1>1, <1>10 DEF TimePasses, In, TaskRecords, Pcs, Ended, Rounds, Placed
  <2> HIDE DEF r
  <2> QED
    BY <1>3, <2>1
<1>11. ASSUME NextIteration(t) PROVE FinalInv'
  <2> DEFINE r == [task[t] EXCEPT !.pc = IF Tries(t) < Iterations THEN "get" ELSE "done"]
  <2>1. /\ Set(t, r) /\ r \in TaskRecords /\ count' = count
        /\ r.good = task[t].good /\ r.bad = task[t].bad
    BY <1>1, <1>11 DEF NextIteration, TaskRecords, Pcs, Ended
  <2>2. r.pc = IF task[t].good + task[t].bad < Iterations THEN "get" ELSE "done"
    BY <1>1 DEF TaskRecords, Tries
  <2>3. Pooled /\ task[t].good + task[t].bad <= Iterations
    BY <1>1, <1>11 DEF NextIteration, Rounds
  <2> HIDE DEF r
  <2>4. Rounds(r)
    BY <1>1, <2>1, <2>2, <2>3 DEF Rounds
  <2> QED
    BY <1>3, <2>1, <2>4
<1>12. ASSUME Recycled(t) PROVE FinalInv'
  <2>1. PICK s \in {"live", "dead"} :
          Set(t, [task[t] EXCEPT !.pc = "query", !.session = s, !.permit = TRUE])
    BY <1>12 DEF Recycled
  <2> DEFINE r == [task[t] EXCEPT !.pc = "query", !.session = s, !.permit = TRUE]
  <2>2. /\ Set(t, r) /\ r \in TaskRecords /\ Rounds(r) /\ count' = count
        /\ r.good = task[t].good /\ r.bad = task[t].bad
    BY <1>1, <1>12, <2>1 DEF Recycled, In, TaskRecords, Pcs, Ended, Rounds, Placed
  <2> HIDE DEF r
  <2> QED
    BY <1>3, <2>2
<1>13. ASSUME NothingIdle(t) PROVE FinalInv'
  <2> DEFINE r == [task[t] EXCEPT !.pc = "create", !.permit = TRUE]
  <2>1. /\ Set(t, r) /\ r \in TaskRecords /\ Rounds(r) /\ count' = count
        /\ r.good = task[t].good /\ r.bad = task[t].bad
    BY <1>1, <1>13 DEF NothingIdle, In, TaskRecords, Pcs, Ended, Rounds, Placed
  <2> HIDE DEF r
  <2> QED
    BY <1>3, <2>1
<1>14. ASSUME Created(t) PROVE FinalInv'
  <2> DEFINE r == [task[t] EXCEPT !.pc = "query", !.session = "live"]
  <2>1. /\ Set(t, r) /\ r \in TaskRecords /\ Rounds(r) /\ count' = count
        /\ r.good = task[t].good /\ r.bad = task[t].bad
    BY <1>1, <1>14 DEF Created, In, TaskRecords, Pcs, Ended, Rounds, Placed
  <2> HIDE DEF r
  <2> QED
    BY <1>3, <2>1
<1>15. ASSUME CreateFails(t) PROVE FinalInv'
  <2> DEFINE r == [task[t] EXCEPT !.pc = "check", !.permit = FALSE, !.bad = @ + 1]
  <2>1. /\ Set(t, r) /\ r \in TaskRecords /\ r.pc = "check"
        /\ r.good = task[t].good /\ r.bad = task[t].bad + 1
    BY <1>1, <1>15 DEF CreateFails, TaskRecords, Pcs
  <2>2. Pooled /\ task[t].good + task[t].bad < Iterations
    BY <1>1, <1>15 DEF CreateFails, In, Placed, Rounds
  <2> HIDE DEF r
  <2>3. Rounds(r)
    BY <1>1, <2>1, <2>2 DEF Rounds
  <2> QED
    BY <1>5, <2>1, <2>2, <2>3
<1>16. ASSUME RowsReturned(t) PROVE FinalInv'
  <2> DEFINE r == [task[t] EXCEPT !.pc = "print", !.session = "none", !.permit = FALSE]
  <2>1. /\ Set(t, r) /\ r \in TaskRecords /\ Rounds(r) /\ count' = count
        /\ r.good = task[t].good /\ r.bad = task[t].bad
    BY <1>1, <1>16 DEF RowsReturned, In, TaskRecords, Pcs, Ended, Rounds, Placed
  <2> HIDE DEF r
  <2> QED
    BY <1>3, <2>1
<1>17. ASSUME QueryFails(t) PROVE FinalInv'
  <2> DEFINE r == [task[t] EXCEPT !.pc = "check", !.session = "none", !.permit = FALSE,
                                  !.bad = @ + 1]
  <2>1. /\ Set(t, r) /\ r \in TaskRecords /\ r.pc = "check"
        /\ r.good = task[t].good /\ r.bad = task[t].bad + 1
    BY <1>1, <1>17 DEF QueryFails, TaskRecords, Pcs
  <2>2. Pooled /\ task[t].good + task[t].bad < Iterations
    BY <1>1, <1>17 DEF QueryFails, In, Placed, Rounds
  <2> HIDE DEF r
  <2>3. Rounds(r)
    BY <1>1, <2>1, <2>2 DEF Rounds
  <2> QED
    BY <1>5, <2>1, <2>2, <2>3
<1>18. ASSUME RowsPrinted(t) PROVE FinalInv'
  <2>1. PICK r \in { [task[t] EXCEPT !.pc = "check", !.good = @ + 1],
                     [task[t] EXCEPT !.pc = "panicked", !.good = @ + 1] } : Set(t, r)
    BY <1>18 DEF RowsPrinted
  <2>2. /\ r \in TaskRecords /\ r.pc \in {"check", "panicked"}
        /\ r.good = task[t].good + 1 /\ r.bad = task[t].bad
    BY <1>1, <2>1 DEF TaskRecords, Pcs, Ended
  <2>3. Pooled /\ task[t].good + task[t].bad < Iterations
    BY <1>1, <1>18 DEF RowsPrinted, In, Placed, Rounds
  <2>4. Rounds(r)
    BY <1>1, <2>2, <2>3 DEF Rounds
  <2> QED
    BY <1>4, <2>1, <2>2, <2>3, <2>4
<1> QED
  BY <1>6, <1>7, <1>8, <1>9, <1>10, <1>11, <1>12, <1>13, <1>14, <1>15, <1>16, <1>17, <1>18
     DEF TaskMoves

\* A step that leaves the histories and the counters alone.
LEMMA FrameCounts ==
  ASSUME LoopsTypeOK, FinalInv, UNCHANGED <<client, count>>,
         \A t \in LoopTasks : /\ task'[t].pc = task[t].pc /\ task'[t].over = task[t].over
                              /\ task'[t].good = task[t].good /\ task'[t].bad = task[t].bad,
         UNCHANGED <<main, shown>> \/ (main = "join" /\ AllEnded /\ shown' = count)
  PROVE  FinalInv'
<1>1. Good' = Good /\ Bad' = Bad
  BY DEF Good, Bad
<1>2. Counted'
  BY <1>1 DEF FinalInv, Counted, Pooled
<1>3. \A t \in LoopTasks : Rounds(task[t])'
  BY DEF FinalInv, Rounds, Pooled
<1>4. AllEnded => AllEnded'
  BY DEF AllEnded
<1> QED
  BY <1>2, <1>3, <1>4 DEF FinalInv

\* Every step of the four programs.
LEMMA FinalStep ==
  ASSUME LoopsInv, LoopsInv', FinalInv, [LoopsNext]_loopVars
  PROVE  FinalInv'
<1>1. LoopsTypeOK /\ LoopsTypeOK'
  BY DEF LoopsInv
<1>2. CASE Reported \/ Drained \/ ClosedNoticed \/ LoopsOver \/ UNCHANGED loopVars
  <2>1. /\ UNCHANGED <<client, count, task>>
        /\ UNCHANGED <<main, shown>> \/ (main = "join" /\ AllEnded /\ shown' = count)
    BY <1>2 DEF Reported, Drained, ClosedNoticed, LoopsOver, loopVars, mainState
  <2> QED
    BY <1>1, <2>1, FrameCounts
<1>3. CASE Restarted
  <2>1. /\ UNCHANGED <<client, count, main, shown>>
        /\ \A t \in LoopTasks : task'[t] =
             IF task[t].session = "live" THEN [task[t] EXCEPT !.session = "dead"] ELSE task[t]
    BY <1>3 DEF Restarted, mainState
  <2>2. \A t \in LoopTasks : task[t] \in TaskRecords
    BY <1>1 DEF LoopsTypeOK, TaskRecords, Pcs
  <2>3. \A t \in LoopTasks :
          /\ task'[t].pc = task[t].pc /\ task'[t].over = task[t].over
          /\ task'[t].good = task[t].good /\ task'[t].bad = task[t].bad
    BY <2>1, <2>2 DEF TaskRecords
  <2> QED
    BY <1>1, <2>1, <2>3, FrameCounts
<1> QED
  BY <1>1, <1>2, <1>3, TaskMovesCount DEF LoopsNext

\* Nothing is done or counted before the first step.
LEMMA FinalInit == ASSUME LoopsInit PROVE FinalInv
<1>1. \A t \in LoopTasks : /\ task[t].pc = "check" /\ ~task[t].over
                           /\ task[t].good = 0 /\ task[t].bad = 0
  BY DEF LoopsInit, NewTask
<1>2. \A t \in LoopTasks : Rounds(task[t])
  BY <1>1, SizesAssumption DEF Rounds
<1>3. ASSUME NEW f \in [LoopTasks -> Nat], \A t \in LoopTasks : f[t] = 0
      PROVE  SumFunction(f) = 0
  BY <1>3, LoopTasksAssumption, SumIsZero
<1>4. /\ Good \in [LoopTasks -> Nat] /\ \A t \in LoopTasks : Good[t] = 0
      /\ Bad \in [LoopTasks -> Nat] /\ \A t \in LoopTasks : Bad[t] = 0
  BY <1>1 DEF Good, Bad
<1>5. SumFunction(Good) = 0
  BY <1>3, <1>4
<1>6. SumFunction(Bad) = 0
  BY <1>3, <1>4
<1>7. count.ok = 0 /\ count.err = 0 /\ main = "join"
  BY DEF LoopsInit
<1> QED
  BY <1>2, <1>5, <1>6, <1>7 DEF FinalInv, Counted

\* main prints what the tasks did together, after each has run for its full
\* duration; a deadpool task that did not panic has done all its iterations.
THEOREM ReportAlwaysFinal == LoopsSpec => []ReportIsFinal
<1>1. LoopsInv /\ LoopsInv' /\ FinalInv /\ [LoopsNext]_loopVars => FinalInv'
  BY FinalStep
<1>2. LoopsInit => FinalInv
  BY FinalInit
<1>3. LoopsInv /\ FinalInv => ReportIsFinal
  <2> SUFFICES ASSUME LoopsInv, FinalInv, main = "over" PROVE ReportIsFinal
    BY DEF ReportIsFinal
  <2>1. \A t \in LoopTasks : task[t].pc \in Ended /\ Rounds(task[t])
    BY DEF FinalInv, AllEnded
  <2>2. CASE Pooled
    <3>1. \A t \in LoopTasks : task[t].pc # "panicked" => Tries(t) = Iterations
      BY <2>1, <2>2 DEF Rounds, Ended, Tries
    <3> QED
      BY <2>2, <3>1 DEF ReportIsFinal
  <2>3. CASE ~Pooled
    <3>1. \A t \in LoopTasks : task[t].over
      BY <2>1, <2>3 DEF Rounds, Ended
    <3>2. /\ shown.ok = SumFunction(Good)
          /\ shown.err = IF client = "select" THEN 0 ELSE SumFunction(Bad)
      BY <2>3 DEF FinalInv, Counted
    <3> QED
      BY <2>3, <3>1, <3>2 DEF ReportIsFinal, Good, Bad
  <2> QED
    BY <2>2, <2>3
<1> QED
  BY <1>1, <1>2, <1>3, LoopsInvariant, PTL DEF LoopsSpec

-----------------------------------------------------------------------------
(***************************************************************************)
(* Why the programs end: LoopsEnd needs fairness and stays with TLC; that  *)
(* no task waits for a permit nobody has, and that the calls of a task run *)
(* out, holds for every instance.                                          *)
(***************************************************************************)
\* deadpool main.rs: while the pool has no permit, a task has one that waits for
\* the server only and gives the permit back when it fails.
PermitsComeBack ==
  permits = 0 => \E t \in LoopTasks : task[t].permit /\ task[t].pc \in {"create", "query"}

THEOREM PermitsAlwaysComeBack == LoopsSpec => []PermitsComeBack
<1>1. PermitsBalance => PermitsComeBack
  <2> SUFFICES ASSUME PermitsBalance, permits = 0 PROVE PermitsComeBack
    BY DEF PermitsComeBack
  <2>1. Holding # {}
    BY FS_EmptySet DEF PermitsBalance
  <2> QED
    BY <2>1 DEF Holding, PermitsBalance, PermitsComeBack
<1> QED
  BY <1>1, PermitsAlwaysBalance, PTL

\* calls before the next look at the clock, and before the next iteration
ClockCalls == [connect |-> 3, query |-> 2, check |-> 1]
PoolCalls  == [check |-> 6, get |-> 5, create |-> 4, query |-> 3, print |-> 2]

\* What a task has at most ahead of it, once its clock has run out.
RoundsLeft(r) ==
  IF r.pc \in Ended THEN 0
  ELSE IF Pooled THEN PoolCalls[r.pc] + 5 * (Iterations - (r.good + r.bad))
  ELSE ClockCalls[r.pc]

LoopsRunDown ==
  [][\A t \in LoopTasks : task'[t].pc # task[t].pc /\ (Pooled \/ task[t].over)
                            => RoundsLeft(task'[t]) < RoundsLeft(task[t])]_loopVars

\* A pooled task that ends.
LEMMA EndsNearer ==
  ASSUME Pooled, NEW r \in TaskRecords, NEW s \in TaskRecords, r.pc \in Ended,
         s.pc \in {"check", "get", "create", "query", "print"}, s.good + s.bad <= Iterations
  PROVE  RoundsLeft(r) < RoundsLeft(s)
<1>1. PoolCalls[s.pc] \in 2 .. 6 /\ Iterations - (s.good + s.bad) \in Nat
  BY SizesAssumption DEF PoolCalls, TaskRecords
<1>2. s.pc \notin Ended
  BY DEF Ended
<1> QED
  BY <1>1, <1>2 DEF RoundsLeft

\* A pooled task at the next call of its iteration.
LEMMA NextCallNearer ==
  ASSUME Pooled, NEW r \in TaskRecords, NEW s \in TaskRecords,
         r.pc \in {"get", "create", "query", "print"},
         s.pc \in {"check", "get", "create", "query"},
         r.good = s.good, r.bad = s.bad, PoolCalls[r.pc] < PoolCalls[s.pc]
  PROVE  RoundsLeft(r) < RoundsLeft(s)
<1>1. /\ PoolCalls[s.pc] \in Nat /\ PoolCalls[r.pc] \in Nat
      /\ 5 * (Iterations - (s.good + s.bad)) \in Int
  BY SizesAssumption DEF PoolCalls, TaskRecords
<1>2. r.pc \notin Ended /\ s.pc \notin Ended
  BY DEF Ended
<1> QED
  BY <1>1, <1>2 DEF RoundsLeft

\* A pooled task that goes on to its next iteration.
LEMMA NextIterationNearer ==
  ASSUME Pooled, NEW r \in TaskRecords, NEW s \in TaskRecords,
         r.pc = "check", s.pc \in {"create", "query", "print"},
         r.good + r.bad = s.good + s.bad + 1
  PROVE  RoundsLeft(r) < RoundsLeft(s)
<1>1. /\ PoolCalls[s.pc] >= 2 /\ PoolCalls[s.pc] \in Nat /\ PoolCalls[r.pc] = 6
      /\ s.good + s.bad \in Nat /\ Iterations \in Nat
  BY SizesAssumption DEF PoolCalls, TaskRecords
<1>2. r.pc \notin Ended /\ s.pc \notin Ended
  BY DEF Ended
<1>3. /\ RoundsLeft(r) = 6 + 5 * (Iterations - (s.good + s.bad + 1))
      /\ RoundsLeft(s) = PoolCalls[s.pc] + 5 * (Iterations - (s.good + s.bad))
  BY <1>1, <1>2 DEF RoundsLeft
<1> QED
  BY <1>1, <1>3

\* A task of the others, between two looks at its clock.
LEMMA ClockNearer ==
  ASSUME ~Pooled, NEW r, NEW s,
         \/ r.pc \in Ended /\ s.pc = "check"
         \/ r.pc = "query" /\ s.pc = "connect"
         \/ r.pc = "check" /\ s.pc \in {"connect", "query"}
  PROVE  RoundsLeft(r) < RoundsLeft(s)
BY DEF RoundsLeft, ClockCalls, Ended

\* Every await of a task, once its clock has run out.
LEMMA TaskRunsDown ==
  ASSUME LoopsInv, LoopsTypeOK', FinalInv, NEW t \in LoopTasks, TaskMoves(t),
         Pooled \/ task[t].over
  PROVE  /\ \A u \in LoopTasks \ {t} : task'[u] = task[u]
         /\ RoundsLeft(task'[t]) < RoundsLeft(task[t])
<1>1. /\ task \in [LoopTasks -> TaskRecords]
      /\ task[t] \in TaskRecords /\ task'[t] \in TaskRecords
      /\ Placed(task[t]) /\ Rounds(task[t])
      /\ task[t].good \in Nat /\ task[t].bad \in Nat /\ Iterations \in Nat
  BY SizesAssumption DEF LoopsInv, LoopsTypeOK, TaskRecords, Pcs, FinalInv
<1> DEFINE Nearer == /\ \A u \in LoopTasks \ {t} : task'[u] = task[u]
                     /\ RoundsLeft(task'[t]) < RoundsLeft(task[t])
<1> SUFFICES Nearer
  OBVIOUS
<1>2. ASSUME NEW r, Set(t, r)
      PROVE  /\ r = task'[t] /\ r \in TaskRecords
             /\ \A u \in LoopTasks \ {t} : task'[u] = task[u]
  BY <1>1, <1>2 DEF Set
<1>3. ASSUME NEW r, Set(t, r), RoundsLeft(r) < RoundsLeft(task[t]) PROVE Nearer
  BY <1>2, <1>3
<1> HIDE DEF Nearer
<1>4. ASSUME NEW r, Set(t, r), ~Pooled,
             \/ r.pc \in Ended /\ task[t].pc = "check"
             \/ r.pc = "query" /\ task[t].pc = "connect"
             \/ r.pc = "check" /\ task[t].pc \in {"connect", "query"}
      PROVE  Nearer
  BY <1>3, <1>4, ClockNearer
<1>5. ASSUME NEW r, Set(t, r), Pooled, r.pc \in {"get", "create", "query", "print"},
             task[t].pc \in {"check", "get", "create", "query"},
             r.good = task[t].good, r.bad = task[t].bad, PoolCalls[r.pc] < PoolCalls[task[t].pc]
      PROVE  Nearer
  BY <1>1, <1>2, <1>3, <1>5, NextCallNearer
<1>6. ASSUME NEW r, Set(t, r), Pooled, r.pc = "check",
             task[t].pc \in {"create", "query", "print"},
             r.good + r.bad = task[t].good + task[t].bad + 1
      PROVE  Nearer
  BY <1>1, <1>2, <1>3, <1>6, NextIterationNearer
<1>7. ASSUME NEW r, Set(t, r), Pooled, r.pc \in Ended,
             task[t].pc \in {"check", "get", "create", "query", "print"}
      PROVE  Nearer
  BY <1>1, <1>2, <1>3, <1>7, EndsNearer DEF Rounds
<1>8. CASE ClockChecked(t)
  <2> DEFINE r == [task[t] EXCEPT !.pc = "done"]
  <2>1. ~Pooled /\ task[t].pc = "check" /\ Set(t, r)
    BY <1>8 DEF ClockChecked, In, TimeUp
  <2>2. r.pc = "done"
    BY <1>1 DEF TaskRecords
  <2> HIDE DEF r
  <2> QED
    BY <1>4, <2>1, <2>2 DEF Ended
<1>9. CASE ConnectionReady(t)
  <2>0. ~Pooled
    BY <1>1, <1>9 DEF ConnectionReady, In, Placed
  <2> DEFINE r0 == [task[t] EXCEPT !.pc = "check", !.good = @ + 1]
             r1 == [task[t] EXCEPT !.pc = "query", !.session = "live"]
  <2>1. task[t].pc = "connect" /\ (Set(t, r0) \/ Set(t, r1))
    BY <1>9 DEF ConnectionReady, In, TimeUp
  <2>2. r0.pc = "check" /\ r1.pc = "query"
    BY <1>1 DEF TaskRecords
  <2> HIDE DEF r0, r1
  <2> QED
    BY <1>4, <2>0, <2>1, <2>2 DEF Ended
<1>10. CASE ConnectRefused(t)
  <2>0. ~Pooled
    BY <1>1, <1>10 DEF ConnectRefused, In, Placed
  <2> DEFINE r0 == [task[t] EXCEPT !.pc = "check", !.bad = @ + 1]
  <2>1. task[t].pc = "connect" /\ Set(t, r0)
    BY <1>10 DEF ConnectRefused, In, TimeUp
  <2>2. r0.pc = "check"
    BY <1>1 DEF TaskRecords
  <2> HIDE DEF r0
  <2> QED
    BY <1>4, <2>0, <2>1, <2>2 DEF Ended
<1>11. CASE SelectEnds(t)
  <2>0. ~Pooled
    BY <1>1, <1>11 DEF SelectEnds, In, Placed
  <2> DEFINE r0 == [task[t] EXCEPT !.pc = "check", !.session = "none", !.good = @ + 1]
             r1 == [task[t] EXCEPT !.pc = "check", !.session = "none", !.bad = @ + 1]
  <2>1. task[t].pc = "query" /\ (Set(t, r0) \/ Set(t, r1))
    BY <1>11 DEF SelectEnds, In, TimeUp
  <2>2. r0.pc = "check" /\ r1.pc = "check"
    BY <1>1 DEF TaskRecords
  <2> HIDE DEF r0, r1
  <2> QED
    BY <1>4, <2>0, <2>1, <2>2 DEF Ended
<1>12. CASE NextIteration(t)
  <2> DEFINE r == [task[t] EXCEPT !.pc = IF Tries(t) < Iterations THEN "get" ELSE "done"]
  <2>1. Pooled /\ task[t].pc = "check" /\ Set(t, r)
    BY <1>12 DEF NextIteration, In
  <2>2. r.pc \in {"get", "done"} /\ r.good = task[t].good /\ r.bad = task[t].bad
    BY <1>1 DEF TaskRecords
  <2> HIDE DEF r
  <2>3. CASE r.pc = "get"
    BY <1>5, <2>1, <2>2, <2>3 DEF PoolCalls
  <2>4. CASE r.pc = "done"
    BY <1>7, <2>1, <2>4 DEF Ended
  <2> QED
    BY <2>2, <2>3, <2>4
<1>13. CASE Recycled(t)
  <2>0. PICK s \in {"live", "dead"} : Set(t, [task[t] EXCEPT !.pc = "query", !.session = s, !.permit = TRUE])
    BY <1>13 DEF Recycled
  <2> DEFINE r == [task[t] EXCEPT !.pc = "query", !.session = s, !.permit = TRUE]
  <2>1. Pooled /\ task[t].pc = "get" /\ Set(t, r)
    BY <1>1, <1>13, <2>0 DEF Recycled, In, Placed
  <2>2. r.pc = "query" /\ r.good = task[t].good /\ r.bad = task[t].bad
    BY <1>1 DEF TaskRecords
  <2> HIDE DEF r
  <2> QED
    BY <1>5, <2>1, <2>2 DEF PoolCalls
<1>14. CASE NothingIdle(t)
  <2> DEFINE r == [task[t] EXCEPT !.pc = "create", !.permit = TRUE]
  <2>1. Pooled /\ task[t].pc = "get" /\ Set(t, r)
    BY <1>1, <1>14 DEF NothingIdle, In, Placed
  <2>2. r.pc = "create" /\ r.good = task[t].good /\ r.bad = task[t].bad
    BY <1>1 DEF TaskRecords
  <2> HIDE DEF r
  <2> QED
    BY <1>5, <2>1, <2>2 DEF PoolCalls
<1>15. CASE Created(t)
  <2> DEFINE r == [task[t] EXCEPT !.pc = "query", !.session = "live"]
  <2>1. Pooled /\ task[t].pc = "create" /\ Set(t, r)
    BY <1>1, <1>15 DEF Created, In, Placed
  <2>2. r.pc = "query" /\ r.good = task[t].good /\ r.bad = task[t].bad
    BY <1>1 DEF TaskRecords
  <2> HIDE DEF r
  <2> QED
    BY <1>5, <2>1, <2>2 DEF PoolCalls
<1>16. CASE RowsReturned(t)
  <2> DEFINE r == [task[t] EXCEPT !.pc = "print", !.session = "none", !.permit = FALSE]
  <2>1. Pooled /\ task[t].pc = "query" /\ Set(t, r)
    BY <1>1, <1>16 DEF RowsReturned, In, Placed
  <2>2. r.pc = "print" /\ r.good = task[t].good /\ r.bad = task[t].bad
    BY <1>1 DEF TaskRecords
  <2> HIDE DEF r
  <2> QED
    BY <1>5, <2>1, <2>2 DEF PoolCalls
<1>17. CASE CreateFails(t)
  <2> DEFINE r == [task[t] EXCEPT !.pc = "check", !.permit = FALSE, !.bad = @ + 1]
  <2>1. Pooled /\ task[t].pc = "create" /\ Set(t, r)
    BY <1>1, <1>17 DEF CreateFails, In, Placed
  <2>2. r.pc = "check" /\ r.good = task[t].good /\ r.bad = task[t].bad + 1
    BY <1>1 DEF TaskRecords
  <2> HIDE DEF r
  <2>3. r.good + r.bad = task[t].good + task[t].bad + 1
    BY <1>1, <2>2
  <2> QED
    BY <1>6, <2>1, <2>2, <2>3
<1>18. CASE QueryFails(t)
  <2> DEFINE r == [task[t] EXCEPT !.pc = "check", !.session = "none", !.permit = FALSE, !.bad = @ + 1]
  <2>1. Pooled /\ task[t].pc = "query" /\ Set(t, r)
    BY <1>1, <1>18 DEF QueryFails, In, Placed
  <2>2. r.pc = "check" /\ r.good = task[t].good /\ r.bad = task[t].bad + 1
    BY <1>1 DEF TaskRecords
  <2> HIDE DEF r
  <2>3. r.good + r.bad = task[t].good + task[t].bad + 1
    BY <1>1, <2>2
  <2> QED
    BY <1>6, <2>1, <2>2, <2>3
<1>19. CASE RowsPrinted(t)
  <2> DEFINE r == [task[t] EXCEPT !.pc = "check", !.good = @ + 1]
             s == [task[t] EXCEPT !.pc = "panicked", !.good = @ + 1]
  <2>1. Pooled /\ task[t].pc = "print" /\ (Set(t, r) \/ Set(t, s))
    BY <1>1, <1>19 DEF RowsPrinted, In, Placed
  <2>2. r.pc = "check" /\ r.good = task[t].good + 1 /\ r.bad = task[t].bad /\ s.pc = "panicked"
    BY <1>1 DEF TaskRecords
  <2> HIDE DEF r, s
  <2>3. r.good + r.bad = task[t].good + task[t].bad + 1
    BY <1>1, <2>2
  <2>4. CASE Set(t, r)
    BY <1>6, <2>1, <2>2, <2>3, <2>4
  <2>5. CASE Set(t, s)
    BY <1>7, <2>1, <2>2, <2>5 DEF Ended
  <2> QED
    BY <2>1, <2>4, <2>5
<1> QED
  BY <1>8, <1>9, <1>10, <1>11, <1>12, <1>13, <1>14, <1>15, <1>16, <1>17, <1>18, <1>19 DEF TaskMoves

\* A task of the deadpool demo, and one of the others whose clock has run out, is
\* nearer to its end after every call, whatever failed.
THEOREM LoopsAlwaysRunDown == LoopsSpec => LoopsRunDown
<1>1. LoopsInv /\ LoopsInv' /\ FinalInv /\ [LoopsNext]_loopVars => FinalInv'
  BY FinalStep
<1>2. LoopsInit => FinalInv
  BY FinalInit
<1>3. LoopsInv /\ LoopsInv' /\ FinalInv /\ [LoopsNext]_loopVars =>
        [\A t \in LoopTasks : task'[t].pc # task[t].pc /\ (Pooled \/ task[t].over)
                                => RoundsLeft(task'[t]) < RoundsLeft(task[t])]_loopVars
  <2> SUFFICES ASSUME LoopsInv, LoopsInv', FinalInv, [LoopsNext]_loopVars,
                      NEW t \in LoopTasks, task'[t].pc # task[t].pc, Pooled \/ task[t].over
               PROVE  RoundsLeft(task'[t]) < RoundsLeft(task[t])
    OBVIOUS
  <2>1. task \in [LoopTasks -> TaskRecords] /\ LoopsTypeOK'
    BY DEF LoopsInv, LoopsTypeOK, TaskRecords, Pcs
  <2>2. ASSUME NEW u \in LoopTasks, TaskMoves(u)
        PROVE  RoundsLeft(task'[t]) < RoundsLeft(task[t])
    <3>1. u = t
      <4>1. \E r : task' = [task EXCEPT ![u] = r]
        BY <2>2 DEF TaskMoves, ClockChecked, ConnectionReady, ConnectRefused, SelectEnds,
           NextIteration, Recycled, NothingIdle, Created, CreateFails, RowsReturned,
           QueryFails, RowsPrinted, Set
      <4> QED
        BY <2>1, <4>1
    <3> QED
      BY <2>1, <2>2, <3>1, TaskRunsDown
  <2>3. ASSUME NEW u \in LoopTasks, TimePasses(u) PROVE FALSE
    <3>1. task' = [task EXCEPT ![u] = [task[u] EXCEPT !.over = TRUE]]
      BY <2>3 DEF TimePasses, Set
    <3>2. task'[t].pc = task[t].pc
      BY <2>1, <3>1 DEF TaskRecords
    <3> QED
      BY <3>2
  <2>4. ASSUME Restarted PROVE FALSE
    <3>1. task'[t].pc = task[t].pc
      BY <2>1, <2>4 DEF Restarted, TaskRecords
    <3> QED
      BY <3>1
  <2>5. ~Reported /\ ~Drained /\ ~ClosedNoticed /\ ~LoopsOver /\ ~UNCHANGED loopVars
    BY DEF Reported, Drained, ClosedNoticed, LoopsOver, loopVars
  <2> QED
    BY <2>2, <2>3, <2>4, <2>5 DEF LoopsNext
<1> QED
  BY <1>1, <1>2, <1>3, LoopsInvariant, PTL DEF LoopsSpec, LoopsRunDown
=============================================================================
