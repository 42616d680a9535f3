--------------------------- MODULE WorkloadProofs ---------------------------
(***************************************************************************)
(* Theorems about Workload for any number of tasks, any pool sizes and any *)
(* options, checked by TLAPS.                                              *)
(***************************************************************************)
EXTENDS Workload, Counting

(***************************************************************************)
(* The updates of TaskStats keep its type.                                 *)
(***************************************************************************)
LEMMA NewStatsType == NewStats \in TaskStats
BY DEF NewStats, TaskStats

(* A recorded sample keeps the statistics well typed. *)
LEMMA RecType ==
  ASSUME NEW s \in TaskStats, NEW step \in Hists
  PROVE  Rec(s, step) \in TaskStats
<1>1. s.h \in [Hists -> Nat]
  BY DEF TaskStats
<1>2. [s.h EXCEPT ![step] = @ + 1] \in [Hists -> Nat]
  BY <1>1
<1> QED
  BY <1>2 DEF Rec, TaskStats

(* So does a counted error, *)
LEMMA CountErrorType ==
  ASSUME NEW s \in TaskStats, NEW step \in Steps
  PROVE  CountError(s, step) \in TaskStats
<1>1. s.errors \in [Steps -> Nat]
  BY DEF TaskStats
<1>2. [s.errors EXCEPT ![step] = @ + 1] \in [Steps -> Nat]
  BY <1>1
<1> QED
  BY <1>2 DEF CountError, TaskStats

(* a counted WAIT FOR status, *)
LEMMA CountStatusType ==
  ASSUME NEW s \in TaskStats, NEW status \in WaitStatus \cup {NoStatus}
  PROVE  CountStatus(s, status) \in TaskStats
<1>1. CASE status = NoStatus
  BY <1>1 DEF CountStatus
<1>2. CASE status # NoStatus
  <2>1. s.wait \in [WaitStatus -> Nat] /\ status \in WaitStatus
    BY <1>2 DEF TaskStats
  <2>2. [s.wait EXCEPT ![status] = @ + 1] \in [WaitStatus -> Nat]
    BY <2>1
  <2> QED
    BY <1>2, <2>2 DEF CountStatus, TaskStats
<1> QED
  BY <1>1, <1>2

(* a counted verify result, *)
LEMMA CountFoundType ==
  ASSUME NEW s \in TaskStats, NEW found \in Found \cup {NotChecked}
  PROVE  CountFound(s, found) \in TaskStats
<1>1. CASE found = NotChecked
  BY <1>1 DEF CountFound
<1>2. CASE found # NotChecked
  <2>1. s.verify \in [Found -> Nat] /\ found \in Found
    BY <1>2 DEF TaskStats
  <2>2. [s.verify EXCEPT ![found] = @ + 1] \in [Found -> Nat]
    BY <2>1
  <2> QED
    BY <1>2, <2>2 DEF CountFound, TaskStats
<1> QED
  BY <1>1, <1>2

(* a counted completion, *)
LEMMA CountCompletedType ==
  ASSUME NEW s \in TaskStats
  PROVE  CountCompleted(s) \in TaskStats
<1>1. Rec(s, "total") \in TaskStats
  BY RecType DEF Hists
<1> QED
  BY <1>1 DEF CountCompleted, TaskStats

(* and a counted page-boundary LSN. *)
LEMMA CountBoundaryType ==
  ASSUME NEW s \in TaskStats, NEW n \in {0, 1}
  PROVE  [s EXCEPT !.boundary_lsns = @ + n] \in TaskStats
BY DEF TaskStats

(***************************************************************************)
(* Type correctness.  The shared ends of primary_step and standby_step     *)
(* first, then one step per action.                                        *)
(***************************************************************************)
LEMMA PrimaryFailsType ==
  ASSUME TypeOK, NEW t \in Tasks, NEW step \in Steps, PrimaryFails(t, step)
  PROVE  TypeOK'
<1>1. CountError(st[t], step) \in TaskStats
  BY CountErrorType DEF TypeOK
<1> QED
  BY <1>1 DEF TypeOK, PrimaryFails, SetStats, Goto, CountFailed, Labels

(* The shared endings of a step keep the state well typed: primary_step's Ok, *)
LEMMA PrimaryReturnsType ==
  ASSUME TypeOK, NEW t \in Tasks, NEW s \in TaskStats, PrimaryReturns(t, s)
  PROVE  TypeOK'
<1>1. CountCompleted(s) \in TaskStats
  BY CountCompletedType
<1> QED
  BY <1>1 DEF TypeOK, PrimaryReturns, Completes, SetStats, Goto, Labels

(* standby_step's Err, *)
LEMMA StandbyFailsType ==
  ASSUME TypeOK, NEW t \in Tasks, NEW step \in Steps, StandbyFails(t, step)
  PROVE  TypeOK'
<1>1. CountError(st[t], step) \in TaskStats
  BY CountErrorType DEF TypeOK
<1> QED
  BY <1>1 DEF TypeOK, StandbyFails, SetStats, Goto, Labels

(* and standby_step's Ok. *)
LEMMA StandbyReturnsType ==
  ASSUME TypeOK, NEW t \in Tasks, NEW s \in TaskStats,
         NEW status \in WaitStatus \cup {NoStatus},
         NEW found \in Found \cup {NotChecked},
         StandbyReturns(t, s, status, found),
         primary' \in SUBSET Tasks
  PROVE  TypeOK'
<1> DEFINE counted == CountFound(CountStatus(s, status), found)
<1>1. counted \in TaskStats
  BY CountStatusType, CountFoundType
<1>2. CountCompleted(counted) \in TaskStats
  BY <1>1, CountCompletedType
<1>3. CASE IsComplete(status)
  BY <1>2, <1>3 DEF TypeOK, StandbyReturns, Completes, SetStats, Goto, Labels
<1>4. CASE ~IsComplete(status)
  BY <1>1, <1>4 DEF TypeOK, StandbyReturns, CountFailed, SetStats, Goto, Labels
<1> QED
  BY <1>3, <1>4

(* Every step of a task keeps the state well typed. *)
LEMMA TaskStepType ==
  ASSUME TypeOK, NEW t \in Tasks, TaskStep(t)
  PROVE  TypeOK'
<1> DEFINE s0 == st[t]
<1>s. s0 \in TaskStats
  BY DEF TypeOK
<1>r. ASSUME NEW step \in Steps
      PROVE  Rec(s0, step) \in TaskStats
  BY <1>s, <1>r, RecType DEF Hists
<1>1. CASE CheckFlags(t)
  BY <1>1 DEF TypeOK, CheckFlags, Goto, Labels
<1>2. CASE CountTxn(t)
  BY <1>2 DEF TypeOK, CountTxn, Goto, Labels
<1>3. CASE PrimaryAcquired(t)
  BY <1>3, <1>r DEF TypeOK, PrimaryAcquired, SetStats, Goto, Labels, Steps
<1>4. CASE PrimaryAcquireFails(t)
  BY <1>4, PrimaryFailsType DEF PrimaryAcquireFails, Steps
<1>5. CASE CommitReturns(t)
  <2>1. Rec(s0, "commit") \in TaskStats
    BY <1>r DEF Steps
  <2>2. CASE NeedsLsn
    BY <1>5, <2>1, <2>2 DEF TypeOK, CommitReturns, SetStats, Goto, Labels
  <2>3. CASE ~NeedsLsn
    BY <1>5, <2>1, <2>3, PrimaryReturnsType DEF CommitReturns
  <2> QED
    BY <2>2, <2>3
<1>6. CASE CommitFails(t)
  BY <1>6, PrimaryFailsType DEF CommitFails, Steps
<1>7. CASE LsnFetched(t)
  <2>1. PICK n \in {0, 1} :
          PrimaryReturns(t, [Rec(st[t], "lsn_fetch") EXCEPT !.boundary_lsns = @ + n])
    BY <1>7 DEF LsnFetched
  <2>2. [Rec(st[t], "lsn_fetch") EXCEPT !.boundary_lsns = @ + n] \in TaskStats
    BY <1>r, CountBoundaryType DEF Steps
  <2> QED
    BY <2>1, <2>2, PrimaryReturnsType
<1>8. CASE LsnFetchFails(t)
  BY <1>8, PrimaryFailsType DEF LsnFetchFails, Steps
<1>9. CASE PrimaryBackoffEnds(t)
  BY <1>9 DEF TypeOK, PrimaryBackoffEnds, Goto, Labels
<1>10. CASE StandbyAcquired(t)
  BY <1>10, <1>r DEF TypeOK, StandbyAcquired, SetStats, Goto, Labels, Steps
<1>11. CASE StandbyAcquireFails(t)
  BY <1>11, StandbyFailsType DEF StandbyAcquireFails, Steps
<1>12. CASE VerifyReturns(t)
  <2>1. PICK found \in Found :
          StandbyReturns(t, Rec(st[t], "verify"),
                         IF Mode = "waitfor" THEN "success" ELSE NoStatus, found)
    BY <1>12 DEF VerifyReturns
  <2>2. Rec(st[t], "verify") \in TaskStats /\ primary' \in SUBSET Tasks
    BY <1>r, <1>12 DEF Steps, VerifyReturns, TypeOK
  <2> QED
    BY <2>1, <2>2, StandbyReturnsType DEF WaitStatus
<1>13. CASE VerifyFails(t)
  BY <1>13, StandbyFailsType DEF VerifyFails, Steps
<1>14. CASE StandbyBackoffEnds(t)
  BY <1>14 DEF TypeOK, StandbyBackoffEnds, CountFailed, Goto, Labels
<1>15. CASE DiagStandbyAnswered(t)
  BY <1>15 DEF TypeOK, DiagStandbyAnswered, Goto, Labels
<1>16. CASE DiagAcquired(t)
  BY <1>16 DEF TypeOK, DiagAcquired, Goto, Labels
<1>17. CASE DiagAcquireFails(t)
  <2>1. StandbyReturns(t, s0, "timeout", NotChecked) /\ primary' \in SUBSET Tasks
    BY <1>17 DEF DiagAcquireFails, TypeOK
  <2> QED
    BY <2>1, <1>s, StandbyReturnsType DEF WaitStatus
<1>18. CASE DiagPrimaryAnswered(t)
  <2>1. StandbyReturns(t, s0, "timeout", NotChecked) /\ primary' \in SUBSET Tasks
    BY <1>18 DEF DiagPrimaryAnswered, TypeOK
  <2> QED
    BY <2>1, <1>s, StandbyReturnsType DEF WaitStatus
<1>19. CASE \E status \in WaitStatus : WaitAnswered(t, status)
  <2>1. PICK status \in WaitStatus : WaitAnswered(t, status)
    BY <1>19
  <2>2. Rec(s0, "wait_for_lsn") \in TaskStats
    BY <1>r DEF Steps
  <2>3. CASE status = "success" /\ Verify
    BY <2>1, <2>2, <2>3 DEF TypeOK, WaitAnswered, SetStats, Goto, Labels
  <2>4. CASE ~(status = "success" /\ Verify)
    <3>1. StandbyReturns(t, Rec(s0, "wait_for_lsn"), status, NotChecked)
          /\ primary' \in SUBSET Tasks
      BY <2>1, <2>4 DEF WaitAnswered, TypeOK
    <3> QED
      BY <3>1, <2>2, StandbyReturnsType
  <2> QED
    BY <2>3, <2>4
<1>20. CASE WaitFails(t)
  BY <1>20, StandbyFailsType DEF WaitFails, Steps
<1>21. CASE WaitExpires(t)
  BY <1>21, <1>r DEF TypeOK, WaitExpires, SetStats, Goto, Labels, Steps
<1> QED
  BY <1>1, <1>2, <1>3, <1>4, <1>5, <1>6, <1>7, <1>8, <1>9, <1>10, <1>11, <1>12,
     <1>13, <1>14, <1>15, <1>16, <1>17, <1>18, <1>19, <1>20, <1>21
  DEF TaskStep, OwnStep, WaitStep, PrimaryStep, StandbyStep, Diagnose

(* Every reachable state of Workload is well typed. *)
THEOREM TypeCorrect == Spec => []TypeOK
<1>1. Init => TypeOK
  <2> SUFFICES ASSUME Init PROVE TypeOK
    OBVIOUS
  <2>1. pc \in [Tasks -> Labels] /\ live \in [completed : Nat, failed : Nat]
    BY DEF Init, Labels
  <2>2. st \in [Tasks -> TaskStats]
    BY NewStatsType DEF Init
  <2> QED
    BY <2>1, <2>2 DEF Init, TypeOK
<1>2. TypeOK /\ [Next]_vars => TypeOK'
  <2> SUFFICES ASSUME TypeOK, [Next]_vars PROVE TypeOK'
    OBVIOUS
  <2>1. ASSUME NEW t \in Tasks, TaskStep(t) PROVE TypeOK'
    BY <2>1, TaskStepType
  <2>2. CASE CtrlC
    BY <2>2 DEF TypeOK, CtrlC
  <2>3. CASE DeadlinePasses
    BY <2>3 DEF TypeOK, DeadlinePasses
  <2>4. CASE Finished \/ UNCHANGED vars
    BY <2>4 DEF TypeOK, Finished, vars
  <2> QED
    BY <2>1, <2>2, <2>3, <2>4 DEF Next
<1> QED
  BY <1>1, <1>2, PTL DEF Spec

(***************************************************************************)
(* Connections.  Ownership is ConnectionsReturned without the bounds; a    *)
(* task's step changes its own membership only, and a new holder found a   *)
(* permit free.                                                            *)
(***************************************************************************)
Ownership ==
  /\ primary = {t \in Tasks : pc[t] \in OnPrimary}
  /\ standby = {t \in Tasks : pc[t] \in OnStandby}

ConnectionEffect(t) ==
  /\ pc' = [pc EXCEPT ![t] = pc'[t]]
  /\ primary' = IF pc'[t] \in OnPrimary THEN primary \cup {t} ELSE primary \ {t}
  /\ standby' = IF pc'[t] \in OnStandby THEN standby \cup {t} ELSE standby \ {t}
  /\ pc'[t] \in OnPrimary => t \in primary \/ PermitFree(primary, PrimaryPool)
  /\ pc'[t] \in OnStandby => t \in standby \/ PermitFree(standby, StandbyPool)

(* A task step changes who holds a connection only as the task's label says. *)
LEMMA TaskStepConnections ==
  ASSUME TypeOK, Ownership, NEW t \in Tasks, TaskStep(t)
  PROVE  ConnectionEffect(t)
<1>1. CASE CheckFlags(t)
  BY <1>1 DEF CheckFlags, Goto,
     TypeOK, Ownership, ConnectionEffect, OnPrimary, OnStandby
<1>2. CASE CountTxn(t)
  BY <1>2 DEF CountTxn, Goto,
     TypeOK, Ownership, ConnectionEffect, OnPrimary, OnStandby
<1>3. CASE PrimaryAcquired(t)
  BY <1>3 DEF PrimaryAcquired, Goto,
     TypeOK, Ownership, ConnectionEffect, OnPrimary, OnStandby
<1>4. CASE PrimaryAcquireFails(t)
  BY <1>4 DEF PrimaryAcquireFails, PrimaryFails, Goto,
     TypeOK, Ownership, ConnectionEffect, OnPrimary, OnStandby
<1>5. CASE CommitReturns(t)
  BY <1>5 DEF CommitReturns, PrimaryReturns, Completes, Goto,
     TypeOK, Ownership, ConnectionEffect, OnPrimary, OnStandby
<1>6. CASE CommitFails(t)
  BY <1>6 DEF CommitFails, PrimaryFails, Goto,
     TypeOK, Ownership, ConnectionEffect, OnPrimary, OnStandby
<1>7. CASE LsnFetched(t)
  BY <1>7 DEF LsnFetched, PrimaryReturns, Completes, Goto,
     TypeOK, Ownership, ConnectionEffect, OnPrimary, OnStandby
<1>8. CASE LsnFetchFails(t)
  BY <1>8 DEF LsnFetchFails, PrimaryFails, Goto,
     TypeOK, Ownership, ConnectionEffect, OnPrimary, OnStandby
<1>9. CASE PrimaryBackoffEnds(t)
  BY <1>9 DEF PrimaryBackoffEnds, Goto,
     TypeOK, Ownership, ConnectionEffect, OnPrimary, OnStandby
<1>10. CASE StandbyAcquired(t)
  BY <1>10 DEF StandbyAcquired, Goto,
     TypeOK, Ownership, ConnectionEffect, OnPrimary, OnStandby
<1>11. CASE StandbyAcquireFails(t)
  BY <1>11 DEF StandbyAcquireFails, StandbyFails, Goto,
     TypeOK, Ownership, ConnectionEffect, OnPrimary, OnStandby
<1>12. CASE VerifyReturns(t)
  BY <1>12 DEF VerifyReturns, StandbyReturns, Completes, Goto,
     TypeOK, Ownership, ConnectionEffect, OnPrimary, OnStandby
<1>13. CASE VerifyFails(t)
  BY <1>13 DEF VerifyFails, StandbyFails, Goto,
     TypeOK, Ownership, ConnectionEffect, OnPrimary, OnStandby
<1>14. CASE StandbyBackoffEnds(t)
  BY <1>14 DEF StandbyBackoffEnds, Goto,
     TypeOK, Ownership, ConnectionEffect, OnPrimary, OnStandby
<1>15. CASE DiagStandbyAnswered(t)
  BY <1>15 DEF DiagStandbyAnswered, Goto,
     TypeOK, Ownership, ConnectionEffect, OnPrimary, OnStandby
<1>16. CASE DiagAcquired(t)
  BY <1>16 DEF DiagAcquired, Goto,
     TypeOK, Ownership, ConnectionEffect, OnPrimary, OnStandby
<1>17. CASE DiagAcquireFails(t)
  BY <1>17 DEF DiagAcquireFails, StandbyReturns, Completes, Goto,
     TypeOK, Ownership, ConnectionEffect, OnPrimary, OnStandby
<1>18. CASE DiagPrimaryAnswered(t)
  BY <1>18 DEF DiagPrimaryAnswered, StandbyReturns, Completes, Goto,
     TypeOK, Ownership, ConnectionEffect, OnPrimary, OnStandby
<1>19. CASE \E status \in WaitStatus : WaitAnswered(t, status)
  BY <1>19 DEF WaitAnswered, StandbyReturns, Completes, Goto,
     TypeOK, Ownership, ConnectionEffect, OnPrimary, OnStandby
<1>20. CASE WaitFails(t)
  BY <1>20 DEF WaitFails, StandbyFails, Goto,
     TypeOK, Ownership, ConnectionEffect, OnPrimary, OnStandby
<1>21. CASE WaitExpires(t)
  BY <1>21 DEF WaitExpires, Goto,
     TypeOK, Ownership, ConnectionEffect, OnPrimary, OnStandby
<1> QED
  BY <1>1, <1>2, <1>3, <1>4, <1>5, <1>6, <1>7, <1>8, <1>9, <1>10, <1>11, <1>12,
     <1>13, <1>14, <1>15, <1>16, <1>17, <1>18, <1>19, <1>20, <1>21
  DEF TaskStep, OwnStep, WaitStep, PrimaryStep, StandbyStep, Diagnose

(* Sets of tasks are finite, so the pools' loads can be counted. *)
LEMMA SubsetsOfTasksFinite ==
  ASSUME NEW S \in SUBSET Tasks
  PROVE  IsFiniteSet(S) /\ Cardinality(S) \in Nat
BY TasksAssumption, FS_Subset, FS_CardinalityType

(* Taking a free permit keeps a pool within its size, *)
LEMMA HolderBound ==
  ASSUME NEW S \in SUBSET Tasks, NEW t \in Tasks, NEW size \in Nat,
         Cardinality(S) <= size, t \in S \/ PermitFree(S, size)
  PROVE  Cardinality(S \cup {t}) <= size
<1>1. IsFiniteSet(S) /\ Cardinality(S) \in Nat
  BY SubsetsOfTasksFinite
<1>2. CASE t \in S
  <2>1. S \cup {t} = S
    BY <1>2
  <2> QED
    BY <2>1
<1>3. CASE t \notin S
  <2>1. Cardinality(S) < size
    BY <1>3 DEF PermitFree
  <2>2. Cardinality(S \cup {t}) = Cardinality(S) + 1
    BY <1>1, <1>3, FS_AddElement
  <2> QED
    BY <1>1, <2>1, <2>2
<1> QED
  BY <1>2, <1>3

(* and so does giving one back. *)
LEMMA ReturnBound ==
  ASSUME NEW S \in SUBSET Tasks, NEW t \in Tasks, NEW size \in Nat,
         Cardinality(S) <= size
  PROVE  Cardinality(S \ {t}) <= size
<1>1. /\ IsFiniteSet(S) /\ Cardinality(S) \in Nat
      /\ Cardinality(S \ {t}) \in Nat
  BY SubsetsOfTasksFinite
<1>2. Cardinality(S \ {t}) <= Cardinality(S)
  BY <1>1, FS_Subset
<1> QED
  BY <1>1, <1>2

(* Every step of a task preserves ConnectionsReturned. *)
LEMMA ConnectionsStep ==
  ASSUME TypeOK, ConnectionsReturned, NEW t \in Tasks, TaskStep(t)
  PROVE  ConnectionsReturned'
<1>1. ConnectionEffect(t)
  BY TaskStepConnections DEF ConnectionsReturned, Ownership
<1>2. \A u \in Tasks : u # t => pc'[u] = pc[u]
  BY <1>1 DEF ConnectionEffect, TypeOK
<1>3. primary' = {u \in Tasks : pc'[u] \in OnPrimary}
  BY <1>1, <1>2 DEF ConnectionEffect, ConnectionsReturned
<1>4. standby' = {u \in Tasks : pc'[u] \in OnStandby}
  BY <1>1, <1>2 DEF ConnectionEffect, ConnectionsReturned
<1>5. Cardinality(primary') <= PrimaryPool
  <2>1. primary \in SUBSET Tasks /\ PrimaryPool \in Nat /\ Cardinality(primary) <= PrimaryPool
    BY PoolAssumption DEF TypeOK, ConnectionsReturned
  <2>2. CASE pc'[t] \in OnPrimary
    BY <1>1, <2>1, <2>2, HolderBound DEF ConnectionEffect
  <2>3. CASE pc'[t] \notin OnPrimary
    BY <1>1, <2>1, <2>3, ReturnBound DEF ConnectionEffect
  <2> QED
    BY <2>2, <2>3
<1>6. Cardinality(standby') <= StandbyPool
  <2>1. standby \in SUBSET Tasks /\ StandbyPool \in Nat /\ Cardinality(standby) <= StandbyPool
    BY PoolAssumption DEF TypeOK, ConnectionsReturned
  <2>2. CASE pc'[t] \in OnStandby
    BY <1>1, <2>1, <2>2, HolderBound DEF ConnectionEffect
  <2>3. CASE pc'[t] \notin OnStandby
    BY <1>1, <2>1, <2>3, ReturnBound DEF ConnectionEffect
  <2> QED
    BY <2>2, <2>3
<1> QED
  BY <1>3, <1>4, <1>5, <1>6 DEF ConnectionsReturned

(* Every connection is given back on every path, and no pool hands out more
   than its size. *)
THEOREM ConnectionsCorrect == Spec => []ConnectionsReturned
<1>1. Init => ConnectionsReturned
  <2> SUFFICES ASSUME Init PROVE ConnectionsReturned
    OBVIOUS
  <2>1. /\ primary = {t \in Tasks : pc[t] \in OnPrimary}
        /\ standby = {t \in Tasks : pc[t] \in OnStandby}
    BY DEF Init, OnPrimary, OnStandby
  <2>2. Cardinality(primary) = 0 /\ Cardinality(standby) = 0
    BY FS_EmptySet DEF Init
  <2> QED
    BY <2>1, <2>2, PoolAssumption DEF ConnectionsReturned
<1>2. TypeOK /\ ConnectionsReturned /\ [Next]_vars => ConnectionsReturned'
  <2> SUFFICES ASSUME TypeOK, ConnectionsReturned, [Next]_vars
               PROVE  ConnectionsReturned'
    OBVIOUS
  <2>1. ASSUME NEW t \in Tasks, TaskStep(t) PROVE ConnectionsReturned'
    BY <2>1, ConnectionsStep
  <2>2. CASE CtrlC \/ DeadlinePasses \/ Finished \/ UNCHANGED vars
    BY <2>2 DEF ConnectionsReturned, CtrlC, DeadlinePasses, Finished, vars
  <2> QED
    BY <2>1, <2>2 DEF Next
<1> QED
  BY <1>1, <1>2, TypeCorrect, PTL DEF Spec

(***************************************************************************)
(* Attempts.  A task's step has one of six effects on the counters.        *)
(***************************************************************************)
LeavesOnFlag(t) ==
  /\ pc[t] \in Idle /\ pc'[t] = "done" /\ (stop \/ expired)
  /\ live' = live /\ started' = started /\ issued' = issued

LeavesOnBudget(t) ==
  /\ pc[t] \in Idle /\ pc'[t] = "done" /\ BudgetSpent
  /\ live' = live /\ started' = started /\ issued' = issued + 1

Begins(t) ==
  /\ pc[t] \in Idle /\ pc'[t] \notin Idle /\ ~BudgetSpent
  /\ live' = live /\ started' = started + 1
  /\ issued' = IF MaxTxns = NoTxns THEN issued ELSE issued + 1

SettlesCompleted(t) ==
  /\ pc[t] \notin Idle /\ pc'[t] \in Idle \ {"done"}
  /\ live'.completed = live.completed + 1 /\ live'.failed = live.failed
  /\ started' = started /\ issued' = issued

SettlesFailed(t) ==
  /\ pc[t] \notin Idle /\ pc'[t] \in Idle \ {"done"}
  /\ live'.failed = live.failed + 1 /\ live'.completed = live.completed
  /\ started' = started /\ issued' = issued

Continues(t) ==
  /\ pc[t] \in Idle <=> pc'[t] \in Idle
  /\ pc'[t] # "done"
  /\ live' = live /\ started' = started /\ issued' = issued

AttemptEffect(t) ==
  /\ pc' = [pc EXCEPT ![t] = pc'[t]]
  /\ pc[t] # "done"
  /\ stop' = stop /\ expired' = expired
  /\ \/ LeavesOnFlag(t) \/ LeavesOnBudget(t) \/ Begins(t)
     \/ SettlesCompleted(t) \/ SettlesFailed(t) \/ Continues(t)

(* A task step begins an attempt, settles one, or leaves the counters alone. *)
LEMMA TaskStepAttempts ==
  ASSUME TypeOK, NEW t \in Tasks, TaskStep(t)
  PROVE  AttemptEffect(t)
<1> USE DEF AttemptEffect, Idle, TypeOK
<1>1. CASE CheckFlags(t)
  BY <1>1 DEF CheckFlags, Goto, LeavesOnFlag, Continues
<1>2. CASE CountTxn(t)
  BY <1>2 DEF CountTxn, Goto, LeavesOnBudget, Begins, BudgetSpent
<1>3. CASE PrimaryAcquired(t)
  BY <1>3 DEF PrimaryAcquired, Goto, Continues
<1>4. CASE PrimaryAcquireFails(t)
  BY <1>4 DEF PrimaryAcquireFails, PrimaryFails, CountFailed, Goto, SettlesFailed
<1>5. CASE CommitReturns(t)
  BY <1>5 DEF CommitReturns, PrimaryReturns, Completes, Goto, Continues, SettlesCompleted
<1>6. CASE CommitFails(t)
  BY <1>6 DEF CommitFails, PrimaryFails, CountFailed, Goto, SettlesFailed
<1>7. CASE LsnFetched(t)
  BY <1>7 DEF LsnFetched, PrimaryReturns, Completes, Goto, Continues, SettlesCompleted
<1>8. CASE LsnFetchFails(t)
  BY <1>8 DEF LsnFetchFails, PrimaryFails, CountFailed, Goto, SettlesFailed
<1>9. CASE PrimaryBackoffEnds(t)
  BY <1>9 DEF PrimaryBackoffEnds, Goto, Continues
<1>10. CASE StandbyAcquired(t)
  BY <1>10 DEF StandbyAcquired, Goto, Continues
<1>11. CASE StandbyAcquireFails(t)
  BY <1>11 DEF StandbyAcquireFails, StandbyFails, Goto, Continues
<1>12. CASE VerifyReturns(t)
  BY <1>12 DEF VerifyReturns, StandbyReturns, Completes, CountFailed, Goto, SettlesCompleted,
     SettlesFailed
<1>13. CASE VerifyFails(t)
  BY <1>13 DEF VerifyFails, StandbyFails, Goto, Continues
<1>14. CASE StandbyBackoffEnds(t)
  BY <1>14 DEF StandbyBackoffEnds, CountFailed, Goto, SettlesFailed
<1>15. CASE DiagStandbyAnswered(t)
  BY <1>15 DEF DiagStandbyAnswered, Goto, Continues
<1>16. CASE DiagAcquired(t)
  BY <1>16 DEF DiagAcquired, Goto, Continues
<1>17. CASE DiagAcquireFails(t)
  BY <1>17 DEF DiagAcquireFails, StandbyReturns, Completes, CountFailed, Goto,
     SettlesCompleted, SettlesFailed
<1>18. CASE DiagPrimaryAnswered(t)
  BY <1>18 DEF DiagPrimaryAnswered, StandbyReturns, Completes, CountFailed, Goto,
     SettlesCompleted, SettlesFailed
<1>19. CASE \E status \in WaitStatus : WaitAnswered(t, status)
  BY <1>19 DEF WaitAnswered, StandbyReturns, Completes, CountFailed, Goto, Continues,
     SettlesCompleted, SettlesFailed
<1>20. CASE WaitFails(t)
  BY <1>20 DEF WaitFails, StandbyFails, Goto, Continues
<1>21. CASE WaitExpires(t)
  BY <1>21 DEF WaitExpires, Goto, Continues
<1> QED
  BY <1>1, <1>2, <1>3, <1>4, <1>5, <1>6, <1>7, <1>8, <1>9, <1>10, <1>11, <1>12,
     <1>13, <1>14, <1>15, <1>16, <1>17, <1>18, <1>19, <1>20, <1>21
  DEF TaskStep, OwnStep, WaitStep, PrimaryStep, StandbyStep, Diagnose

(* How one task's move changes the number of attempts in flight. *)
LEMMA InFlightStep ==
  ASSUME TypeOK, NEW t \in Tasks, AttemptEffect(t)
  PROVE  /\ InFlight \in SUBSET Tasks /\ Cardinality(InFlight) \in Nat
         /\ pc[t] \notin Idle => Cardinality(InFlight) >= 1
         /\ (pc[t] \in Idle <=> pc'[t] \in Idle) => InFlight' = InFlight
         /\ pc[t] \in Idle /\ pc'[t] \notin Idle =>
              Cardinality(InFlight') = Cardinality(InFlight) + 1
         /\ pc[t] \notin Idle /\ pc'[t] \in Idle =>
              Cardinality(InFlight') = Cardinality(InFlight) - 1
<1>1. InFlight \in SUBSET Tasks /\ IsFiniteSet(InFlight) /\ Cardinality(InFlight) \in Nat
  BY SubsetsOfTasksFinite DEF InFlight
<1>2. \A u \in Tasks : u # t => pc'[u] = pc[u]
  BY DEF AttemptEffect, TypeOK
<1>3. t \in InFlight <=> pc[t] \notin Idle
  BY DEF InFlight
<1>4. Cardinality(InFlight \ {t}) =
        IF pc[t] \in Idle THEN Cardinality(InFlight) ELSE Cardinality(InFlight) - 1
  BY <1>1, <1>3, FS_RemoveElement
<1>5. Cardinality(InFlight \ {t}) \in Nat
  BY <1>1, SubsetsOfTasksFinite
<1>6. ASSUME pc[t] \in Idle <=> pc'[t] \in Idle
      PROVE  InFlight' = InFlight
  BY <1>2, <1>6 DEF InFlight
<1>7. ASSUME pc[t] \in Idle, pc'[t] \notin Idle
      PROVE  Cardinality(InFlight') = Cardinality(InFlight) + 1
  <2>1. InFlight' = InFlight \cup {t}
    BY <1>2, <1>7 DEF InFlight
  <2> QED
    BY <1>1, <1>3, <1>7, <2>1, FS_AddElement
<1>8. ASSUME pc[t] \notin Idle, pc'[t] \in Idle
      PROVE  Cardinality(InFlight') = Cardinality(InFlight) - 1
  <2>1. InFlight' = InFlight \ {t}
    BY <1>2, <1>8 DEF InFlight
  <2> QED
    BY <1>4, <1>8, <2>1
<1> QED
  BY <1>1, <1>4, <1>5, <1>6, <1>7, <1>8

(* Every step of a task preserves AttemptsSettledOnce. *)
LEMMA AttemptsStep ==
  ASSUME TypeOK, AttemptsSettledOnce, NEW t \in Tasks, TaskStep(t)
  PROVE  AttemptsSettledOnce'
<1>1. AttemptEffect(t)
  BY TaskStepAttempts
<1>2. live.completed \in Nat /\ live.failed \in Nat /\ started \in Nat
  BY DEF TypeOK
<1>3. Cardinality(InFlight) \in Nat
  BY <1>1, InFlightStep
<1>4. CASE LeavesOnFlag(t) \/ LeavesOnBudget(t) \/ Continues(t)
  <2>1. InFlight' = InFlight
    BY <1>1, <1>4, InFlightStep DEF LeavesOnFlag, LeavesOnBudget, Continues, Idle
  <2> QED
    BY <1>4, <2>1 DEF AttemptsSettledOnce, LeavesOnFlag, LeavesOnBudget, Continues
<1>5. CASE Begins(t)
  <2>1. Cardinality(InFlight') = Cardinality(InFlight) + 1
    BY <1>1, <1>5, InFlightStep DEF Begins
  <2> QED
    BY <1>2, <1>3, <1>5, <2>1 DEF AttemptsSettledOnce, Begins
<1>6. CASE SettlesCompleted(t) \/ SettlesFailed(t)
  <2>1. Cardinality(InFlight') = Cardinality(InFlight) - 1
    BY <1>1, <1>6, InFlightStep DEF SettlesCompleted, SettlesFailed
  <2> QED
    BY <1>2, <1>3, <1>6, <2>1 DEF AttemptsSettledOnce, SettlesCompleted, SettlesFailed
<1> QED
  BY <1>1, <1>4, <1>5, <1>6 DEF AttemptEffect

(* Every attempt is published exactly once, for any number of tasks and under
   every interleaving of them. *)
THEOREM AttemptsCorrect == Spec => []AttemptsSettledOnce
<1>1. Init => AttemptsSettledOnce
  <2> SUFFICES ASSUME Init PROVE AttemptsSettledOnce
    OBVIOUS
  <2>1. InFlight = {}
    BY DEF Init, InFlight, Idle
  <2> QED
    BY <2>1, FS_EmptySet DEF Init, AttemptsSettledOnce
<1>2. TypeOK /\ AttemptsSettledOnce /\ [Next]_vars => AttemptsSettledOnce'
  <2> SUFFICES ASSUME TypeOK, AttemptsSettledOnce, [Next]_vars
               PROVE  AttemptsSettledOnce'
    OBVIOUS
  <2>1. ASSUME NEW t \in Tasks, TaskStep(t) PROVE AttemptsSettledOnce'
    BY <2>1, AttemptsStep
  <2>2. CASE CtrlC \/ DeadlinePasses \/ Finished \/ UNCHANGED vars
    BY <2>2 DEF AttemptsSettledOnce, InFlight, CtrlC, DeadlinePasses, Finished, vars
  <2> QED
    BY <2>1, <2>2 DEF Next
<1> QED
  BY <1>1, <1>2, TypeCorrect, PTL DEF Spec

(***************************************************************************)
(* The --txns budget.  BudgetExact alone is not inductive: it must be      *)
(* known how far issued is from started.                                   *)
(***************************************************************************)
Left == {t \in Tasks : pc[t] = "done"}

BudgetInv ==
  MaxTxns # NoTxns =>
    /\ issued <= MaxTxns => started = issued
    /\ issued >= MaxTxns => started = MaxTxns
    /\ Left # {} /\ ~stop /\ ~expired => issued >= MaxTxns
    /\ issued <= started + Cardinality(Left)

(* The inductive invariant BudgetInv is strong enough for BudgetExact. *)
LEMMA BudgetInvSuffices == TypeOK /\ BudgetInv => BudgetExact
<1> SUFFICES ASSUME TypeOK, BudgetInv, MaxTxns # NoTxns
             PROVE  BudgetExact
  BY DEF BudgetExact
<1>1. MaxTxns \in Nat /\ issued \in Nat /\ started \in Nat
  BY TxnsAssumption DEF TypeOK
<1>2. started <= MaxTxns
  BY <1>1 DEF BudgetInv
<1>3. ASSUME NEW t \in Tasks, pc[t] = "done", ~stop, ~expired
      PROVE  started = MaxTxns
  BY <1>1, <1>3 DEF BudgetInv, Left
<1> QED
  BY <1>2, <1>3 DEF BudgetExact, BudgetInv, Left

(* Every step of a task preserves BudgetInv. *)
LEMMA BudgetStep ==
  ASSUME TypeOK, BudgetInv, NEW t \in Tasks, TaskStep(t)
  PROVE  BudgetInv'
<1> SUFFICES ASSUME MaxTxns # NoTxns
             PROVE  BudgetInv'
  BY DEF BudgetInv
<1>1. AttemptEffect(t)
  BY TaskStepAttempts
<1>2. MaxTxns \in Nat /\ issued \in Nat /\ started \in Nat
  BY TxnsAssumption DEF TypeOK
<1>3. \A u \in Tasks : u # t => pc'[u] = pc[u]
  BY <1>1 DEF AttemptEffect, TypeOK
<1>4. t \notin Left /\ IsFiniteSet(Left) /\ Cardinality(Left) \in Nat
  BY <1>1, SubsetsOfTasksFinite DEF AttemptEffect, Left
<1>5. CASE LeavesOnFlag(t) \/ LeavesOnBudget(t)
  <2>1. Left' = Left \cup {t}
    BY <1>3, <1>5 DEF Left, LeavesOnFlag, LeavesOnBudget
  <2>2. Cardinality(Left') = Cardinality(Left) + 1
    BY <1>4, <2>1, FS_AddElement
  <2>3. CASE LeavesOnFlag(t)
    BY <1>1, <1>2, <1>4, <2>2, <2>3 DEF LeavesOnFlag, AttemptEffect, BudgetInv
  <2>4. CASE LeavesOnBudget(t)
    BY <1>1, <1>2, <1>4, <2>2, <2>4
    DEF LeavesOnBudget, BudgetSpent, AttemptEffect, BudgetInv
  <2> QED
    BY <1>5, <2>3, <2>4
<1>6. CASE Begins(t) \/ SettlesCompleted(t) \/ SettlesFailed(t) \/ Continues(t)
  <2>1. Left' = Left
    BY <1>1, <1>3, <1>6
    DEF Left, Begins, SettlesCompleted, SettlesFailed, Continues, AttemptEffect, Idle
  <2>2. CASE Begins(t)
    BY <1>1, <1>2, <1>4, <2>1, <2>2 DEF Begins, BudgetSpent, AttemptEffect, BudgetInv
  <2>3. CASE SettlesCompleted(t) \/ SettlesFailed(t) \/ Continues(t)
    BY <1>1, <1>2, <1>4, <2>1, <2>3
    DEF SettlesCompleted, SettlesFailed, Continues, AttemptEffect, BudgetInv
  <2> QED
    BY <1>6, <2>2, <2>3
<1> QED
  BY <1>1, <1>5, <1>6 DEF AttemptEffect

(* BudgetInv is an invariant: --txns and the shared counter never disagree. *)
THEOREM BudgetInvCorrect == Spec => []BudgetInv
<1>1. Init => BudgetInv
  <2> SUFFICES ASSUME Init, MaxTxns # NoTxns PROVE BudgetInv
    BY DEF BudgetInv
  <2>1. Left = {} /\ MaxTxns \in Nat
    BY TxnsAssumption DEF Init, Left
  <2> QED
    BY <2>1, FS_EmptySet DEF Init, BudgetInv
<1>2. TypeOK /\ BudgetInv /\ [Next]_vars => BudgetInv'
  <2> SUFFICES ASSUME TypeOK, BudgetInv, [Next]_vars
               PROVE  BudgetInv'
    OBVIOUS
  <2>1. ASSUME NEW t \in Tasks, TaskStep(t) PROVE BudgetInv'
    BY <2>1, BudgetStep
  <2>2. CASE CtrlC \/ DeadlinePasses \/ Finished \/ UNCHANGED vars
    BY <2>2 DEF BudgetInv, Left, CtrlC, DeadlinePasses, Finished, vars
  <2> QED
    BY <2>1, <2>2 DEF Next
<1> QED
  BY <1>1, <1>2, TypeCorrect, PTL DEF Spec

(* --txns N runs exactly N attempts however the tasks race for the last one. *)
THEOREM BudgetCorrect == Spec => []BudgetExact
BY TypeCorrect, BudgetInvCorrect, BudgetInvSuffices, PTL

(***************************************************************************)
(* Refinement.  Each effect on the counters is a step of the ledger or a   *)
(* stutter; the ledger closes with the step that makes the last task       *)
(* leave.                                                                  *)
(***************************************************************************)
LEMMA LeaveIsLedgerStep ==
  ASSUME TypeOK, AttemptsSettledOnce', NEW t \in Tasks, AttemptEffect(t),
         LeavesOnFlag(t) \/ LeavesOnBudget(t)
  PROVE  [Ledger!Next]_(Ledger!vars)
<1>1. ~AllDone
  BY DEF AttemptEffect, AllDone
<1>2. live' = live /\ started' = started
  BY DEF LeavesOnFlag, LeavesOnBudget
<1>3. CASE AllDone'
  <2>1. InFlight' = {}
    BY <1>3 DEF AllDone, InFlight, Idle
  <2>2. live.completed + live.failed = started
    BY <1>2, <2>1, FS_EmptySet DEF AttemptsSettledOnce, TypeOK
  <2> QED
    BY <1>1, <1>2, <1>3, <2>2 DEF Ledger!Next, Ledger!Close, Ledger!Settled
<1>4. CASE ~AllDone'
  BY <1>1, <1>2, <1>4 DEF Ledger!vars
<1> QED
  BY <1>3, <1>4

(* Every step of a task is a step of the ledger or leaves it unchanged. *)
LEMMA TaskStepIsLedgerStep ==
  ASSUME TypeOK, AttemptsSettledOnce, AttemptsSettledOnce', BudgetInv,
         NEW t \in Tasks, TaskStep(t)
  PROVE  [Ledger!Next]_(Ledger!vars)
<1>1. AttemptEffect(t)
  BY TaskStepAttempts
<1>2. ~AllDone
  BY <1>1 DEF AttemptEffect, AllDone
<1>3. /\ live.completed \in Nat /\ live.failed \in Nat /\ started \in Nat
      /\ issued \in Nat
  BY DEF TypeOK
<1>4. CASE LeavesOnFlag(t) \/ LeavesOnBudget(t)
  BY <1>1, <1>4, LeaveIsLedgerStep
<1>5. CASE Begins(t)
  <2>1. ~AllDone'
    BY <1>5 DEF Begins, AllDone, Idle
  <2>2. MaxTxns # NoTxns => started < MaxTxns
    BY <1>3, <1>5, TxnsAssumption DEF Begins, BudgetSpent, BudgetInv
  <2> QED
    BY <1>2, <1>5, <2>1, <2>2 DEF Begins, Ledger!Next, Ledger!Begin
<1>6. CASE SettlesCompleted(t) \/ SettlesFailed(t)
  <2>1. ~AllDone'
    BY <1>6 DEF SettlesCompleted, SettlesFailed, AllDone
  <2>2. live.completed + live.failed < started
    <3>1. Cardinality(InFlight) >= 1 /\ Cardinality(InFlight) \in Nat
      BY <1>1, <1>6, InFlightStep DEF SettlesCompleted, SettlesFailed
    <3> QED
      BY <1>3, <3>1 DEF AttemptsSettledOnce
  <2>3. CASE SettlesCompleted(t)
    BY <1>2, <2>1, <2>2, <2>3
    DEF SettlesCompleted, Ledger!Next, Ledger!Complete, Ledger!Settled
  <2>4. CASE SettlesFailed(t)
    BY <1>2, <2>1, <2>2, <2>4
    DEF SettlesFailed, Ledger!Next, Ledger!Fail, Ledger!Settled
  <2> QED
    BY <1>6, <2>3, <2>4
<1>7. CASE Continues(t)
  <2>1. ~AllDone'
    BY <1>7 DEF Continues, AllDone
  <2> QED
    BY <1>2, <1>7, <2>1 DEF Continues, Ledger!vars
<1> QED
  BY <1>1, <1>4, <1>5, <1>6, <1>7 DEF AttemptEffect

(* The workload implements the ledger: whatever the tasks, pools and servers
   do, the counters move as the ledger allows. *)
THEOREM WorkloadRefinesLedger == Spec => RefinesLedger
<1>1. Init => Ledger!Init
  <2> SUFFICES ASSUME Init PROVE Ledger!Init
    OBVIOUS
  <2>1. ~AllDone
    BY TasksAssumption DEF Init, AllDone
  <2> QED
    BY <2>1 DEF Init, Ledger!Init
<1>2. TypeOK /\ AttemptsSettledOnce /\ AttemptsSettledOnce' /\ BudgetInv /\ [Next]_vars
        => [Ledger!Next]_(Ledger!vars)
  <2> SUFFICES ASSUME TypeOK, AttemptsSettledOnce, AttemptsSettledOnce', BudgetInv,
                      [Next]_vars
               PROVE  [Ledger!Next]_(Ledger!vars)
    OBVIOUS
  <2>1. ASSUME NEW t \in Tasks, TaskStep(t) PROVE [Ledger!Next]_(Ledger!vars)
    BY <2>1, TaskStepIsLedgerStep
  <2>2. CASE CtrlC \/ DeadlinePasses \/ Finished \/ UNCHANGED vars
    BY <2>2 DEF Ledger!vars, AllDone, CtrlC, DeadlinePasses, Finished, vars
  <2> QED
    BY <2>1, <2>2 DEF Next
<1> QED
  BY <1>1, <1>2, TypeCorrect, AttemptsCorrect, BudgetInvCorrect, PTL
  DEF Spec, RefinesLedger, Ledger!Spec

(***************************************************************************)
(* Statistics: what each update of a TaskStats adds to it.                 *)
(***************************************************************************)
\* the counters a sample leaves alone
Counters(s) ==
  [wait |-> s.wait, verify |-> s.verify, errors |-> s.errors, completed |-> s.completed]

(* A sample adds one to its histogram and nothing else, *)
LEMMA RecAdds ==
  ASSUME NEW s \in TaskStats, NEW step \in Hists
  PROVE  /\ Counters(Rec(s, step)) = Counters(s)
         /\ \A x \in Hists : Rec(s, step).h[x] = IF x = step THEN s.h[x] + 1 ELSE s.h[x]
<1>1. s.h \in [Hists -> Nat]
  BY DEF TaskStats
<1>2. Rec(s, step).h = [s.h EXCEPT ![step] = @ + 1]
  BY DEF TaskStats, Rec
<1>3. Counters(Rec(s, step)) = Counters(s)
  BY DEF TaskStats, Rec, Counters
<1> QED
  BY <1>1, <1>2, <1>3

(* an error one to its step, *)
LEMMA CountErrorAdds ==
  ASSUME NEW s \in TaskStats, NEW step \in Steps
  PROVE  LET n == CountError(s, step)
         IN  /\ n.h = s.h /\ n.wait = s.wait /\ n.verify = s.verify
             /\ n.completed = s.completed
             /\ \A x \in Steps : n.errors[x] = IF x = step THEN s.errors[x] + 1 ELSE s.errors[x]
<1>1. s.errors \in [Steps -> Nat]
  BY DEF TaskStats
<1>2. CountError(s, step).errors = [s.errors EXCEPT ![step] = @ + 1]
  BY DEF TaskStats, CountError
<1> QED
  BY <1>1, <1>2 DEF TaskStats, CountError

(* a status and a verify result one to each of theirs, *)
LEMMA CountResultsAdds ==
  ASSUME NEW s \in TaskStats, NEW status \in WaitStatus \cup {NoStatus},
         NEW found \in Found \cup {NotChecked}
  PROVE  LET n == CountFound(CountStatus(s, status), found)
         IN  /\ n.h = s.h /\ n.errors = s.errors /\ n.completed = s.completed
             /\ \A x \in WaitStatus :
                  n.wait[x] = IF x = status THEN s.wait[x] + 1 ELSE s.wait[x]
             /\ \A x \in Found :
                  n.verify[x] = IF x = found THEN s.verify[x] + 1 ELSE s.verify[x]
<1> DEFINE m == CountStatus(s, status)
<1>1. s.wait \in [WaitStatus -> Nat] /\ s.verify \in [Found -> Nat]
  BY DEF TaskStats
<1>2. /\ m.h = s.h /\ m.errors = s.errors /\ m.completed = s.completed /\ m.verify = s.verify
      /\ \A x \in WaitStatus : m.wait[x] = IF x = status THEN s.wait[x] + 1 ELSE s.wait[x]
  <2>1. CASE status = NoStatus
    BY <2>1 DEF CountStatus, NoStatus, WaitStatus
  <2>2. CASE status # NoStatus
    <3>1. m.wait = [s.wait EXCEPT ![status] = @ + 1]
      BY <2>2 DEF CountStatus, TaskStats
    <3> QED
      BY <1>1, <2>2, <3>1 DEF CountStatus, TaskStats
  <2> QED
    BY <2>1, <2>2
<1>3. m \in TaskStats
  BY CountStatusType
<1> HIDE DEF m
<1>4. LET n == CountFound(m, found)
      IN  /\ n.h = m.h /\ n.errors = m.errors /\ n.completed = m.completed /\ n.wait = m.wait
          /\ \A x \in Found : n.verify[x] = IF x = found THEN m.verify[x] + 1 ELSE m.verify[x]
  <2>1. CASE found = NotChecked
    BY <2>1 DEF CountFound, NotChecked, Found
  <2>2. CASE found # NotChecked
    <3>1. CountFound(m, found).verify = [m.verify EXCEPT ![found] = @ + 1]
      BY <1>3, <2>2 DEF CountFound, TaskStats
    <3> QED
      BY <1>1, <1>2, <1>3, <2>2, <3>1 DEF CountFound, TaskStats
  <2> QED
    BY <2>1, <2>2
<1> QED
  BY <1>2, <1>4 DEF m

(* and a completion one to the total and to the completions. *)
LEMMA CountCompletedAdds ==
  ASSUME NEW s \in TaskStats
  PROVE  LET n == CountCompleted(s)
         IN  /\ n.wait = s.wait /\ n.verify = s.verify /\ n.errors = s.errors
             /\ n.completed = s.completed + 1
             /\ \A x \in Hists : n.h[x] = IF x = "total" THEN s.h[x] + 1 ELSE s.h[x]
<1> DEFINE m == Rec(s, "total")
<1>1. m \in TaskStats
  BY RecType DEF Hists
<1>2. /\ Counters(m) = Counters(s)
      /\ \A x \in Hists : m.h[x] = IF x = "total" THEN s.h[x] + 1 ELSE s.h[x]
  BY RecAdds DEF Hists
<1>3. m.wait = s.wait /\ m.verify = s.verify /\ m.errors = s.errors /\ m.completed = s.completed
  BY <1>2 DEF Counters
<1>4. CountCompleted(s) = [m EXCEPT !.completed = @ + 1]
  BY DEF CountCompleted
<1> HIDE DEF m
<1> QED
  BY <1>1, <1>2, <1>3, <1>4 DEF TaskStats

(* The counters are numbers. *)
LEMMA CountersAreNumbers ==
  ASSUME NEW s \in TaskStats
  PROVE  /\ \A x \in Hists : s.h[x] \in Nat
         /\ \A x \in Steps : s.errors[x] \in Nat
         /\ \A x \in WaitStatus : s.wait[x] \in Nat
         /\ \A x \in Found : s.verify[x] \in Nat
         /\ s.completed \in Nat
BY DEF TaskStats

(***************************************************************************)
(* The progress lines and the report.  A step of a task changes what the   *)
(* task counted and what Ctx.live shows by the same amounts; the sums over *)
(* the tasks follow it (module Counting).                                  *)
(***************************************************************************)
Failures(s) == ErrorTotal(s) + NotConfirmed(s)
Late == {t \in Tasks : pc[t] = "backoff_standby"}

\* what an attempt's end adds to the completions and failures of its task
Counted(s, n, c, f) ==
  n \in TaskStats /\ n.completed = s.completed + c /\ Failures(n) = Failures(s) + f

(* What a task counted are numbers. *)
LEMMA FailuresIsNat ==
  ASSUME NEW s \in TaskStats
  PROVE  Failures(s) \in Nat /\ s.completed \in Nat
<1>1. /\ s.errors["primary_acquire"] \in Nat /\ s.errors["commit"] \in Nat
      /\ s.errors["lsn_fetch"] \in Nat /\ s.errors["standby_acquire"] \in Nat
      /\ s.errors["wait_for_lsn"] \in Nat /\ s.errors["verify"] \in Nat
      /\ s.wait["timeout"] \in Nat /\ s.wait["not_in_recovery"] \in Nat
      /\ s.wait["other"] \in Nat /\ s.completed \in Nat
  BY CountersAreNumbers DEF Steps, WaitStatus
<1> QED
  BY <1>1 DEF Failures, ErrorTotal, NotConfirmed

(* A sample counts nothing, *)
LEMMA RecCounts ==
  ASSUME NEW s \in TaskStats, NEW step \in Hists
  PROVE  Counted(s, Rec(s, step), 0, 0)
<1>1. Rec(s, step) \in TaskStats
  BY RecType
<1>2. Counters(Rec(s, step)) = Counters(s)
  BY RecAdds
<1>3. /\ Rec(s, step).completed = s.completed /\ Rec(s, step).errors = s.errors
      /\ Rec(s, step).wait = s.wait
  BY <1>2 DEF Counters
<1>4. Failures(Rec(s, step)) = Failures(s)
  BY <1>3 DEF Failures, ErrorTotal, NotConfirmed
<1> QED
  BY <1>1, <1>3, <1>4, FailuresIsNat DEF Counted

(* an error one failure, whatever its step, *)
LEMMA ErrorCounts ==
  ASSUME NEW s \in TaskStats, NEW step \in Steps
  PROVE  Counted(s, CountError(s, step), 0, 1)
<1> DEFINE n == CountError(s, step)
           e == [x \in Steps |-> IF x = step THEN 1 ELSE 0]
<1>1. n \in TaskStats
  BY CountErrorType
<1>2. /\ n.wait = s.wait /\ n.completed = s.completed
      /\ \A x \in Steps : n.errors[x] = IF x = step THEN s.errors[x] + 1 ELSE s.errors[x]
  BY CountErrorAdds
<1>3. \A x \in Steps : s.errors[x] \in Nat
  BY CountersAreNumbers
<1>4. \A x \in Steps : n.errors[x] = s.errors[x] + e[x]
  BY <1>2, <1>3
<1>5. e["primary_acquire"] + e["commit"] + e["lsn_fetch"] + e["standby_acquire"]
        + e["wait_for_lsn"] + e["verify"] = 1
  BY DEF Steps
<1>6. \A x \in Steps : e[x] \in {0, 1}
  OBVIOUS
<1> SUFFICES Counted(s, n, 0, 1)
  OBVIOUS
<1> HIDE DEF n, e
<1>7. ErrorTotal(n) = ErrorTotal(s) + 1
  BY <1>3, <1>4, <1>5, <1>6 DEF ErrorTotal, Steps
<1>8. NotConfirmed(n) = NotConfirmed(s) /\ NotConfirmed(s) \in Nat /\ ErrorTotal(s) \in Nat
  BY <1>2, <1>3, CountersAreNumbers DEF NotConfirmed, ErrorTotal, Steps, WaitStatus
<1>9. Failures(n) = Failures(s) + 1
  BY <1>7, <1>8 DEF Failures
<1> QED
  BY <1>1, <1>2, <1>9, FailuresIsNat DEF Counted

(* an answered attempt one failure if its status is not a success, *)
LEMMA ResultsCount ==
  ASSUME NEW s \in TaskStats, NEW status \in WaitStatus \cup {NoStatus},
         NEW found \in Found \cup {NotChecked}
  PROVE  Counted(s, CountFound(CountStatus(s, status), found), 0,
                 IF IsComplete(status) THEN 0 ELSE 1)
<1> DEFINE n == CountFound(CountStatus(s, status), found)
           e == [x \in WaitStatus |-> IF x = status THEN 1 ELSE 0]
<1>1. n \in TaskStats
  BY CountStatusType, CountFoundType
<1>2. /\ n.errors = s.errors /\ n.completed = s.completed
      /\ \A x \in WaitStatus : n.wait[x] = IF x = status THEN s.wait[x] + 1 ELSE s.wait[x]
  BY CountResultsAdds
<1>3. \A x \in WaitStatus : s.wait[x] \in Nat
  BY CountersAreNumbers
<1>4. \A x \in WaitStatus : n.wait[x] = s.wait[x] + e[x]
  BY <1>2, <1>3
<1>5. e["timeout"] + e["not_in_recovery"] + e["other"] = IF IsComplete(status) THEN 0 ELSE 1
  BY DEF WaitStatus, IsComplete, NoStatus
<1>6. \A x \in WaitStatus : e[x] \in {0, 1}
  OBVIOUS
<1> SUFFICES Counted(s, n, 0, IF IsComplete(status) THEN 0 ELSE 1)
  OBVIOUS
<1> HIDE DEF n, e
<1>7. NotConfirmed(n) = NotConfirmed(s) + (IF IsComplete(status) THEN 0 ELSE 1)
  BY <1>3, <1>4, <1>5, <1>6 DEF NotConfirmed, WaitStatus
<1>8. ErrorTotal(n) = ErrorTotal(s) /\ NotConfirmed(s) \in Nat /\ ErrorTotal(s) \in Nat
  BY <1>2, <1>3, CountersAreNumbers DEF NotConfirmed, ErrorTotal, Steps, WaitStatus
<1>9. Failures(n) = Failures(s) + (IF IsComplete(status) THEN 0 ELSE 1)
  BY <1>7, <1>8 DEF Failures
<1> QED
  BY <1>1, <1>2, <1>9, FailuresIsNat DEF Counted

(* and a completion one completion. *)
LEMMA CompletionCounts ==
  ASSUME NEW s \in TaskStats
  PROVE  Counted(s, CountCompleted(s), 1, 0)
<1> DEFINE n == CountCompleted(s)
<1>1. n \in TaskStats
  BY CountCompletedType
<1>2. n.wait = s.wait /\ n.errors = s.errors /\ n.completed = s.completed + 1
  BY CountCompletedAdds
<1> SUFFICES Counted(s, n, 1, 0)
  OBVIOUS
<1> HIDE DEF n
<1>3. Failures(n) = Failures(s)
  BY <1>2 DEF Failures, ErrorTotal, NotConfirmed
<1> QED
  BY <1>1, <1>2, <1>3, FailuresIsNat DEF Counted

Pending(l, labels) == IF l \in labels THEN 1 ELSE 0

\* a task's step: what it counted is what was published, now or after its back-off
TotalsEffect(t) ==
  /\ pc' = [pc EXCEPT ![t] = pc'[t]] /\ st' = [st EXCEPT ![t] = st'[t]]
  /\ \E c, f \in {0, 1} :
       /\ Counted(st[t], st'[t], c, f)
       /\ live'.completed = live.completed + c
       /\ live'.failed + Pending(pc'[t], {"backoff_standby"})
            = live.failed + Pending(pc[t], {"backoff_standby"}) + f

(* Updates that follow one another add up. *)
LEMMA CountedTwice ==
  ASSUME NEW s \in TaskStats, NEW m, NEW n, NEW c \in {0, 1}, NEW f \in {0, 1},
         Counted(s, m, 0, 0), Counted(m, n, c, f)
  PROVE  Counted(s, n, c, f)
<1>1. Failures(s) \in Nat /\ s.completed \in Nat
  BY FailuresIsNat
<1> QED
  BY <1>1 DEF Counted

(* A task that counts nothing and is published nowhere has no effect. *)
LEMMA MoveTotals ==
  ASSUME TypeOK, NEW t \in Tasks, NEW l \in Labels, NEW s \in TaskStats,
         Goto(t, l), SetStats(t, s), UNCHANGED live, Counted(st[t], s, 0, 0),
         pc[t] # "backoff_standby", l # "backoff_standby"
  PROVE  TotalsEffect(t)
<1>1. pc' = [pc EXCEPT ![t] = pc'[t]] /\ pc'[t] = l
  BY DEF TypeOK, Goto
<1>2. st' = [st EXCEPT ![t] = st'[t]] /\ st'[t] = s
  BY DEF TypeOK, SetStats
<1>3. live'.completed = live.completed + 0 /\ live'.failed = live.failed + 0
      /\ live.failed \in Nat
  BY DEF TypeOK
<1>4. Pending(pc'[t], {"backoff_standby"}) = 0 /\ Pending(pc[t], {"backoff_standby"}) = 0
  BY <1>1 DEF Pending
<1>5. Counted(st[t], st'[t], 0, 0)
  BY <1>2
<1> QED
  BY <1>1, <1>2, <1>3, <1>4, <1>5 DEF TotalsEffect

(* An attempt that completes is counted and published at once, *)
LEMMA CompletesTotals ==
  ASSUME TypeOK, NEW t \in Tasks, NEW s \in TaskStats, Completes(t, s),
         Counted(st[t], s, 0, 0), pc[t] # "backoff_standby"
  PROVE  TotalsEffect(t)
<1>1. pc' = [pc EXCEPT ![t] = pc'[t]] /\ pc'[t] = "loop"
  BY DEF TypeOK, Completes, Goto
<1>2. st' = [st EXCEPT ![t] = st'[t]] /\ st'[t] = CountCompleted(s)
  BY DEF TypeOK, Completes, SetStats
<1>3. live'.completed = live.completed + 1 /\ live'.failed = live.failed /\ live.failed \in Nat
  BY DEF TypeOK, Completes
<1>4. Pending(pc'[t], {"backoff_standby"}) = 0 /\ Pending(pc[t], {"backoff_standby"}) = 0
  BY <1>1 DEF Pending
<1>5. Counted(s, CountCompleted(s), 1, 0) /\ st[t] \in TaskStats
  BY CompletionCounts DEF TypeOK
<1>6. Counted(st[t], st'[t], 1, 0)
  BY <1>2, <1>5, CountedTwice
<1> QED
  BY <1>1, <1>2, <1>3, <1>4, <1>6 DEF TotalsEffect

(* so is a primary error, *)
LEMMA PrimaryFailsTotals ==
  ASSUME TypeOK, NEW t \in Tasks, NEW step \in Steps, PrimaryFails(t, step),
         pc[t] # "backoff_standby"
  PROVE  TotalsEffect(t)
<1>1. pc' = [pc EXCEPT ![t] = pc'[t]] /\ pc'[t] = "backoff_primary"
  BY DEF TypeOK, PrimaryFails, Goto
<1>2. st' = [st EXCEPT ![t] = st'[t]] /\ st'[t] = CountError(st[t], step)
  BY DEF TypeOK, PrimaryFails, SetStats
<1>3. live'.completed = live.completed + 0 /\ live'.failed = live.failed + 1
      /\ live.failed \in Nat
  BY DEF TypeOK, PrimaryFails, CountFailed
<1>4. Pending(pc'[t], {"backoff_standby"}) = 0 /\ Pending(pc[t], {"backoff_standby"}) = 0
  BY <1>1 DEF Pending
<1>5. Counted(st[t], st'[t], 0, 1)
  BY <1>2, ErrorCounts DEF TypeOK
<1> QED
  BY <1>1, <1>2, <1>3, <1>4, <1>5 DEF TotalsEffect

(* a standby error is counted before the back-off in which it is late, *)
LEMMA StandbyFailsTotals ==
  ASSUME TypeOK, NEW t \in Tasks, NEW step \in Steps, StandbyFails(t, step),
         pc[t] # "backoff_standby"
  PROVE  TotalsEffect(t)
<1>1. pc' = [pc EXCEPT ![t] = pc'[t]] /\ pc'[t] = "backoff_standby"
  BY DEF TypeOK, StandbyFails, Goto
<1>2. st' = [st EXCEPT ![t] = st'[t]] /\ st'[t] = CountError(st[t], step)
  BY DEF TypeOK, StandbyFails, SetStats
<1>3. live'.completed = live.completed + 0 /\ live'.failed = live.failed
      /\ live.failed \in Nat
  BY DEF TypeOK, StandbyFails
<1>4. Pending(pc'[t], {"backoff_standby"}) = 1 /\ Pending(pc[t], {"backoff_standby"}) = 0
  BY <1>1 DEF Pending
<1>5. Counted(st[t], st'[t], 0, 1)
  BY <1>2, ErrorCounts DEF TypeOK
<1> QED
  BY <1>1, <1>2, <1>3, <1>4, <1>5 DEF TotalsEffect

(* and an answer by its status. *)
LEMMA StandbyReturnsTotals ==
  ASSUME TypeOK, NEW t \in Tasks, NEW s \in TaskStats,
         NEW status \in WaitStatus \cup {NoStatus}, NEW found \in Found \cup {NotChecked},
         StandbyReturns(t, s, status, found),
         Counted(st[t], s, 0, 0), pc[t] # "backoff_standby"
  PROVE  TotalsEffect(t)
<1> DEFINE n == CountFound(CountStatus(s, status), found)
<1>1. Counted(s, n, 0, IF IsComplete(status) THEN 0 ELSE 1) /\ st[t] \in TaskStats
  BY ResultsCount DEF TypeOK
<1>2. Counted(st[t], n, 0, IF IsComplete(status) THEN 0 ELSE 1) /\ n \in TaskStats
  BY <1>1, CountedTwice DEF Counted
<1>3. \/ IsComplete(status) /\ Completes(t, n)
      \/ ~IsComplete(status) /\ SetStats(t, n) /\ CountFailed /\ Goto(t, "loop")
  BY DEF StandbyReturns
<1> HIDE DEF n
<1>4. CASE IsComplete(status) /\ Completes(t, n)
  BY <1>2, <1>4, CompletesTotals
<1>5. CASE ~IsComplete(status) /\ SetStats(t, n) /\ CountFailed /\ Goto(t, "loop")
  <2>1. pc' = [pc EXCEPT ![t] = pc'[t]] /\ pc'[t] = "loop"
    BY <1>5 DEF TypeOK, Goto
  <2>2. st' = [st EXCEPT ![t] = st'[t]] /\ st'[t] = n
    BY <1>5 DEF TypeOK, SetStats
  <2>3. live'.completed = live.completed + 0 /\ live'.failed = live.failed + 1
        /\ live.failed \in Nat
    BY <1>5 DEF TypeOK, CountFailed
  <2>4. Pending(pc'[t], {"backoff_standby"}) = 0 /\ Pending(pc[t], {"backoff_standby"}) = 0
    BY <2>1 DEF Pending
  <2>5. Counted(st[t], st'[t], 0, 1)
    BY <1>2, <1>5, <2>2
  <2> QED
    BY <2>1, <2>2, <2>3, <2>4, <2>5 DEF TotalsEffect
<1> QED
  BY <1>3, <1>4, <1>5

(* Every step of a task publishes what it counts. *)
LEMMA TaskStepTotals ==
  ASSUME TypeOK, NEW t \in Tasks, TaskStep(t)
  PROVE  TotalsEffect(t)
<1> DEFINE s0 == st[t]
<1>s. s0 \in TaskStats /\ Counted(s0, s0, 0, 0)
  BY FailuresIsNat DEF TypeOK, Counted
<1>r. ASSUME NEW step \in Steps
      PROVE  Rec(s0, step) \in TaskStats /\ Counted(s0, Rec(s0, step), 0, 0)
  BY <1>s, <1>r, RecCounts, RecType DEF Hists
<1>m. ASSUME NEW l \in Labels, Goto(t, l), UNCHANGED <<st, live>>,
             pc[t] # "backoff_standby", l # "backoff_standby"
      PROVE  TotalsEffect(t)
  <2>1. SetStats(t, s0)
    BY <1>m DEF SetStats, TypeOK
  <2> QED
    BY <1>s, <1>m, <2>1, MoveTotals
<1>k. ASSUME NEW step \in Steps, pc[t] = step, NEW l \in Labels,
             SetStats(t, Rec(s0, step)), Goto(t, l), UNCHANGED live, l # "backoff_standby"
      PROVE  TotalsEffect(t)
  <2>1. pc[t] # "backoff_standby"
    BY <1>k DEF Steps
  <2> QED
    BY <1>r, <1>k, <2>1, MoveTotals
<1>p. ASSUME NEW s \in TaskStats, Counted(s0, s, 0, 0), PrimaryReturns(t, s),
             pc[t] # "backoff_standby"
      PROVE  TotalsEffect(t)
  <2>1. CASE SetStats(t, s) /\ Goto(t, "standby_acquire") /\ UNCHANGED live
    BY <1>p, <2>1, MoveTotals DEF Labels
  <2>2. CASE Completes(t, s)
    BY <1>p, <2>2, CompletesTotals
  <2> QED
    BY <1>p, <2>1, <2>2 DEF PrimaryReturns
<1>1. CASE CheckFlags(t)
  BY <1>1, <1>m DEF CheckFlags, Labels
<1>2. CASE CountTxn(t)
  BY <1>2, <1>m DEF CountTxn, Labels
<1>3. CASE PrimaryAcquired(t)
  BY <1>3, <1>r, MoveTotals DEF PrimaryAcquired, Steps, Labels
<1>4. CASE PrimaryAcquireFails(t)
  BY <1>4, PrimaryFailsTotals DEF PrimaryAcquireFails, Steps
<1>5. CASE CommitReturns(t)
  <2>1. pc[t] = "commit" /\ Rec(s0, "commit") \in TaskStats
        /\ Counted(s0, Rec(s0, "commit"), 0, 0)
    BY <1>5, <1>r DEF CommitReturns, Steps
  <2>2. CASE NeedsLsn
    BY <1>5, <2>1, <2>2, MoveTotals DEF CommitReturns, Labels
  <2>3. CASE ~NeedsLsn
    <3>1. PrimaryReturns(t, Rec(s0, "commit"))
      BY <1>5, <2>3 DEF CommitReturns
    <3> QED
      BY <2>1, <3>1, <1>p
  <2> QED
    BY <2>2, <2>3
<1>6. CASE CommitFails(t)
  BY <1>6, PrimaryFailsTotals DEF CommitFails, Steps
<1>7. CASE LsnFetched(t)
  <2>1. PICK n \in {0, 1} :
          PrimaryReturns(t, [Rec(s0, "lsn_fetch") EXCEPT !.boundary_lsns = @ + n])
    BY <1>7 DEF LsnFetched
  <2> DEFINE m == [Rec(s0, "lsn_fetch") EXCEPT !.boundary_lsns = @ + n]
  <2>2. Rec(s0, "lsn_fetch") \in TaskStats /\ Counted(s0, Rec(s0, "lsn_fetch"), 0, 0)
    BY <1>r DEF Steps
  <2>3. m \in TaskStats
    BY <2>2, CountBoundaryType
  <2>4. /\ m.errors = Rec(s0, "lsn_fetch").errors /\ m.wait = Rec(s0, "lsn_fetch").wait
        /\ m.completed = Rec(s0, "lsn_fetch").completed
    BY <2>2 DEF TaskStats
  <2>5. Counted(s0, m, 0, 0)
    <3> HIDE DEF m
    <3> QED
      BY <2>2, <2>3, <2>4 DEF Counted, Failures, ErrorTotal, NotConfirmed
  <2>6. pc[t] # "backoff_standby"
    BY <1>7 DEF LsnFetched
  <2> QED
    BY <2>1, <2>3, <2>5, <2>6, <1>p
<1>8. CASE LsnFetchFails(t)
  BY <1>8, PrimaryFailsTotals DEF LsnFetchFails, Steps
<1>9. CASE PrimaryBackoffEnds(t)
  BY <1>9, <1>m DEF PrimaryBackoffEnds, Labels
<1>10. CASE StandbyAcquired(t)
  BY <1>10, <1>r, MoveTotals DEF StandbyAcquired, Steps, Labels
<1>11. CASE StandbyAcquireFails(t)
  BY <1>11, StandbyFailsTotals DEF StandbyAcquireFails, Steps
<1>12. CASE VerifyReturns(t)
  <2> DEFINE status == IF Mode = "waitfor" THEN "success" ELSE NoStatus
  <2>1. PICK found \in Found : StandbyReturns(t, Rec(s0, "verify"), status, found)
    BY <1>12 DEF VerifyReturns
  <2>2. /\ Rec(s0, "verify") \in TaskStats /\ Counted(s0, Rec(s0, "verify"), 0, 0)
        /\ pc[t] # "backoff_standby"
    BY <1>12, <1>r DEF VerifyReturns, Steps
  <2>3. status \in WaitStatus \cup {NoStatus}
    BY DEF WaitStatus
  <2> HIDE DEF status
  <2> QED
    BY <2>1, <2>2, <2>3, StandbyReturnsTotals
<1>13. CASE VerifyFails(t)
  BY <1>13, StandbyFailsTotals DEF VerifyFails, Steps
<1>14. CASE StandbyBackoffEnds(t)
  <2>1. pc' = [pc EXCEPT ![t] = pc'[t]] /\ pc'[t] = "loop" /\ pc[t] = "backoff_standby"
    BY <1>14 DEF TypeOK, StandbyBackoffEnds, Goto
  <2>2. st' = [st EXCEPT ![t] = st'[t]] /\ st'[t] = s0
    BY <1>14 DEF TypeOK, StandbyBackoffEnds
  <2>3. live'.completed = live.completed + 0 /\ live'.failed = live.failed + 1
        /\ live.failed \in Nat
    BY <1>14 DEF TypeOK, StandbyBackoffEnds, CountFailed
  <2>4. Pending(pc'[t], {"backoff_standby"}) = 0 /\ Pending(pc[t], {"backoff_standby"}) = 1
    BY <2>1 DEF Pending
  <2>5. Counted(st[t], st'[t], 0, 0)
    BY <1>s, <2>2
  <2> QED
    BY <2>1, <2>2, <2>3, <2>4, <2>5 DEF TotalsEffect
<1>15. CASE DiagStandbyAnswered(t)
  BY <1>15, <1>m DEF DiagStandbyAnswered, Labels
<1>16. CASE DiagAcquired(t)
  BY <1>16, <1>m DEF DiagAcquired, Labels
<1>17. CASE DiagAcquireFails(t) \/ DiagPrimaryAnswered(t)
  <2>1. pc[t] # "backoff_standby" /\ StandbyReturns(t, s0, "timeout", NotChecked)
    BY <1>17 DEF DiagAcquireFails, DiagPrimaryAnswered
  <2> QED
    BY <1>s, <2>1, StandbyReturnsTotals DEF WaitStatus
<1>18. CASE \E status \in WaitStatus : WaitAnswered(t, status)
  <2>1. PICK status \in WaitStatus : WaitAnswered(t, status)
    BY <1>18
  <2>2. /\ pc[t] = "wait_for_lsn" /\ Rec(s0, "wait_for_lsn") \in TaskStats
        /\ Counted(s0, Rec(s0, "wait_for_lsn"), 0, 0)
    BY <2>1, <1>r DEF WaitAnswered, Steps
  <2>3. CASE status = "success" /\ Verify
    BY <2>1, <2>2, <2>3, MoveTotals DEF WaitAnswered, Labels
  <2>4. CASE ~(status = "success" /\ Verify)
    <3>1. StandbyReturns(t, Rec(s0, "wait_for_lsn"), status, NotChecked)
      BY <2>1, <2>4 DEF WaitAnswered
    <3> QED
      BY <2>2, <3>1, StandbyReturnsTotals
  <2> QED
    BY <2>3, <2>4
<1>19. CASE WaitFails(t)
  BY <1>19, StandbyFailsTotals DEF WaitFails, Steps
<1>20. CASE WaitExpires(t)
  BY <1>20, <1>r, MoveTotals DEF WaitExpires, Steps, Labels
<1> QED
  BY <1>1, <1>2, <1>3, <1>4, <1>5, <1>6, <1>7, <1>8, <1>9, <1>10, <1>11, <1>12,
     <1>13, <1>14, <1>15, <1>16, <1>17, <1>18, <1>19, <1>20
  DEF TaskStep, OwnStep, WaitStep, PrimaryStep, StandbyStep, Diagnose

(* The sums over the tasks move with the task that steps. *)
LEMMA LiveStep ==
  ASSUME TypeOK, TypeOK', LiveMatchesStats, NEW t \in Tasks, TotalsEffect(t)
  PROVE  LiveMatchesStats'
<1> DEFINE cs == [u \in Tasks |-> st[u].completed]
           cn == [u \in Tasks |-> st'[u].completed]
           fs == [u \in Tasks |-> ErrorTotal(st[u]) + NotConfirmed(st[u])]
           fn == [u \in Tasks |-> ErrorTotal(st'[u]) + NotConfirmed(st'[u])]
<1>1. PICK c \in {0, 1}, f \in {0, 1} :
        /\ Counted(st[t], st'[t], c, f)
        /\ live'.completed = live.completed + c
        /\ live'.failed + Pending(pc'[t], {"backoff_standby"})
             = live.failed + Pending(pc[t], {"backoff_standby"}) + f
  BY DEF TotalsEffect
<1>2. \A u \in Tasks \ {t} : st'[u] = st[u] /\ pc'[u] = pc[u]
  BY DEF TotalsEffect, TypeOK
<1>3. IsFiniteSet(Tasks)
  BY TasksAssumption
<1>4. cs \in [Tasks -> Nat] /\ cn \in [Tasks -> Nat]
  BY DEF TypeOK, TaskStats
<1>5. fs \in [Tasks -> Nat] /\ fn \in [Tasks -> Nat]
  BY FailuresIsNat DEF TypeOK, Failures
<1>6. SumFunction(cn) = SumFunction(cs) + c
  <2>1. cn[t] = cs[t] + c /\ \A u \in Tasks \ {t} : cn[u] = cs[u]
    BY <1>1, <1>2 DEF Counted
  <2> HIDE DEF cs, cn
  <2> QED
    BY <1>3, <1>4, <2>1, SumChanges
<1>7. SumFunction(fn) = SumFunction(fs) + f
  <2>1. fn[t] = fs[t] + f
    BY <1>1 DEF Counted, Failures
  <2>2. \A u \in Tasks \ {t} : fn[u] = fs[u]
    BY <1>2
  <2> HIDE DEF fs, fn
  <2> QED
    BY <1>3, <1>5, <2>1, <2>2, SumChanges
<1>8. /\ Cardinality(Late) \in Nat /\ Cardinality(Late') \in Nat
      /\ Cardinality(Late') + Pending(pc[t], {"backoff_standby"})
           = Cardinality(Late) + Pending(pc'[t], {"backoff_standby"})
  <2>1. /\ Late \in SUBSET Tasks /\ Late' \in SUBSET Tasks
        /\ \A u \in Tasks \ {t} : u \in Late' <=> u \in Late
        /\ t \in Late <=> pc[t] = "backoff_standby"
        /\ t \in Late' <=> pc'[t] = "backoff_standby"
    BY <1>2 DEF Late
  <2>2. /\ Pending(pc[t], {"backoff_standby"}) = IF t \in Late THEN 1 ELSE 0
        /\ Pending(pc'[t], {"backoff_standby"}) = IF t \in Late' THEN 1 ELSE 0
    BY <2>1 DEF Pending
  <2> QED
    BY <1>3, <2>1, <2>2, CountStep
<1>9. /\ live.completed = SumFunction(cs)
      /\ live.failed + Cardinality(Late) = SumFunction(fs)
  BY DEF LiveMatchesStats, Late
<1>10. /\ SumFunction(cs) \in Nat /\ SumFunction(fs) \in Nat
       /\ live.failed \in Nat /\ live'.failed \in Nat
  <2> HIDE DEF cs, fs
  <2> QED
    BY <1>3, <1>4, <1>5, SumIsNat DEF TypeOK
<1>11. live'.completed = SumFunction(cn)
  BY <1>1, <1>6, <1>9
<1>12. live'.failed + Cardinality(Late') = SumFunction(fn)
  <2> HIDE DEF cs, cn, fs, fn
  <2>1. /\ Pending(pc[t], {"backoff_standby"}) \in {0, 1}
        /\ Pending(pc'[t], {"backoff_standby"}) \in {0, 1}
    BY DEF Pending
  <2> QED
    BY <1>1, <1>7, <1>8, <1>9, <1>10, <2>1
<1> QED
  BY <1>11, <1>12 DEF LiveMatchesStats, Late

(* What the progress lines show as completed and failed is what the report
   will sum over the tasks, up to the errors still in their back-off. *)
THEOREM LiveMatchesStatsCorrect == Spec => []LiveMatchesStats
<1>1. Init => LiveMatchesStats
  <2> SUFFICES ASSUME Init PROVE LiveMatchesStats
    OBVIOUS
  <2> DEFINE cs == [u \in Tasks |-> st[u].completed]
             fs == [u \in Tasks |-> ErrorTotal(st[u]) + NotConfirmed(st[u])]
  <2>1. \A t \in Tasks : st[t] = NewStats /\ pc[t] = "loop"
    BY DEF Init
  <2>2. /\ \A x \in Steps : NewStats.errors[x] = 0
        /\ \A x \in WaitStatus : NewStats.wait[x] = 0
        /\ NewStats.completed = 0
    BY DEF NewStats
  <2>3. ErrorTotal(NewStats) = 0 /\ NotConfirmed(NewStats) = 0
    BY <2>2 DEF ErrorTotal, NotConfirmed, Steps, WaitStatus
  <2>4. /\ cs \in [Tasks -> Nat] /\ \A x \in Tasks : cs[x] = 0
        /\ fs \in [Tasks -> Nat] /\ \A x \in Tasks : fs[x] = 0
    BY <2>1, <2>2, <2>3
  <2>5. SumFunction(cs) = 0 /\ SumFunction(fs) = 0
    <3> HIDE DEF cs, fs
    <3> QED
      BY <2>4, TasksAssumption, SumIsZero
  <2>6. {t \in Tasks : pc[t] = "backoff_standby"} = {}
    BY <2>1
  <2>7. live.completed = 0 /\ live.failed = 0
    BY DEF Init
  <2>8. /\ live.completed = SumFunction(cs)
        /\ live.failed + Cardinality({t \in Tasks : pc[t] = "backoff_standby"})
             = SumFunction(fs)
    <3> HIDE DEF cs, fs
    <3> QED
      BY <2>5, <2>6, <2>7, FS_EmptySet
  <2> QED
    BY <2>8 DEF LiveMatchesStats
<1>2. TypeOK /\ TypeOK' /\ LiveMatchesStats /\ [Next]_vars => LiveMatchesStats'
  <2> SUFFICES ASSUME TypeOK, TypeOK', LiveMatchesStats, [Next]_vars
               PROVE  LiveMatchesStats'
    OBVIOUS
  <2>1. ASSUME NEW t \in Tasks, TaskStep(t) PROVE LiveMatchesStats'
    BY <2>1, TaskStepTotals, LiveStep
  <2>2. CASE UNCHANGED <<st, pc, live>>
    BY <2>2 DEF LiveMatchesStats, ErrorTotal, NotConfirmed
  <2> QED
    BY <2>1, <2>2 DEF Next, CtrlC, DeadlinePasses, Finished, vars
<1> QED
  BY <1>1, <1>2, TypeCorrect, PTL DEF Spec

(***************************************************************************)
(* Why a run ends: Termination needs fairness and stays with TLC; what it  *)
(* rests on holds for any tasks, pools and options.                        *)
(***************************************************************************)
(* A task that waits for a pool with every connection handed out. *)
Starved(t) ==
  \/ pc[t] \in {"primary_acquire", "diag_acquire"} /\ ~PermitFree(primary, PrimaryPool)
  \/ pc[t] = "standby_acquire" /\ ~PermitFree(standby, StandbyPool)

NoPoolDeadlock ==
  ~AllDone => \E t \in Tasks : pc[t] # "done" /\ ~Starved(t)

(* A pool without a free permit has handed a connection out. *)
LEMMA ExhaustedPoolHasHolder ==
  ASSUME NEW held, NEW size \in Nat \ {0}, ~PermitFree(held, size)
  PROVE  held # {}
BY FS_EmptySet DEF PermitFree

(* Somebody uses a primary connection: that task waits for a statement only. *)
LEMMA PrimaryHolderRuns ==
  ASSUME ConnectionsReturned, primary # {}
  PROVE  \E t \in Tasks : pc[t] # "done" /\ ~Starved(t)
<1>1. PICK t \in Tasks : pc[t] \in OnPrimary
  BY DEF ConnectionsReturned
<1> QED
  BY <1>1 DEF OnPrimary, Starved

(* The pools alone never stop the run, even if get() waited for ever: while a
   task is left, some task that is left waits for no exhausted pool, although
   diagnose_timeout waits for a primary connection with a standby one in hand. *)
THEOREM PoolsNeverDeadlock == Spec => []NoPoolDeadlock
<1>1. ConnectionsReturned => NoPoolDeadlock
  <2> SUFFICES ASSUME ConnectionsReturned, NEW t \in Tasks, pc[t] # "done"
               PROVE  \E u \in Tasks : pc[u] # "done" /\ ~Starved(u)
    BY DEF NoPoolDeadlock, AllDone
  <2>1. CASE primary # {}
    BY <2>1, PrimaryHolderRuns
  <2>2. CASE primary = {}
    <3>1. PermitFree(primary, PrimaryPool)
      BY <2>2, ExhaustedPoolHasHolder, PoolAssumption
    <3>2. CASE PermitFree(standby, StandbyPool)
      BY <3>1, <3>2 DEF Starved
    <3>3. CASE ~PermitFree(standby, StandbyPool)
      <4>1. standby # {}
        BY <3>3, ExhaustedPoolHasHolder, PoolAssumption
      <4>2. PICK u \in Tasks : pc[u] \in OnStandby
        BY <4>1 DEF ConnectionsReturned
      <4> QED
        BY <3>1, <4>2 DEF OnStandby, Starved
    <3> QED
      BY <3>2, <3>3
  <2> QED
    BY <2>1, <2>2
<1> QED
  BY <1>1, ConnectionsCorrect, PTL

(* How many awaits a task has at most ahead of it until it leaves, if it may
   begin no other attempt. *)
Ahead ==
  [done |-> 0, loop |-> 1, backoff_primary |-> 2, backoff_standby |-> 2,
   diag_query |-> 2, diag_acquire |-> 3, diag_standby |-> 4, verify |-> 3,
   wait_for_lsn |-> 5, standby_acquire |-> 6, lsn_fetch |-> 7, commit |-> 8,
   primary_acquire |-> 9, count |-> 10]

RunsDown(t) ==
  \/ Ahead[pc'[t]] < Ahead[pc[t]]
  \/ pc[t] = "loop" /\ pc'[t] = "count" /\ ~stop /\ ~expired

AttemptsRunDown == [][\A t \in Tasks : pc'[t] # pc[t] => RunsDown(t)]_vars

(* A step of a task takes it ahead, and no other task. *)
LEMMA TaskStepRunsDown ==
  ASSUME TypeOK, NEW t \in Tasks, TaskStep(t)
  PROVE  pc' = [pc EXCEPT ![t] = pc'[t]] /\ RunsDown(t)
<1> USE DEF RunsDown, Ahead, Goto, TypeOK
<1>1. CASE CheckFlags(t)
  BY <1>1 DEF CheckFlags
<1>2. CASE CountTxn(t)
  BY <1>2 DEF CountTxn
<1>3. CASE PrimaryAcquired(t)
  BY <1>3 DEF PrimaryAcquired
<1>4. CASE PrimaryAcquireFails(t)
  BY <1>4 DEF PrimaryAcquireFails, PrimaryFails
<1>5. CASE CommitReturns(t)
  BY <1>5 DEF CommitReturns, PrimaryReturns, Completes
<1>6. CASE CommitFails(t)
  BY <1>6 DEF CommitFails, PrimaryFails
<1>7. CASE LsnFetched(t)
  BY <1>7 DEF LsnFetched, PrimaryReturns, Completes
<1>8. CASE LsnFetchFails(t)
  BY <1>8 DEF LsnFetchFails, PrimaryFails
<1>9. CASE PrimaryBackoffEnds(t)
  BY <1>9 DEF PrimaryBackoffEnds
<1>10. CASE StandbyAcquired(t)
  BY <1>10 DEF StandbyAcquired
<1>11. CASE StandbyAcquireFails(t)
  BY <1>11 DEF StandbyAcquireFails, StandbyFails
<1>12. CASE VerifyReturns(t)
  BY <1>12 DEF VerifyReturns, StandbyReturns, Completes
<1>13. CASE VerifyFails(t)
  BY <1>13 DEF VerifyFails, StandbyFails
<1>14. CASE StandbyBackoffEnds(t)
  BY <1>14 DEF StandbyBackoffEnds
<1>15. CASE DiagStandbyAnswered(t)
  BY <1>15 DEF DiagStandbyAnswered
<1>16. CASE DiagAcquired(t)
  BY <1>16 DEF DiagAcquired
<1>17. CASE DiagAcquireFails(t)
  BY <1>17 DEF DiagAcquireFails, StandbyReturns, Completes
<1>18. CASE DiagPrimaryAnswered(t)
  BY <1>18 DEF DiagPrimaryAnswered, StandbyReturns, Completes
<1>19. CASE \E status \in WaitStatus : WaitAnswered(t, status)
  BY <1>19 DEF WaitAnswered, StandbyReturns, Completes
<1>20. CASE WaitFails(t)
  BY <1>20 DEF WaitFails, StandbyFails
<1>21. CASE WaitExpires(t)
  BY <1>21 DEF WaitExpires
<1> QED
  BY <1>1, <1>2, <1>3, <1>4, <1>5, <1>6, <1>7, <1>8, <1>9, <1>10, <1>11, <1>12,
     <1>13, <1>14, <1>15, <1>16, <1>17, <1>18, <1>19, <1>20, <1>21
  DEF TaskStep, OwnStep, WaitStep, PrimaryStep, StandbyStep, Diagnose

(* An attempt has no loop in it: every step of a task brings it nearer to its
   end, whatever fails on the way, and only keep_going, before Ctrl-C and the
   deadline, lets it begin another one. *)
THEOREM AttemptsAlwaysRunDown == Spec => AttemptsRunDown
<1>1. TypeOK /\ [Next]_vars => [\A t \in Tasks : pc'[t] # pc[t] => RunsDown(t)]_vars
  <2> SUFFICES ASSUME TypeOK, [Next]_vars, NEW t \in Tasks, pc'[t] # pc[t]
               PROVE  RunsDown(t)
    OBVIOUS
  <2>1. ASSUME NEW u \in Tasks, TaskStep(u) PROVE RunsDown(t)
    <3>1. pc' = [pc EXCEPT ![u] = pc'[u]] /\ RunsDown(u)
      BY <2>1, TaskStepRunsDown
    <3>2. u = t
      BY <3>1 DEF TypeOK
    <3> QED
      BY <3>1, <3>2
  <2>2. ~CtrlC /\ ~DeadlinePasses /\ ~Finished /\ ~UNCHANGED vars
    BY DEF CtrlC, DeadlinePasses, Finished, vars
  <2> QED
    BY <2>1, <2>2 DEF Next
<1> QED
  BY <1>1, TypeCorrect, PTL DEF Spec, AttemptsRunDown
=============================================================================
