--------------------------- MODULE HATesterProofs ---------------------------
(***************************************************************************)
(* Theorems about HATester, for every set of nodes, every numbering, and   *)
(* any number of troubles and interrupts.                                  *)
(***************************************************************************)
EXTENDS HATester, TLAPS

USE NodesAssumption, TroubleAssumption, InterruptsAssumption, NoNodeAssumption

Calls     == {"start", "connect", "sleep", "ask", "insert", "commit", "max", "exit", "stillborn"}
NoSession == {"start", "connect", "exit", "stillborn"}
Sessions  == [node : Nodes \cup {NoNode}, txn : {"none", "ro", "rw"}]

TesterTypes ==
  /\ tpc \in Calls /\ conn \in Sessions
  /\ tpc \in NoSession => conn = Closed
  /\ conn.node = NoNode => conn = Closed
  /\ presses \in 0 .. MaxInterrupts
  /\ promotions \in Nat /\ refused \in Nat

\* A read-only transaction the next insert is refused for, or the one sent.
Doomed == conn.txn = "ro" /\ (tpc = "insert" \/ conn.node = leader)

\* Every refused insert, and the one to come, has a promotion of its own.
PaidFor == refused + (IF Doomed THEN 1 ELSE 0) <= promotions

HAInv == VipTypeOK /\ TesterTypes /\ PaidFor

-----------------------------------------------------------------------------
(***************************************************************************)
(* The cluster.                                                            *)
(***************************************************************************)

LEMMA TroubleTypes ==
  ASSUME VipTypeOK, Trouble
  PROVE  troubles' \in 0 .. MaxTroubles
BY DEF VipTypeOK, Trouble

LEMMA CountsOfChecks ==
  ASSUME NEW r \in 0 .. RISE + FALL - 1
  PROVE  Succeeded(r) \in 0 .. RISE + FALL - 1 /\ Failed(r) \in 0 .. RISE + FALL - 1
BY DEF Succeeded, Failed, RISE, FALL

LEMMA ClusterTypes ==
  ASSUME VipTypeOK, NEW n \in Nodes,
         \/ CheckRuns(n) \/ CheckFails(n) \/ TakesOver(n) \/ Yields(n)
         \/ LeaderLost \/ Promoted(n) \/ Parted \/ Healed
  PROVE  VipTypeOK'
<1>1. \A r \in 0 .. RISE + FALL - 1 :
        Succeeded(r) \in 0 .. RISE + FALL - 1 /\ Failed(r) \in 0 .. RISE + FALL - 1
  BY CountsOfChecks
<1>2. CASE CheckRuns(n)
  <2>1. result' = [result EXCEPT ![n] = IF ScriptExits(n) = 0 THEN Succeeded(result[n])
                                                              ELSE Failed(result[n])]
    BY <1>2 DEF CheckRuns
  <2>2. result[n] \in 0 .. RISE + FALL - 1
    BY DEF VipTypeOK
  <2>3. result' \in [Nodes -> 0 .. RISE + FALL - 1]
    BY <1>1, <2>1, <2>2 DEF VipTypeOK
  <2> QED
    BY <1>2, <2>3 DEF CheckRuns, VipTypeOK
<1>3. CASE CheckFails(n)
  <2>1. result' = [result EXCEPT ![n] = Failed(result[n])]
    BY <1>3 DEF CheckFails
  <2>2. result' \in [Nodes -> 0 .. RISE + FALL - 1]
    BY <1>1, <2>1 DEF VipTypeOK
  <2> QED
    BY <1>3, <2>2, TroubleTypes DEF CheckFails, VipTypeOK
<1>4. CASE TakesOver(n) \/ Yields(n)
  BY <1>4 DEF TakesOver, Yields, VipTypeOK
<1>5. CASE LeaderLost
  BY <1>5, TroubleTypes DEF LeaderLost, VipTypeOK
<1>6. CASE Promoted(n)
  BY <1>6 DEF Promoted, VipTypeOK
<1>7. CASE Parted
  BY <1>7, TroubleTypes DEF Parted, VipTypeOK
<1>8. CASE Healed
  BY <1>8 DEF Healed, VipTypeOK
<1> QED
  BY <1>2, <1>3, <1>4, <1>5, <1>6, <1>7, <1>8

-----------------------------------------------------------------------------
(***************************************************************************)
(* The tester.                                                             *)
(***************************************************************************)

LEMMA ClosedSession == Closed \in Sessions /\ Closed.txn = "none" /\ Closed.node = NoNode
BY DEF Closed, Sessions

\* A step to a session that is not doomed, with no insert refused, is paid for.
LEMMA SafeStep ==
  ASSUME HAInv, TesterTypes', UNCHANGED <<promotions, refused>>, Doomed' => Doomed
  PROVE  PaidFor'
BY DEF HAInv, PaidFor, TesterTypes

\* The tester's own calls leave the cluster alone.
LEMMA TesterKeeps ==
  ASSUME HAInv, TesterSteps \/ ConnectFails \/ Interrupted
  PROVE  TesterTypes' /\ PaidFor' /\ leader' = leader
<1>0. VipTypeOK /\ TesterTypes /\ PaidFor
  BY DEF HAInv
<1>1. CASE Connected
  <2>1. PICK n \in owners : conn' = [node |-> n, txn |-> "none"]
    BY <1>1 DEF Connected
  <2>2. UNCHANGED <<leader, presses, promotions, refused>> /\ tpc' = "sleep"
    BY <1>1 DEF Connected, vipVars
  <2>3. TesterTypes'
    <3>1. n \in Nodes /\ n # NoNode
      BY <1>0 DEF VipTypeOK
    <3> QED
      BY <1>0, <2>1, <2>2, <3>1 DEF TesterTypes, Sessions, Calls, NoSession
  <2>4. ~Doomed'
    BY <2>1 DEF Doomed
  <2> QED
    BY <2>2, <2>3, <2>4, SafeStep
<1>2. CASE ConnectFails
  <2>1. /\ UNCHANGED <<leader, conn, presses, promotions, refused>>
        /\ tpc \in {"start", "connect"} /\ tpc' \in {"stillborn", "exit"}
    BY <1>2 DEF ConnectFails, Uncaught
  <2>2. TesterTypes'
    BY <1>0, <2>1 DEF TesterTypes, Calls, NoSession
  <2>3. ~Doomed'
    BY <1>0, <2>1, ClosedSession DEF Doomed, TesterTypes, NoSession
  <2> QED
    BY <2>1, <2>2, <2>3, SafeStep
<1>3. CASE SleepEnds \/ MaxReturns
  <2>1. /\ UNCHANGED <<leader, conn, presses, promotions, refused>>
        /\ tpc \notin NoSession /\ tpc' \in {"ask", "sleep"}
    BY <1>3 DEF SleepEnds, MaxReturns, vipVars, NoSession
  <2>2. TesterTypes'
    BY <1>0, <2>1 DEF TesterTypes, Calls, NoSession
  <2>3. Doomed' => Doomed
    BY <2>1 DEF Doomed
  <2> QED
    BY <2>1, <2>2, <2>3, SafeStep
<1>4. CASE Asked
  <2>1. /\ UNCHANGED <<leader, presses, promotions, refused>> /\ tpc = "ask"
        /\ tpc' = IF conn.node = leader THEN "insert" ELSE "max"
        /\ conn' = [conn EXCEPT !.txn = Begun] /\ conn.node # NoNode
    BY <1>0, <1>4 DEF Asked, vipVars, Primary, Alive, VipTypeOK
  <2>2. /\ Begun \in {"none", "ro", "rw"}
        /\ Begun = "ro" /\ conn.node = leader => conn.txn = "ro"
    BY <1>0 DEF Begun, Primary, TesterTypes, Sessions
  <2>3. /\ conn' \in Sessions /\ conn'.node = conn.node /\ conn'.txn = Begun
    BY <1>0, <2>1, <2>2 DEF TesterTypes, Sessions
  <2>4. TesterTypes'
    BY <1>0, <2>1, <2>3 DEF TesterTypes, Calls, NoSession
  <2>5. Doomed' => Doomed
    BY <2>1, <2>2, <2>3 DEF Doomed
  <2> QED
    BY <2>1, <2>4, <2>5, SafeStep
<1>5. CASE InsertReturns
  <2>1. UNCHANGED <<leader, presses, promotions>> /\ tpc = "insert"
    BY <1>5 DEF InsertReturns, vipVars
  <2>2. CASE conn.txn = "rw" /\ tpc' = "commit" /\ UNCHANGED <<conn, refused>>
    <3>1. TesterTypes'
      BY <1>0, <2>1, <2>2 DEF TesterTypes, Calls, NoSession
    <3>2. ~Doomed'
      BY <2>2 DEF Doomed
    <3> QED
      BY <2>1, <2>2, <3>1, <3>2, SafeStep
  <2>3. CASE conn.txn = "ro" /\ Reconnects /\ refused' = refused + 1
    <3>1. tpc' = "connect" /\ conn' = Closed
      BY <2>3 DEF Reconnects
    <3>2. TesterTypes'
      BY <1>0, <2>1, <2>3, <3>1, ClosedSession DEF TesterTypes, Calls, NoSession
    <3>3. Doomed
      BY <2>1, <2>3 DEF Doomed
    <3>4. ~Doomed'
      BY <3>1, ClosedSession DEF Doomed
    <3>5. refused + 1 <= promotions
      BY <1>0, <3>3 DEF PaidFor
    <3>6. PaidFor'
      BY <1>0, <2>1, <2>3, <3>4, <3>5 DEF PaidFor, TesterTypes
    <3> QED
      BY <2>1, <3>2, <3>6
  <2> QED
    BY <1>5, <2>2, <2>3 DEF InsertReturns
<1>6. CASE CommitReturns
  <2>1. /\ UNCHANGED <<leader, presses, promotions, refused>> /\ tpc' = "sleep"
        /\ conn' = [conn EXCEPT !.txn = "none"] /\ conn.node # NoNode
    BY <1>0, <1>6 DEF CommitReturns, vipVars, Alive, VipTypeOK
  <2>2. conn' \in Sessions /\ conn'.txn = "none" /\ conn'.node = conn.node
    BY <1>0, <2>1 DEF TesterTypes, Sessions
  <2>3. TesterTypes' /\ ~Doomed'
    BY <1>0, <2>1, <2>2 DEF TesterTypes, Calls, NoSession, Doomed
  <2> QED
    BY <2>1, <2>3, SafeStep
<1>7. CASE StatementFails \/ Interrupted
  <2>1. /\ UNCHANGED <<leader, promotions, refused>>
        /\ presses' \in 0 .. MaxInterrupts
    BY <1>0, <1>7 DEF StatementFails, Interrupted, vipVars, TesterTypes
  <2>2. CASE Reconnects
    <3>1. tpc' = "connect" /\ conn' = Closed
      BY <2>2 DEF Reconnects
    <3>2. TesterTypes'
      BY <1>0, <2>1, <3>1, ClosedSession DEF TesterTypes, Calls
    <3>3. ~Doomed'
      BY <3>1, ClosedSession DEF Doomed
    <3> QED
      BY <2>1, <3>2, <3>3, SafeStep
  <2>3. CASE tpc \in {"start", "connect"} /\ tpc' = Uncaught /\ UNCHANGED conn
    <3>1. tpc' \in {"stillborn", "exit"} /\ conn = Closed
      BY <1>0, <2>3 DEF Uncaught, TesterTypes, NoSession
    <3>2. TesterTypes'
      BY <1>0, <2>1, <2>3, <3>1, ClosedSession DEF TesterTypes, Calls
    <3>3. ~Doomed'
      BY <2>3, <3>1, ClosedSession DEF Doomed
    <3> QED
      BY <2>1, <3>2, <3>3, SafeStep
  <2> QED
    BY <1>7, <2>2, <2>3 DEF StatementFails, Interrupted
<1> QED
  BY <1>1, <1>2, <1>3, <1>4, <1>5, <1>6, <1>7 DEF TesterSteps

\* A session of a server that went is closed, and any other goes on.
LEMMA SessionsAfter ==
  ASSUME TesterTypes, NEW gone \in SUBSET Nodes, conn' = SessionAfter(gone),
         UNCHANGED <<tpc, presses, promotions, refused>>
  PROVE  TesterTypes' /\ conn' \in {Closed, conn}
<1>1. conn' \in {Closed, conn}
  BY DEF SessionAfter
<1>2. TesterTypes'
  BY <1>1, ClosedSession DEF TesterTypes
<1> QED
  BY <1>1, <1>2

LEMMA StepKeeps ==
  ASSUME HAInv, [HANext]_haVars
  PROVE  HAInv'
<1>0. VipTypeOK /\ TesterTypes /\ PaidFor
  BY DEF HAInv
<1>1. CASE TesterSteps \/ ConnectFails \/ Interrupted
  <2>1. TesterTypes' /\ PaidFor'
    BY <1>1, TesterKeeps
  <2>2. CASE ConnectFails
    <3>1. UNCHANGED <<leader, result, owners, apart>> /\ Trouble
      BY <2>2 DEF ConnectFails
    <3> QED
      BY <1>0, <2>1, <3>1, TroubleTypes DEF HAInv, VipTypeOK
  <2>3. CASE TesterSteps \/ Interrupted
    <3>1. UNCHANGED <<leader, result, owners, apart, troubles>>
      BY <2>3 DEF TesterSteps, Connected, SleepEnds, Asked, InsertReturns, CommitReturns,
                  MaxReturns, StatementFails, Interrupted, vipVars
    <3> QED
      BY <1>0, <2>1, <3>1 DEF HAInv, VipTypeOK
  <2> QED
    BY <1>1, <2>2, <2>3
<1>2. CASE ClusterMoves
  <2>1. PICK n \in Nodes :
          /\ CheckRuns(n) \/ CheckFails(n) \/ TakesOver(n) \/ Parted \/ Healed
          /\ UNCHANGED <<testerVars, promotions>>
    BY <1>2 DEF ClusterMoves
  <2>2. VipTypeOK'
    BY <1>0, <2>1, ClusterTypes
  <2>3. UNCHANGED <<leader, tpc, conn, presses, refused, promotions>>
    BY <2>1 DEF CheckRuns, CheckFails, TakesOver, Parted, Healed, testerVars
  <2>4. TesterTypes' /\ PaidFor'
    BY <1>0, <2>3 DEF TesterTypes, PaidFor, Doomed
  <2> QED
    BY <2>2, <2>4 DEF HAInv
<1>3. CASE AddressLeaves
  <2>1. PICK n \in Nodes :
          /\ Yields(n) /\ conn' = SessionAfter({n})
          /\ UNCHANGED <<tpc, presses, promotions, refused>>
    BY <1>3 DEF AddressLeaves
  <2>2. VipTypeOK' /\ leader' = leader
    BY <1>0, <2>1, ClusterTypes DEF Yields
  <2>3. TesterTypes' /\ conn' \in {Closed, conn}
    BY <1>0, <2>1, SessionsAfter
  <2>4. Doomed' => Doomed
    BY <2>1, <2>2, <2>3, ClosedSession DEF Doomed
  <2> QED
    BY <2>1, <2>2, <2>3, <2>4, SafeStep DEF HAInv
<1>4. CASE PrimaryLost
  <2>1. /\ LeaderLost /\ conn' = SessionAfter({leader})
        /\ UNCHANGED <<tpc, presses, promotions, refused>>
    BY <1>4 DEF PrimaryLost
  <2>2. leader \in Nodes /\ leader' = NoLeader
    BY <1>0, <2>1 DEF LeaderLost, VipTypeOK
  <2>3. VipTypeOK'
    BY <1>0, <2>1, <2>2, ClusterTypes
  <2>4. TesterTypes' /\ conn' \in {Closed, conn}
    BY <1>0, <2>1, <2>2, SessionsAfter
  <2>5. Doomed' => Doomed
    <3>1. SUFFICES ASSUME Doomed' PROVE Doomed
      OBVIOUS
    <3>2. conn'.txn = "ro" /\ (tpc' = "insert" \/ conn'.node = NoLeader)
      BY <2>2, <3>1 DEF Doomed
    <3>3. conn' = conn /\ conn # Closed
      BY <2>4, <3>2, ClosedSession
    <3>4. conn.node # NoNode
      BY <1>0, <3>2, <3>3 DEF TesterTypes
    <3>5. conn.node \in Nodes
      BY <1>0, <3>4 DEF TesterTypes, Sessions
    <3>6. NoLeader \notin Nodes
      BY DEF NoLeader
    <3> QED
      BY <2>1, <3>2, <3>3, <3>5, <3>6 DEF Doomed
  <2> QED
    BY <2>1, <2>3, <2>4, <2>5, SafeStep DEF HAInv
<1>5. CASE StandbyPromoted
  <2>1. PICK n \in Nodes : Promoted(n) /\ promotions' = promotions + 1 /\ UNCHANGED testerVars
    BY <1>5 DEF StandbyPromoted
  <2>2. VipTypeOK'
    BY <1>0, <2>1, ClusterTypes
  <2>3. UNCHANGED <<tpc, conn, presses, refused>>
    BY <2>1 DEF testerVars
  <2>4. TesterTypes'
    BY <1>0, <2>1, <2>3 DEF TesterTypes
  <2>5. refused <= promotions
    BY <1>0 DEF PaidFor, TesterTypes
  <2>6. PaidFor'
    BY <1>0, <2>1, <2>3, <2>5 DEF PaidFor, TesterTypes
  <2> QED
    BY <2>2, <2>4, <2>6 DEF HAInv
<1>6. CASE UNCHANGED haVars
  <2>1. UNCHANGED <<leader, result, owners, apart, troubles, tpc, conn, presses, promotions, refused>>
    BY <1>6 DEF haVars, vipVars
  <2> QED
    BY <1>0, <2>1 DEF HAInv, VipTypeOK, TesterTypes, PaidFor, Doomed
<1> QED
  BY <1>1, <1>2, <1>3, <1>4, <1>5, <1>6 DEF HANext

-----------------------------------------------------------------------------
LEMMA InitHolds == TesterInit => HAInv
<1> SUFFICES ASSUME TesterInit PROVE HAInv
  OBVIOUS
<1>1. VipTypeOK
  <2>1. result = [n \in Nodes |-> IF n = leader THEN 3 ELSE 0]
    BY DEF TesterInit, VipInit, RISE, FALL
  <2>2. result \in [Nodes -> 0 .. 3]
    BY <2>1
  <2>3. leader \in Nodes /\ owners = {leader} /\ apart = FALSE /\ troubles = 0
    BY DEF TesterInit, VipInit
  <2>4. RISE + FALL - 1 = 3 /\ troubles \in 0 .. MaxTroubles
    BY <2>3 DEF RISE, FALL
  <2> QED
    BY <2>2, <2>3, <2>4 DEF VipTypeOK
<1>2. TesterTypes
  BY ClosedSession DEF TesterInit, TesterTypes, Calls
<1>3. PaidFor
  BY ClosedSession DEF TesterInit, PaidFor, Doomed
<1> QED
  BY <1>1, <1>2, <1>3 DEF HAInv

LEMMA HAInvHolds == HASpec => []HAInv
<1> QED
  BY InitHolds, StepKeeps, PTL DEF HASpec

\* Every variable of the tester and the cluster has its shape, and no session
\* outlives the call of create_conn that replaces it.
THEOREM HATypesCorrect == HASpec => []HATypeOK
<1>1. HAInv => HATypeOK
  BY DEF HAInv, TesterTypes, HATypeOK, Calls, NoSession, Sessions
<1> QED
  BY <1>1, HAInvHolds, PTL

\* A promotion under the tester's open read-only transaction costs it one insert.
THEOREM PromotionAlwaysCostsOneInsert == HASpec => []PromotionCostsOneInsert
<1>1. HAInv => PromotionCostsOneInsert
  BY DEF HAInv, PaidFor, TesterTypes, PromotionCostsOneInsert
<1> QED
  BY <1>1, HAInvHolds, PTL

-----------------------------------------------------------------------------
(***************************************************************************)
(* The virtual IP at rest.                                                 *)
(***************************************************************************)

\* The weight outweighs the difference between the two configuration files: a
\* node whose checks rise has a higher priority than any whose checks fall.
LEMMA RisingOutranksFalling ==
  ASSUME NEW m \in Nodes, NEW n \in Nodes, result[m] = RISE + FALL - 1, result[n] = 0
  PROVE  /\ Priority(m) > Priority(n) /\ ~Beats(n, m)
         /\ ~(Priority(m) < Priority(n))
<1>1. BasePriority(m) \in {95, 100} /\ BasePriority(n) \in {95, 100}
  BY DEF BasePriority
<1>2. result[m] >= RISE /\ ~(result[n] >= RISE)
  BY DEF RISE, FALL
<1>3. Priority(m) = BasePriority(m) + 0
  BY <1>2 DEF Priority
<1>4. Priority(n) = BasePriority(n) + (-10)
  BY <1>2 DEF Priority, WEIGHT
<1> QED
  BY <1>1, <1>3, <1>4 DEF Beats

\* What the scripts report at rest is what keepalived knows already.
LEMMA CheckAtRest ==
  ASSUME Settled, leader \in Nodes, NEW n \in Nodes, CheckRuns(n)
  PROVE  result' = result
<1>1. CASE n = leader
  <2>1. result[n] = 3
    BY <1>1 DEF Settled, RISE, FALL
  <2>2. Succeeded(result[n]) = 3
    BY <2>1 DEF Succeeded, RISE, FALL
  <2>3. result' = [result EXCEPT ![n] = Succeeded(result[n])]
    BY <1>1 DEF CheckRuns, ScriptExits
  <2> QED
    BY <2>1, <2>2, <2>3 DEF Settled
<1>2. CASE n # leader
  <2>1. result[n] = 0
    BY <1>2 DEF Settled
  <2>2. Failed(result[n]) = 0
    BY <2>1 DEF Failed, RISE
  <2>3. ScriptExits(n) = 1
    BY <1>2 DEF ScriptExits
  <2>4. ~(ScriptExits(n) = 0)
    BY <2>3
  <2>5. result' = [result EXCEPT ![n] = Failed(result[n])]
    BY <2>4 DEF CheckRuns
  <2> QED
    BY <2>1, <2>2, <2>5 DEF Settled
<1> QED
  BY <1>1, <1>2

LEMMA ClusterAtRest ==
  ASSUME Settled, leader \in Nodes, VipTypeOK, NEW n \in Nodes, troubles' = troubles,
         \/ CheckRuns(n) \/ CheckFails(n) \/ TakesOver(n) \/ Yields(n)
         \/ LeaderLost \/ Promoted(n) \/ Parted \/ Healed
  PROVE  Settled'
<1>1. \A m \in Nodes : result[m] = IF m = leader THEN RISE + FALL - 1 ELSE 0
  BY DEF Settled
<1>2. ~Trouble
  BY DEF Trouble, VipTypeOK
<1>3. CASE CheckRuns(n)
  <2>1. UNCHANGED <<leader, result, owners, apart>>
    BY <1>3, CheckAtRest DEF CheckRuns
  <2> QED
    BY <2>1 DEF Settled
<1>4. ~TakesOver(n)
  <2>1. SUFFICES ASSUME n # leader, Priority(leader) < Priority(n) PROVE FALSE
    BY DEF TakesOver, Settled
  <2>2. result[leader] = RISE + FALL - 1 /\ result[n] = 0
    BY <1>1, <2>1
  <2> QED
    BY <2>1, <2>2, RisingOutranksFalling
<1>5. ~Yields(n)
  <2>1. SUFFICES ASSUME n = leader, Beats(leader, leader) PROVE FALSE
    BY DEF Yields, Settled
  <2>2. Priority(leader) \in Int /\ leader \in Nat
    <3>1. BasePriority(leader) \in {95, 100} /\ WEIGHT \in Int
      BY DEF BasePriority, WEIGHT
    <3> QED
      BY <3>1 DEF Priority
  <2> QED
    BY <2>1, <2>2 DEF Beats
<1>6. ~Promoted(n) /\ ~Healed
  BY DEF Promoted, Healed, Settled
<1>7. ~CheckFails(n) /\ ~LeaderLost /\ ~Parted
  BY <1>2 DEF CheckFails, LeaderLost, Parted
<1> QED
  BY <1>3, <1>4, <1>5, <1>6, <1>7

\* Whoever leads and however many nodes there are: while nothing goes wrong the
\* address stays at the leader's node once it is there and the checks know it.
THEOREM AddressStaysAtLeader == HASpec => AddressStays
<1>1. HAInv /\ [HANext]_haVars => [Settled /\ troubles' = troubles => Settled']_vipVars
  <2> SUFFICES ASSUME HAInv, [HANext]_haVars, Settled, troubles' = troubles,
                      ~UNCHANGED vipVars
               PROVE  Settled'
    OBVIOUS
  <2>1. leader \in Nodes /\ VipTypeOK
    BY DEF HAInv, VipTypeOK, Settled
  <2>2. ~TesterSteps /\ ~Interrupted
    BY DEF TesterSteps, Connected, SleepEnds, Asked, InsertReturns, CommitReturns,
           MaxReturns, StatementFails, Interrupted
  <2>3. ~ConnectFails
    BY <2>1 DEF ConnectFails, Trouble, VipTypeOK
  <2>4. ~UNCHANGED haVars
    BY DEF haVars
  <2>5. \E n \in Nodes :
          \/ CheckRuns(n) \/ CheckFails(n) \/ TakesOver(n) \/ Yields(n)
          \/ LeaderLost \/ Promoted(n) \/ Parted \/ Healed
    BY <2>1, <2>2, <2>3, <2>4
       DEF HANext, ClusterMoves, AddressLeaves, PrimaryLost, StandbyPromoted
  <2> QED
    BY <2>1, <2>5, ClusterAtRest
<1> QED
  BY <1>1, HAInvHolds, PTL DEF HASpec, AddressStays
=============================================================================
