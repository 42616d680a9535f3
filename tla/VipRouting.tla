----------------------------- MODULE VipRouting -----------------------------
(***************************************************************************)
(* The virtual IP of src/patroni/keepalived: every node of a Patroni       *)
(* cluster asks its own Patroni whether it is the primary (chk_primary.sh, *)
(* vrrp_script), lowers its VRRP priority when it is not, and the node of  *)
(* highest priority owns the address.                                      *)
(*                                                                         *)
(* In the repository: the script and the numbers of the two configuration  *)
(* files.  External: keepalived (counting of results, VRRP) and Patroni    *)
(* (one leader at a time; a node is in recovery unless it is the leader).  *)
(* No clock: a check, an advertisement or a timer may take any time, but a *)
(* backup's timer runs out only when it hears no master it must accept.    *)
(***************************************************************************)
EXTENDS Integers

CONSTANTS
  Nodes,        \* the hosts of the cluster, numbered by their addresses
  MasterNode,   \* the one with patroni_monitor_primary.conf
  MaxTroubles   \* bound of the model: lost leaders, failed checks, partitions

ASSUME NodesAssumption == Nodes \subseteq Nat /\ MasterNode \in Nodes
ASSUME TroubleAssumption == MaxTroubles \in Nat

VARIABLES
  leader,     \* holder of Patroni's leader lock, or NoLeader
  result,     \* result[n]: keepalived's counter of the script's results
  owners,     \* nodes in VRRP state MASTER: they answer for the address
  apart,      \* the nodes do not hear each other's advertisements
  troubles    \* things that went wrong so far
vipVars == <<leader, result, owners, apart, troubles>>

NoLeader == -1

(* vrrp_script chk_patroni and priority of the two vrrp_instances          *)
FALL   == 2
RISE   == 2

\* Mutated form of WEIGHT: too light to outweigh the MASTER's higher priority.
WEIGHTLight == -4

WEIGHT == -10
BasePriority(n) == IF n = MasterNode THEN 100 ELSE 95

\* a script that fails subtracts its weight
Priority(n) == BasePriority(n) + IF result[n] >= RISE THEN 0 ELSE WEIGHT

\* RFC 5798: higher priority, and of two equal ones the higher address
Beats(m, n) == Priority(m) > Priority(n) \/ (Priority(m) = Priority(n) /\ m > n)

\* a cluster that has been running for a while
VipInit ==
  /\ leader \in Nodes
  /\ result = [n \in Nodes |-> IF n = leader THEN RISE + FALL - 1 ELSE 0]
  /\ owners = {leader}
  /\ apart = FALSE
  /\ troubles = 0

Trouble == troubles < MaxTroubles /\ troubles' = troubles + 1

-----------------------------------------------------------------------------
(* The health check.                                                       *)

\* chk_primary.sh: exit 0 only for the answer 200 of /primary
ScriptExits(n) == IF leader = n THEN 0 ELSE 1

\* one more success, up once RISE of them came in a row
Succeeded(r) == IF r < RISE - 1 THEN r + 1 ELSE RISE + FALL - 1

\* one more failure, down once FALL of them came in a row
Failed(r) == IF r > RISE THEN r - 1 ELSE 0

CheckRuns(n) ==
  /\ result' = [result EXCEPT ![n] = IF ScriptExits(n) = 0 THEN Succeeded(@) ELSE Failed(@)]
  /\ UNCHANGED <<leader, owners, apart, troubles>>

\* curl gets no answer in time (000), or Patroni restarts: exit 1
CheckFails(n) ==
  /\ Trouble
  /\ result' = [result EXCEPT ![n] = Failed(@)]
  /\ UNCHANGED <<leader, owners, apart>>

-----------------------------------------------------------------------------
(* VRRP (unicast to the peers).                                            *)

\* the master-down timer of a backup runs out: no accepted advertisement
TakesOver(n) ==
  /\ n \notin owners
  /\ apart \/ \A m \in owners : Priority(m) < Priority(n)
  /\ owners' = owners \cup {n}
  /\ UNCHANGED <<leader, result, apart, troubles>>

\* a master hears a better one
Yields(n) ==
  /\ n \in owners
  /\ ~apart
  /\ \E m \in owners : Beats(m, n)
  /\ owners' = owners \ {n}
  /\ UNCHANGED <<leader, result, apart, troubles>>

-----------------------------------------------------------------------------
(* Patroni and the network.                                                *)

\* the leader crashes, is cut off from the DCS or demoted by a switchover
LeaderLost ==
  /\ leader # NoLeader /\ Trouble
  /\ leader' = NoLeader
  /\ UNCHANGED <<result, owners, apart>>

Promoted(n) ==
  /\ leader = NoLeader
  /\ leader' = n
  /\ UNCHANGED <<result, owners, apart, troubles>>

Parted == ~apart /\ Trouble /\ apart' = TRUE /\ UNCHANGED <<leader, result, owners>>
Healed == apart /\ apart' = FALSE /\ UNCHANGED <<leader, result, owners, troubles>>

-----------------------------------------------------------------------------
\* Every variable has its shape.
VipTypeOK ==
  /\ leader \in Nodes \cup {NoLeader}
  /\ result \in [Nodes -> 0 .. RISE + FALL - 1]
  /\ owners \subseteq Nodes
  /\ apart \in BOOLEAN
  /\ troubles \in 0 .. MaxTroubles

\* the checks know the leader, and only its node has the address
Settled ==
  /\ leader # NoLeader /\ ~apart /\ owners = {leader}
  /\ result = [n \in Nodes |-> IF n = leader THEN RISE + FALL - 1 ELSE 0]

\* Once there, the address stays: as long as nothing goes wrong no check, timer
\* or advertisement moves it, whoever leads.
AddressStays == [][Settled /\ troubles' = troubles => Settled']_vipVars

\* After the last trouble the address ends up at the leader, and only there: its
\* checks rise, the others' fall, and ten points outweigh the five between the
\* two configuration files, whoever leads.
VipFindsLeader == <>[](leader # NoLeader /\ owners = {leader})
=============================================================================
