------------------------------ MODULE HATester ------------------------------
(***************************************************************************)
(* src/patroni/HAtester.py connected through the virtual IP: one session,  *)
(* one transaction after the other on a primary, one long transaction on a *)
(* replica, and a reconnect after every exception, Ctrl-C included.        *)
(*                                                                         *)
(* External: the servers.  A transaction begun in recovery stays read-only *)
(* after a promotion, although pg_is_in_recovery() then answers false; a   *)
(* session ends with its server and when the address leaves its node.      *)
(***************************************************************************)
EXTENDS VipRouting

CONSTANTS
  MaxInterrupts,  \* bound of the model: Ctrl-C
  NoNode

ASSUME InterruptsAssumption == MaxInterrupts \in Nat
ASSUME NoNodeAssumption == NoNode \notin Nodes

VARIABLES
  tpc,        \* the call the tester is in
  conn,       \* conn: its node and its open transaction; node NoNode is closed
  presses,    \* Ctrl-C so far
  promotions, \* history: promotions so far
  refused     \* history: inserts refused as read-only

testerVars == <<tpc, conn, presses, refused>>
haVars == <<vipVars, tpc, conn, presses, promotions, refused>>

Closed == [node |-> NoNode, txn |-> "none"]

TesterInit ==
  /\ VipInit
  /\ tpc = "start"
  /\ conn = Closed
  /\ presses = 0 /\ promotions = 0 /\ refused = 0

\* the session still reaches its server
Alive == conn.node \in owners

Primary(n) == n = leader

-----------------------------------------------------------------------------
(* create_conn, at the start of the script and in its except clause        *)

Connected ==
  /\ tpc \in {"start", "connect"}
  /\ \E n \in owners : conn' = [node |-> n, txn |-> "none"]
  /\ tpc' = "sleep"
  /\ UNCHANGED <<vipVars, presses, promotions, refused>>

\* what an exception out of create_conn makes of the script
Uncaught == IF tpc = "start" THEN "stillborn" ELSE "exit"

\* psycopg2.Error: sys.exit(1), which nothing catches in the except clause
ConnectFails ==
  /\ tpc \in {"start", "connect"}
  /\ Trouble
  /\ tpc' = Uncaught
  /\ UNCHANGED <<leader, result, owners, apart, conn, presses, promotions, refused>>

-----------------------------------------------------------------------------
(* the loop                                                                *)

SleepEnds ==
  /\ tpc = "sleep"
  /\ tpc' = "ask"
  /\ UNCHANGED <<vipVars, conn, presses, promotions, refused>>

\* the first statement begins a transaction, read-only on a replica
Begun == IF conn.txn # "none" THEN conn.txn
         ELSE IF Primary(conn.node) THEN "rw" ELSE "ro"

\* select pg_is_in_recovery()
Asked ==
  /\ tpc = "ask" /\ Alive
  /\ conn' = [conn EXCEPT !.txn = Begun]
  /\ tpc' = IF Primary(conn.node) THEN "insert" ELSE "max"
  /\ UNCHANGED <<vipVars, presses, promotions, refused>>

\* Mutated form of Reconnects: after an error the session goes on.
ReconnectsNever == tpc' = "sleep" /\ UNCHANGED conn

\* Mutated form of Reconnects: the old session is not closed.
ReconnectsUnclosed == tpc' = "connect" /\ UNCHANGED conn

\* the except clause: close, create_conn
Reconnects == tpc' = "connect" /\ conn' = Closed

InsertReturns ==
  /\ tpc = "insert" /\ Alive
  /\ \/ /\ conn.txn = "rw"
        /\ tpc' = "commit"
        /\ UNCHANGED <<conn, refused>>
     \/ /\ conn.txn = "ro"
        /\ Reconnects
        /\ refused' = refused + 1
  /\ UNCHANGED <<vipVars, presses, promotions>>

CommitReturns ==
  /\ tpc = "commit" /\ Alive
  /\ conn' = [conn EXCEPT !.txn = "none"]
  /\ tpc' = "sleep"
  /\ UNCHANGED <<vipVars, presses, promotions, refused>>

\* SELECT MAX(TM): the transaction stays open
MaxReturns ==
  /\ tpc = "max" /\ Alive
  /\ tpc' = "sleep"
  /\ UNCHANGED <<vipVars, conn, presses, promotions, refused>>

\* OperationalError: the server is gone, or the address is elsewhere
StatementFails ==
  /\ tpc \in {"ask", "insert", "commit", "max"} /\ ~Alive
  /\ Reconnects
  /\ UNCHANGED <<vipVars, presses, promotions, refused>>

\* KeyboardInterrupt: caught by the bare except of the loop, by nothing in create_conn
Interrupted ==
  /\ presses < MaxInterrupts
  /\ presses' = presses + 1
  /\ \/ tpc \in {"sleep", "ask", "insert", "commit", "max"} /\ Reconnects
     \/ tpc \in {"start", "connect"} /\ tpc' = Uncaught /\ UNCHANGED conn
  /\ UNCHANGED <<vipVars, promotions, refused>>

TesterSteps ==
  \/ Connected \/ SleepEnds \/ Asked \/ InsertReturns
  \/ CommitReturns \/ MaxReturns \/ StatementFails

-----------------------------------------------------------------------------
(* The cluster under the session.                                          *)

\* a demotion restarts the server: its sessions are gone
SessionAfter(gone) == IF conn.node \in gone THEN Closed ELSE conn

ClusterMoves == \E n \in Nodes :
  /\ CheckRuns(n) \/ CheckFails(n) \/ TakesOver(n) \/ Parted \/ Healed
  /\ UNCHANGED <<testerVars, promotions>>

AddressLeaves == \E n \in Nodes :
  /\ Yields(n)
  /\ conn' = SessionAfter({n})
  /\ UNCHANGED <<tpc, presses, promotions, refused>>

PrimaryLost ==
  /\ LeaderLost
  /\ conn' = SessionAfter({leader})
  /\ UNCHANGED <<tpc, presses, promotions, refused>>

StandbyPromoted == \E n \in Nodes :
  /\ Promoted(n)
  /\ promotions' = promotions + 1
  /\ UNCHANGED testerVars

HANext ==
  \/ TesterSteps \/ ConnectFails \/ Interrupted
  \/ ClusterMoves \/ AddressLeaves \/ PrimaryLost \/ StandbyPromoted

HASpec == TesterInit /\ [][HANext]_haVars

(***************************************************************************)
(* Fairness: checks run every second, timers run out, partitions heal,     *)
(* Patroni elects, and the tester's calls return.  Troubles are bounded.   *)
(***************************************************************************)
HAFairness ==
  /\ \A n \in Nodes :
       /\ WF_haVars(CheckRuns(n) /\ UNCHANGED <<testerVars, promotions>>)
       /\ WF_haVars(TakesOver(n) /\ UNCHANGED <<testerVars, promotions>>)
  /\ WF_haVars(Healed /\ UNCHANGED <<testerVars, promotions>>)
  /\ WF_haVars(AddressLeaves)
  /\ WF_haVars(StandbyPromoted)
  /\ WF_haVars(TesterSteps)

-----------------------------------------------------------------------------
\* Every variable has its shape, and no session outlives the call of create_conn.
HATypeOK ==
  /\ VipTypeOK
  /\ tpc \in {"start", "connect", "sleep", "ask", "insert", "commit", "max",
              "exit", "stillborn"}
  /\ conn \in [node : Nodes \cup {NoNode}, txn : {"none", "ro", "rw"}]
  /\ presses \in 0 .. MaxInterrupts
  /\ promotions \in Nat /\ refused \in Nat
  /\ tpc \in {"start", "connect", "exit", "stillborn"} => conn = Closed

\* A tester that was reading from a replica when it was promoted loses one insert
\* to the transaction it left open, and no more: the reconnect ends it.
PromotionCostsOneInsert == refused <= promotions

\* After the last trouble the tester commits again and again, unless it has ended:
\* no session is left on a replica or in a transaction that cannot write.
TesterWritesAgain == []<>(tpc \in {"commit", "exit", "stillborn"})

-----------------------------------------------------------------------------
(* A claim of the script's header the code does not keep.                  *)

\* "including connection retry on connection failure": once it has worked, only
\* the user ends the tester.
ConnectionIsRetried == tpc = "exit" => presses > 0
=============================================================================
