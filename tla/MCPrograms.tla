----------------------------- MODULE MCPrograms -----------------------------
(***************************************************************************)
(* The small client programs for TLC, one instance of each and one of them *)
(* per behaviour: the threaded pools (PooledThreads), the Rust loops       *)
(* (ClientLoops), or the HA tester on the virtual IP (HATester).  They     *)
(* share nothing: the two that do not run are over from the start, where   *)
(* no step of theirs is enabled and every property of theirs holds.        *)
(***************************************************************************)
EXTENDS PooledThreads, ClientLoops, HATester

VARIABLE running  \* which one; never changes
allVars == <<running, vars, loopVars, haVars>>

PoolsOver ==
  /\ program = "plain" /\ mpc = "end" /\ interrupts = 0 /\ closed = TRUE
  /\ sem = MaxConn /\ pool = [idle |-> 0, used |-> 0, leaked |-> 0]
  /\ thr = [t \in Threads |-> NewThread]

LoopsAreOver ==
  /\ client = "churn" /\ main = "over"
  /\ task = [t \in LoopTasks |-> [NewTask EXCEPT !.over = TRUE]]
  /\ count = [ok |-> 0, err |-> 0] /\ shown = count
  /\ draining = 0 /\ permits = PoolSize
  /\ idle = [live |-> 0, dead |-> 0, closed |-> 0] /\ restarts = 0

TesterOver ==
  /\ VipInit /\ leader = MasterNode
  /\ tpc = "exit" /\ conn = Closed /\ presses = 1 /\ promotions = 0 /\ refused = 0

Start ==
  \/ running = "pools"  /\ Init      /\ LoopsAreOver /\ TesterOver
  \/ running = "loops"  /\ LoopsInit /\ PoolsOver    /\ TesterOver
  \/ running = "tester" /\ TesterInit /\ PoolsOver   /\ LoopsAreOver

Step ==
  /\ UNCHANGED running
  /\ \/ running = "pools"  /\ Next      /\ UNCHANGED <<loopVars, haVars>>
     \/ running = "loops"  /\ LoopsNext /\ UNCHANGED <<vars, haVars>>
     \/ running = "tester" /\ HANext    /\ UNCHANGED <<vars, loopVars>>

AllSpec == Start /\ [][Step]_allVars /\ Fairness /\ LoopsFairness /\ HAFairness
=============================================================================
