------------------------- MODULE RunLifecycleProofs -------------------------
(***************************************************************************)
(* Theorems about RunLifecycle, for every number of tasks, pool sizes,     *)
(* set of command lines and pair of servers.                               *)
(***************************************************************************)
EXTENDS RunLifecycle, Counting

(***************************************************************************)
(* Accumulators.                                                           *)
(***************************************************************************)

\* The larger of two numbers is one of them.
LEMMA LargerType == ASSUME NEW a \in Nat, NEW b \in Nat PROVE Larger(a, b) \in Nat
  BY DEF Larger

\* Accumulators stay records of numbers.
LEMMA AccumulatorTypes ==
  ASSUME NEW a \in Accumulators, NEW b \in Accumulators,
         NEW in_use \in Nat, NEW waiting \in Nat
  PROVE  /\ NoSamples \in Accumulators
         /\ AddSample(a, in_use, waiting) \in Accumulators
         /\ Combine(a, b) \in Accumulators
  BY DEF Accumulators, NoSamples, AddSample, Combine, Larger

\* Adding a sample to the open interval adds it to the whole (UsageAcc::add).
LEMMA CombineAdd ==
  ASSUME NEW a \in Accumulators, NEW b \in Accumulators,
         NEW in_use \in Nat, NEW waiting \in Nat
  PROVE  Combine(a, AddSample(b, in_use, waiting)) = AddSample(Combine(a, b), in_use, waiting)
  BY DEF Accumulators, AddSample, Combine, Larger

\* A fresh interval adds nothing (UsageAcc::default).
LEMMA CombineNone ==
  ASSUME NEW a \in Accumulators
  PROVE  Combine(a, NoSamples) = a
  BY DEF Accumulators, NoSamples, Combine, Larger

\* A sample leaves a usage record of numbers.
LEMMA SampleType ==
  ASSUME NEW u \in Usages, NEW status \in Statuses
  PROVE  Sample(u, status) \in Usages /\ InUse(status) \in Nat
<1>1. InUse(status) \in Nat /\ status.waiting \in Nat
  BY DEF InUse, Statuses
<1>2. u.interval \in Accumulators /\ u.run \in Accumulators
  BY DEF Usages
<1>3. /\ AddSample(u.interval, InUse(status), status.waiting) \in Accumulators
      /\ AddSample(u.run, InUse(status), status.waiting) \in Accumulators
  BY <1>1, <1>2, AccumulatorTypes
<1> QED
  BY <1>1, <1>3 DEF Sample, Usages

-----------------------------------------------------------------------------
(***************************************************************************)
(* The strengthening.  HeldInv says which connections main holds at each   *)
(* await, WarmInv how far the warm-up is, PairInv what the checks so far   *)
(* have established, ProgressInv how the reporter's locals and its lines   *)
(* are related.                                                            *)
(***************************************************************************)
Going == mpc \notin {"failed", "killed"}
WarmedUp == {"spawn", "join", "summary", "csv", "done"}

HeldInv ==
  Going =>
    /\ held["primary"] =
         IF mpc \in {"primary_role", "create", "truncate", "server_info", "lsn_query"}
           THEN 1 ELSE IF mpc = "warm_primary" THEN warmed ELSE 0
    /\ held["standby"] =
         IF mpc \in {"standby_role", "startup_wait"}
           THEN 1 ELSE IF mpc = "warm_standby" THEN warmed ELSE 0
    /\ mpc \notin {"warm_primary", "warm_standby"} => warmed = 0

WarmInv ==
  /\ \A p \in Pools : open[p] <= PoolSize[p]
  /\ mpc = "warm_primary" => warmed <= open["primary"]
  /\ mpc = "warm_standby" =>
       /\ open["primary"] = PoolSize["primary"]
       /\ warmed <= open["standby"]
  /\ mpc \in WarmedUp =>
       /\ open["primary"] = PoolSize["primary"]
       /\ opt.uses_standby => open["standby"] = PoolSize["standby"]

PairInv ==
  /\ Going /\ mpc \notin {"primary_get", "primary_role"} => dsn.primary = "primary"
  /\ mpc = "warm_standby" => opt.uses_standby
  /\ mpc \in {"startup_wait", "warm_primary", "warm_standby"} \cup WarmedUp /\ opt.uses_standby
       => dsn.standby # "primary"
  /\ schema <= wal
  /\ Going /\ mpc \notin {"primary_get", "primary_role", "create"} => schema \in 0..wal
  /\ mpc \in {"standby_get", "standby_role", "startup_wait"} =>
       opt.uses_standby /\ schema \in 0..target
  /\ mpc \in {"lsn_get", "lsn_query"} => opt.uses_standby
  /\ mpc \in {"warm_primary", "warm_standby"} \cup WarmedUp /\ opt.uses_standby
       => schema \in 0..replay

ProgressInv ==
  /\ mpc \in Startup => rpc = "none"
  /\ printed.increments = printed.shown
  /\ printed.shown = IF rpc \in Pools THEN line.now ELSE line.last
  /\ \A c \in DOMAIN NoCounts : line.now[c] <= live[c] /\ line.last[c] <= live[c]

IInv == TypeOK /\ HeldInv /\ WarmInv /\ PairInv /\ ProgressInv

USE TasksAssumption, PoolAssumption, OptionsAssumption, ServersAssumption,
    StatusAssumption, BoundAssumption

\* The awaits of the startup but the spawn: what they leave alone.
StartupSteps ==
  \/ PrimaryTaken \/ PrimaryRoleChecked \/ TableCreated \/ TableTruncated
  \/ ServerInfoRead \/ LsnConnectionTaken \/ LsnQueried \/ StandbyTaken
  \/ StandbyRoleChecked \/ StartupWaitAnswered \/ PrimaryWarmed \/ StandbyWarmed
  \/ StartupFails \/ OthersWrite \/ StandbyReplays

\* A startup step starts from the startup, goes on in it or fails, and leaves
\* the run alone.
LEMMA StartupFrame ==
  ASSUME StartupSteps
  PROVE  /\ mpc \in Startup /\ mpc' \in Startup \cup {"failed"}
         /\ UNCHANGED <<opt, dsn, handler, expired, runVars>>
<1>1. ASSUME PrimaryWarmed PROVE mpc \in Startup /\ mpc' \in Startup \cup {"failed"}
  BY <1>1 DEF PrimaryWarmed, WarmUp, Takes, GivesBack, Startup
<1>2. ASSUME StandbyWarmed PROVE mpc \in Startup /\ mpc' \in Startup \cup {"failed"}
  BY <1>2 DEF StandbyWarmed, WarmUp, Takes, GivesBack, Startup
<1>3. mpc \in Startup /\ mpc' \in Startup \cup {"failed"}
  BY <1>1, <1>2
     DEF StartupSteps, Startup, Goes, PrimaryTaken, PrimaryRoleChecked, TableCreated,
         TableTruncated, ServerInfoRead, LsnConnectionTaken, LsnQueried, StandbyTaken,
         StandbyRoleChecked, StartupWaitAnswered, StartupFails, OthersWrite, StandbyReplays
<1>4. UNCHANGED <<opt, dsn, handler, expired, runVars>>
  BY DEF StartupSteps, PrimaryTaken, PrimaryRoleChecked, TableCreated,
         TableTruncated, ServerInfoRead, LsnConnectionTaken, LsnQueried, StandbyTaken,
         StandbyRoleChecked, StartupWaitAnswered, StartupFails, OthersWrite,
         StandbyReplays, PrimaryWarmed, StandbyWarmed, WarmUp
<1> QED
  BY <1>3, <1>4

\* The steps of the run: what they leave alone.
RunSteps ==
  \/ MainReports \/ (\E t \in Tasks : TaskSteps(t)) \/ SamplerSteps \/ ReporterSteps
  \/ HandlerInstalled \/ CtrlC \/ DeadlinePasses \/ Finished

\* After the startup main only moves forward, and what the startup established
\* stays.
LEMMA RunFrame ==
  ASSUME RunSteps
  PROVE  /\ UNCHANGED <<opt, dsn, startVars, walVars>>
         /\ \/ mpc' = mpc
            \/ mpc' \in {"failed", "killed"}
            \/ /\ mpc \in {"join", "summary", "csv"}
               /\ mpc' \in {"summary", "csv", "done"}
  BY DEF RunSteps, MainReports, TaskJoined, JoinFails, AllJoined, SummaryPrinted, CsvWritten,
         Goes, TaskSteps, TaskStops, TaskCounts, TaskSettles, TaskPanics, SamplerSteps, SamplerTicks,
         PoolSampled, ReporterSteps, ReporterConnects, ReporterTicks, CounterLoaded,
         LinePrinted, PoolPrinted, HandlerInstalled, CtrlC, DeadlinePasses, Finished,
         MainAndTasks, vars

\* Next is the startup, the spawn and the run.
LEMMA NextSplit == ASSUME Next PROVE StartupSteps \/ Spawned \/ RunSteps
  BY DEF Next, MainStarts, StartupSteps, RunSteps

-----------------------------------------------------------------------------
(* The startup.                                                            *)

\* What main holds and what the warm-up has opened follows its awaits.
LEMMA StartupHolds ==
  ASSUME TypeOK, HeldInv, WarmInv, PairInv, StartupSteps
  PROVE  HeldInv' /\ WarmInv'
<1> USE DEF TypeOK, HeldInv, WarmInv, PairInv, Going, Goes, Takes, GivesBack, Startup,
            WarmedUp, Pools, Larger, startVars, walVars
<1>1. CASE PrimaryTaken BY <1>1 DEF PrimaryTaken
<1>2. CASE PrimaryRoleChecked BY <1>2 DEF PrimaryRoleChecked
<1>3. CASE TableCreated BY <1>3 DEF TableCreated
<1>4. CASE TableTruncated BY <1>4 DEF TableTruncated
<1>5. CASE ServerInfoRead BY <1>5 DEF ServerInfoRead
<1>6. CASE LsnConnectionTaken BY <1>6 DEF LsnConnectionTaken
<1>7. CASE LsnQueried BY <1>7 DEF LsnQueried
<1>8. CASE StandbyTaken BY <1>8 DEF StandbyTaken
<1>9. CASE StandbyRoleChecked BY <1>9 DEF StandbyRoleChecked
<1>10. CASE StartupWaitAnswered BY <1>10 DEF StartupWaitAnswered
<1>11. CASE PrimaryWarmed BY <1>11 DEF PrimaryWarmed, WarmUp
<1>12. CASE StandbyWarmed BY <1>12 DEF StandbyWarmed, WarmUp
<1>13. CASE StartupFails BY <1>13 DEF StartupFails
<1>14. CASE OthersWrite BY <1>14 DEF OthersWrite
<1>15. CASE StandbyReplays BY <1>15 DEF StandbyReplays
<1> QED
  BY <1>1, <1>2, <1>3, <1>4, <1>5, <1>6, <1>7, <1>8, <1>9, <1>10, <1>11, <1>12,
     <1>13, <1>14, <1>15 DEF StartupSteps

\* Every check of the startup holds of the servers from its await on.
LEMMA StartupChecks ==
  ASSUME TypeOK, PairInv, StartupSteps
  PROVE  PairInv'
<1> USE DEF TypeOK, PairInv, Going, Goes, Startup, WarmedUp, WritesSchema, NoTable,
            startVars, walVars
<1>0. UNCHANGED <<opt, dsn>>
  BY StartupFrame
<1>1. CASE PrimaryTaken BY <1>0, <1>1 DEF PrimaryTaken
<1>2. CASE PrimaryRoleChecked BY <1>0, <1>2 DEF PrimaryRoleChecked
<1>3. CASE TableCreated BY <1>0, <1>3 DEF TableCreated
<1>4. CASE TableTruncated BY <1>0, <1>4 DEF TableTruncated
<1>5. CASE ServerInfoRead BY <1>0, <1>5 DEF ServerInfoRead
<1>6. CASE LsnConnectionTaken BY <1>0, <1>6 DEF LsnConnectionTaken
<1>7. CASE LsnQueried BY <1>0, <1>7 DEF LsnQueried
<1>8. CASE StandbyTaken BY <1>0, <1>8 DEF StandbyTaken
<1>9. CASE StandbyRoleChecked BY <1>0, <1>9 DEF StandbyRoleChecked
<1>10. CASE StartupWaitAnswered BY <1>0, <1>10 DEF StartupWaitAnswered
<1>11. CASE PrimaryWarmed BY <1>0, <1>11 DEF PrimaryWarmed, WarmUp
<1>12. CASE StandbyWarmed BY <1>0, <1>12 DEF StandbyWarmed, WarmUp
<1>13. CASE StartupFails BY <1>0, <1>13 DEF StartupFails
<1>14. CASE OthersWrite BY <1>0, <1>14 DEF OthersWrite
<1>15. CASE StandbyReplays BY <1>0, <1>15 DEF StandbyReplays
<1> QED
  BY <1>1, <1>2, <1>3, <1>4, <1>5, <1>6, <1>7, <1>8, <1>9, <1>10, <1>11, <1>12,
     <1>13, <1>14, <1>15 DEF StartupSteps

\* After the startup both stay, whatever the run does.
LEMMA RunKeepsStartup ==
  ASSUME HeldInv, WarmInv, PairInv, Spawned \/ RunSteps \/ UNCHANGED vars
  PROVE  HeldInv' /\ WarmInv' /\ PairInv'
<1> USE DEF HeldInv, WarmInv, PairInv, Going, WarmedUp, startVars, walVars
<1>1. CASE Spawned
  BY <1>1 DEF Spawned, Goes
<1>2. CASE RunSteps
  BY <1>2, RunFrame
<1>3. CASE UNCHANGED vars
  BY <1>3 DEF vars
<1> QED
  BY <1>1, <1>2, <1>3

-----------------------------------------------------------------------------
(* The reporter.                                                           *)

\* A line's increments are counted from where the last line stopped.
LEMMA ProgressStep ==
  ASSUME TypeOK, ProgressInv, StartupSteps \/ Spawned \/ RunSteps \/ UNCHANGED vars
  PROVE  ProgressInv'
<1> USE DEF ProgressInv, Startup, NoCounts
<1>1. CASE StartupSteps
  BY <1>1, StartupFrame DEF runVars, taskVars, helperVars, reporterVars
<1>2. CASE Spawned
  BY <1>2 DEF Spawned, Goes, Pools
<1>3. CASE UNCHANGED vars
  BY <1>3 DEF vars, runVars, taskVars, helperVars, reporterVars
<1>4. CASE MainReports
  <2>1. UNCHANGED <<live, rpc, line, printed>> /\ mpc' \notin Startup
    BY <1>4 DEF MainReports, TaskJoined, JoinFails, AllJoined, SummaryPrinted, CsvWritten,
                Goes, Startup, runVars, taskVars, helperVars, reporterVars
  <2> QED
    BY <2>1
<1>5. CASE HandlerInstalled \/ CtrlC \/ DeadlinePasses \/ Finished
  <2>1. UNCHANGED <<live, rpc, line, printed>> /\ (mpc' = mpc \/ mpc' \notin Startup)
    BY <1>5 DEF HandlerInstalled, CtrlC, DeadlinePasses, Finished, vars,
                runVars, taskVars, helperVars, reporterVars
  <2> QED
    BY <2>1
<1>6. ASSUME NEW t \in Tasks, TaskSteps(t) PROVE ProgressInv'
  <2>1. CASE TaskStops(t) \/ TaskCounts(t) \/ TaskPanics(t)
    BY <2>1 DEF TaskStops, TaskCounts, TaskPanics, helperVars, reporterVars
  <2>2. CASE TaskSettles(t)
    <3>1. UNCHANGED <<mpc, rpc, line, printed>>
      BY <2>2 DEF TaskSettles, helperVars, reporterVars
    <3>2. \A c \in DOMAIN NoCounts : live'[c] >= live[c] /\ live'[c] \in Nat
      BY <2>2 DEF TaskSettles, TypeOK, Counts
    <3>3. \A c \in DOMAIN NoCounts :
            live[c] \in Nat /\ line.now[c] \in Nat /\ line.last[c] \in Nat
      BY DEF TypeOK, Counts
    <3> QED
      BY <3>1, <3>2, <3>3
  <2> QED
    BY <1>6, <2>1, <2>2 DEF TaskSteps
<1>7. CASE SamplerSteps
  BY <1>7 DEF SamplerSteps, SamplerTicks, PoolSampled, MainAndTasks, taskVars, reporterVars
<1>8. CASE ReporterSteps
  <2>0. UNCHANGED <<mpc, live>>
    BY <1>8 DEF ReporterSteps, ReporterConnects, ReporterTicks, CounterLoaded, LinePrinted,
                PoolPrinted, MainAndTasks, taskVars
  <2>1. CASE ReporterConnects \/ ReporterTicks
    BY <2>0, <2>1 DEF ReporterConnects, ReporterTicks, Pools
  <2>2. CASE CounterLoaded("completed", "failed") \/ CounterLoaded("failed", "lag")
    BY <2>0, <2>2 DEF CounterLoaded, Pools, TypeOK, Counts
  <2>3. CASE LinePrinted
    <3>1. Plus(printed.increments, Minus(line.now, line.last)) = line.now
      BY <2>3 DEF LinePrinted, Pools, Plus, Minus, TypeOK, Counts
    <3> QED
      BY <2>0, <2>3, <3>1 DEF LinePrinted, Pools, TypeOK
  <2>4. ASSUME NEW p \in Pools, PoolPrinted(p) PROVE ProgressInv'
    BY <2>0, <2>4 DEF PoolPrinted, NextLast, Pools, TypeOK
  <2> QED
    BY <1>8, <2>1, <2>2, <2>3, <2>4 DEF ReporterSteps
<1> QED
  BY <1>1, <1>2, <1>3, <1>4, <1>5, <1>6, <1>7, <1>8 DEF RunSteps

-----------------------------------------------------------------------------
(* Types.                                                                  *)

\* Every startup step keeps the types; what main gives back it holds.
LEMMA StartupTypes ==
  ASSUME TypeOK, HeldInv, StartupSteps
  PROVE  TypeOK'
<1>0. /\ UNCHANGED <<opt, dsn, handler, expired, taskVars, joinVars, helperVars>>
      /\ mpc' \in Startup \cup {"failed"}
  BY StartupFrame DEF runVars
<1>1. ASSUME held' \in [Pools -> Nat], open' \in [Pools -> Nat], warmed' \in Nat,
             target' \in Nat, wal' \in Nat, replay' \in Nat,
             schema' \in Nat \cup {NoTable}
      PROVE  TypeOK'
  BY <1>0, <1>1 DEF TypeOK, taskVars, joinVars, helperVars, reporterVars
<1> USE DEF TypeOK, HeldInv, Going, Goes, Takes, GivesBack, WritesSchema, Pools, Larger,
            startVars, walVars
<1>2. CASE PrimaryTaken BY <1>1, <1>2 DEF PrimaryTaken
<1>3. CASE PrimaryRoleChecked BY <1>1, <1>3 DEF PrimaryRoleChecked
<1>4. CASE TableCreated BY <1>1, <1>4 DEF TableCreated
<1>5. CASE TableTruncated BY <1>1, <1>5 DEF TableTruncated
<1>6. CASE ServerInfoRead BY <1>1, <1>6 DEF ServerInfoRead
<1>7. CASE LsnConnectionTaken BY <1>1, <1>7 DEF LsnConnectionTaken
<1>8. CASE LsnQueried BY <1>1, <1>8 DEF LsnQueried
<1>9. CASE StandbyTaken BY <1>1, <1>9 DEF StandbyTaken
<1>10. CASE StandbyRoleChecked BY <1>1, <1>10 DEF StandbyRoleChecked
<1>11. CASE StartupWaitAnswered BY <1>1, <1>11 DEF StartupWaitAnswered
<1>12. CASE PrimaryWarmed BY <1>1, <1>12 DEF PrimaryWarmed, WarmUp
<1>13. CASE StandbyWarmed BY <1>1, <1>13 DEF StandbyWarmed, WarmUp
<1>14. CASE StartupFails BY <1>1, <1>14 DEF StartupFails
<1>15. CASE OthersWrite BY <1>1, <1>15 DEF OthersWrite
<1>16. CASE StandbyReplays BY <1>1, <1>16 DEF StandbyReplays
<1> QED
  BY <1>2, <1>3, <1>4, <1>5, <1>6, <1>7, <1>8, <1>9, <1>10, <1>11, <1>12,
     <1>13, <1>14, <1>15, <1>16 DEF StartupSteps

\* Adding counts gives counts.
LEMMA PlusType == ASSUME NEW a \in Counts, NEW b \in Counts PROVE Plus(a, b) \in Counts
  BY DEF Counts, Plus

\* The run keeps the types: a line's increments are numbers because its totals are.
LEMMA RunTypes ==
  ASSUME TypeOK, ProgressInv, ProgressInv', Spawned \/ RunSteps \/ UNCHANGED vars
  PROVE  TypeOK'
<1> DEFINE Phases == Startup \cup {"join", "summary", "csv", "done", "failed", "killed"}
<1>1. CASE Spawned
  BY <1>1 DEF Spawned, Goes, TypeOK, startVars, walVars, joinVars, Pools
<1>2. CASE UNCHANGED vars
  BY <1>2 DEF vars, TypeOK, startVars, walVars, runVars, taskVars, joinVars, helperVars,
              reporterVars
<1>3. CASE MainReports
  <2>1. CASE TaskJoined
    <3>1. joined \in Tasks /\ joined' \in 0..NTasks
      BY <2>1 DEF TaskJoined, Tasks, TypeOK
    <3>2. total' \in Counts
      BY <2>1, <3>1, PlusType DEF TaskJoined, TypeOK
    <3> QED
      BY <2>1, <3>1, <3>2
         DEF TaskJoined, TypeOK, startVars, walVars, taskVars, helperVars, reporterVars
  <2>2. CASE JoinFails \/ AllJoined \/ SummaryPrinted \/ CsvWritten
    BY <2>2 DEF JoinFails, AllJoined, SummaryPrinted, CsvWritten, Goes, TypeOK, startVars,
                walVars, runVars, taskVars, joinVars, helperVars, reporterVars
  <2> QED
    BY <1>3, <2>1, <2>2 DEF MainReports
<1>4. CASE HandlerInstalled \/ CtrlC \/ DeadlinePasses \/ Finished
  BY <1>4 DEF HandlerInstalled, CtrlC, DeadlinePasses, Finished, vars, TypeOK,
              startVars, walVars, runVars, taskVars, joinVars, helperVars, reporterVars
<1>5. ASSUME NEW t \in Tasks, TaskSteps(t) PROVE TypeOK'
  <2>1. CASE TaskStops(t) \/ TaskCounts(t) \/ TaskPanics(t)
    BY <2>1 DEF TaskStops, TaskCounts, TaskPanics, SetTask, TypeOK, startVars, walVars,
                joinVars, helperVars, reporterVars
  <2>2. CASE TaskSettles(t)
    <3>1. st' \in [Tasks -> Counts] /\ live' \in Counts
      BY <2>2 DEF TaskSettles, TypeOK, Counts, NoCounts
    <3> QED
      BY <2>2, <3>1 DEF TaskSettles, SetTask, TypeOK, startVars, walVars, joinVars,
                        helperVars, reporterVars
  <2> QED
    BY <1>5, <2>1, <2>2 DEF TaskSteps
<1>6. CASE SamplerSteps
  <2>1. CASE SamplerTicks
    BY <2>1 DEF SamplerTicks, TypeOK, startVars, walVars, taskVars, joinVars, reporterVars,
                MainAndTasks, Pools
  <2>2. ASSUME NEW p \in Pools, PoolSampled(p) PROVE TypeOK'
    <3>1. PICK status \in PoolStatuses[p] : usage' = [usage EXCEPT ![p] = Sample(@, status)]
      BY <2>2 DEF PoolSampled
    <3>2. status \in Statuses
      BY <3>1
    <3>3. usage' \in [Pools -> Usages]
      BY <3>1, <3>2, SampleType DEF TypeOK
    <3> QED
      BY <2>2, <3>3 DEF PoolSampled, TypeOK, startVars, walVars, taskVars, joinVars,
                        reporterVars, MainAndTasks, Pools
  <2> QED
    BY <1>6, <2>1, <2>2 DEF SamplerSteps
<1>7. CASE ReporterSteps
  <2>0. UNCHANGED MainAndTasks /\ spc' = spc
    BY <1>7 DEF ReporterSteps, ReporterConnects, ReporterTicks, CounterLoaded, LinePrinted,
                PoolPrinted
  <2>1. ASSUME usage' \in [Pools -> Usages], line' \in [now : Counts, last : Counts],
               printed' \in [increments : Counts, shown : Counts, pools : [Pools -> Accumulators]],
               rpc' \in {"none", "connect", "tick", "completed", "failed", "lag"} \cup Pools,
               mon' \in BOOLEAN
        PROVE  TypeOK'
    BY <2>0, <2>1 DEF TypeOK, MainAndTasks, startVars, walVars, taskVars, joinVars
  <2>2. CASE ReporterConnects \/ ReporterTicks
    BY <2>1, <2>2 DEF ReporterConnects, ReporterTicks, TypeOK
  <2>3. CASE CounterLoaded("completed", "failed") \/ CounterLoaded("failed", "lag")
    <3>1. line' \in [now : Counts, last : Counts]
      BY <2>3 DEF CounterLoaded, TypeOK, Counts
    <3> QED
      BY <2>1, <2>3, <3>1 DEF CounterLoaded, TypeOK
  <2>4. CASE LinePrinted
    <3>1. printed' = [printed EXCEPT !.increments = line.now, !.shown = line.now]
      <4>1. printed'.increments = printed'.shown
        BY DEF ProgressInv
      <4> QED
        BY <2>4, <4>1 DEF LinePrinted, TypeOK
    <3> QED
      BY <2>1, <2>4, <3>1 DEF LinePrinted, TypeOK, Pools
  <2>5. ASSUME NEW p \in Pools, PoolPrinted(p) PROVE TypeOK'
    <3>1. usage[p] \in Usages /\ usage[p].interval \in Accumulators
          /\ printed.pools[p] \in Accumulators
      BY DEF TypeOK, Usages
    <3>2. /\ ResetInterval(usage[p]) \in Usages
          /\ Combine(printed.pools[p], usage[p].interval) \in Accumulators
      BY <3>1, AccumulatorTypes DEF ResetInterval, Usages
    <3>3. /\ usage' \in [Pools -> Usages]
          /\ printed' \in [increments : Counts, shown : Counts, pools : [Pools -> Accumulators]]
      BY <2>5, <3>2 DEF PoolPrinted, TypeOK
    <3>4. line' \in [now : Counts, last : Counts]
      BY <2>5 DEF PoolPrinted, NextLast, TypeOK
    <3>5. rpc' \in {"tick"} \cup Pools
      BY <2>5 DEF PoolPrinted, Pools
    <3>6. mon' \in BOOLEAN
      BY <2>5 DEF PoolPrinted, TypeOK
    <3> QED
      BY <2>1, <3>3, <3>4, <3>5, <3>6
  <2> QED
    BY <1>7, <2>2, <2>3, <2>4, <2>5 DEF ReporterSteps
<1> QED
  BY <1>1, <1>2, <1>3, <1>4, <1>5, <1>6, <1>7 DEF RunSteps

-----------------------------------------------------------------------------
(***************************************************************************)
(* The theorems.                                                           *)
(***************************************************************************)

\* The strengthening holds at the start.
LEMMA IInvInit == ASSUME Init PROVE IInv
<1> USE DEF Init, Pools, Startup, NoCounts
<1>1. NewUsage \in Usages /\ NoSamples \in Accumulators
  BY DEF NewUsage, Usages, NoSamples, Accumulators
<1>2. TypeOK
  <2>1. replay \in Nat
    <3>1. CASE dsn.standby = "own" BY <3>1
    <3>2. CASE dsn.standby # "own" BY <3>2
    <3> QED BY <3>1, <3>2
  <2>2. /\ line \in [now : Counts, last : Counts] /\ live \in Counts /\ total \in Counts
        /\ st \in [Tasks -> Counts]
    BY DEF Counts
  <2>3. printed \in [increments : Counts, shown : Counts, pools : [Pools -> Accumulators]]
    BY <1>1 DEF Counts
  <2>4. /\ opt \in Options /\ dsn \in Servers
        /\ held \in [Pools -> Nat] /\ open \in [Pools -> Nat] /\ warmed \in Nat
        /\ target \in Nat /\ wal \in Nat /\ schema \in Nat \cup {NoTable}
    OBVIOUS
  <2>5. /\ tpc \in [Tasks -> {"none", "loop", "attempt", "done", "panicked"}]
        /\ issued \in Nat /\ joined \in 0..NTasks
    OBVIOUS
  <2>6. usage \in [Pools -> Usages]
    BY <1>1
  <2>7. /\ mpc \in Startup \cup {"join", "summary", "csv", "done", "failed", "killed"}
        /\ handler \in {"none", "installed", "fired"}
        /\ expired \in BOOLEAN /\ aborted \in BOOLEAN /\ mon \in BOOLEAN
        /\ spc \in {"none", "tick", "gone"} \cup Pools
        /\ rpc \in {"none", "connect", "tick", "completed", "failed", "lag"} \cup Pools
    OBVIOUS
  <2> QED
    BY <2>1, <2>2, <2>3, <2>4, <2>5, <2>6, <2>7 DEF TypeOK
<1>3. HeldInv
  BY DEF HeldInv
<1>4. WarmInv
  BY DEF WarmInv, WarmedUp
<1>5. PairInv
  BY DEF PairInv, WarmedUp, NoTable
<1>6. ProgressInv
  BY DEF ProgressInv
<1> QED
  BY <1>2, <1>3, <1>4, <1>5, <1>6 DEF IInv

\* The strengthening survives every step of main, the tasks and the helpers.
LEMMA IInvStep == ASSUME IInv, [Next]_vars PROVE IInv'
<1> USE DEF IInv
<1>0. StartupSteps \/ Spawned \/ RunSteps \/ UNCHANGED vars
  BY NextSplit
<1>1. ProgressInv'
  BY <1>0, ProgressStep
<1>2. CASE StartupSteps
  BY <1>1, <1>2, StartupHolds, StartupChecks, StartupTypes
<1>3. CASE Spawned \/ RunSteps \/ UNCHANGED vars
  BY <1>1, <1>3, RunKeepsStartup, RunTypes
<1> QED
  BY <1>0, <1>2, <1>3

\* The strengthening is an invariant of the specification.
LEMMA Inductive == Spec => []IInv
  BY IInvInit, IInvStep, PTL DEF Spec

\* Type correctness of the run.
THEOREM LifecycleTypeCorrect == Spec => []TypeOK
<1>1. IInv => TypeOK
  BY DEF IInv
<1> QED
  BY <1>1, Inductive, PTL

\* main never waits for a connection it holds itself (warm_up after the startup
\* checks), for every pool size.
THEOREM NoWaitOnItselfCorrect == Spec => []NoWaitOnItself
<1>1. IInv => NoWaitOnItself
  BY DEF IInv, TypeOK, HeldInv, Going, NoWaitOnItself, Pools
<1> QED
  BY <1>1, Inductive, PTL

\* D10: the measured run starts with full pools, for every pool size.
THEOREM PoolsAreWarmCorrect == Spec => []PoolsAreWarm
<1>1. IInv => PoolsAreWarm
  BY DEF IInv, HeldInv, WarmInv, Going, WarmedUp, PoolsAreWarm, PoolsInUse, Pools
<1> QED
  BY <1>1, Inductive, PTL

\* D10: no measured run on the wrong kind of server, or before its standby has
\* the table, however much WAL others write.
THEOREM PairIsCheckedCorrect == Spec => []PairIsChecked
<1>1. IInv => PairIsChecked
  BY DEF IInv, PairInv, Going, WarmedUp, Measuring, PairIsChecked
<1> QED
  BY <1>1, Inductive, PTL

\* The progress lines add up to the totals they show, and never ahead of them.
THEOREM ProgressCorrect == Spec => []ProgressAddsUp
<1>1. IInv => ProgressAddsUp
  BY DEF IInv, ProgressInv, ProgressAddsUp, NoCounts
<1> QED
  BY <1>1, Inductive, PTL

\* A step of the run puts a sample in the run and one interval, and a printed
\* interval with the printed ones.
LEMMA SamplesStep ==
  ASSUME TypeOK, SamplesReportedOnce, [Next]_vars
  PROVE  SamplesReportedOnce'
<1>1. ASSUME NEW p \in Pools, PoolSampled(p) PROVE SamplesReportedOnce'
  <2>1. PICK status \in PoolStatuses[p] : usage' = [usage EXCEPT ![p] = Sample(@, status)]
    BY <1>1 DEF PoolSampled
  <2>2. status \in Statuses
    BY <2>1
  <2>3. /\ usage[p].interval \in Accumulators /\ printed.pools[p] \in Accumulators
        /\ InUse(status) \in Nat /\ status.waiting \in Nat
    BY <2>2, SampleType DEF TypeOK, Usages, Statuses
  <2>4. /\ usage'[p].run = AddSample(usage[p].run, InUse(status), status.waiting)
        /\ usage'[p].interval = AddSample(usage[p].interval, InUse(status), status.waiting)
        /\ \A q \in Pools \ {p} : usage'[q] = usage[q]
    BY <2>1 DEF Sample, TypeOK
  <2>5. usage'[p].run = Combine(printed.pools[p], usage'[p].interval)
    BY <2>3, <2>4, CombineAdd DEF SamplesReportedOnce
  <2>6. printed' = printed
    BY <1>1 DEF PoolSampled, reporterVars
  <2> QED
    BY <2>4, <2>5, <2>6 DEF SamplesReportedOnce
<1>2. ASSUME NEW p \in Pools, PoolPrinted(p) PROVE SamplesReportedOnce'
  <2>1. /\ usage'[p].run = usage[p].run
        /\ usage'[p].interval = NoSamples
        /\ printed'.pools[p] = Combine(printed.pools[p], usage[p].interval)
        /\ \A q \in Pools \ {p} : usage'[q] = usage[q] /\ printed'.pools[q] = printed.pools[q]
    BY <1>2 DEF PoolPrinted, ResetInterval, TypeOK, Usages
  <2>2. Combine(printed.pools[p], usage[p].interval) \in Accumulators
    BY AccumulatorTypes DEF TypeOK, Usages
  <2>3. usage'[p].run = Combine(printed'.pools[p], usage'[p].interval)
    BY <2>1, <2>2, CombineNone DEF SamplesReportedOnce
  <2> QED
    BY <2>1, <2>3 DEF SamplesReportedOnce
<1>3. CASE StartupSteps \/ Spawned \/ UNCHANGED vars
  BY <1>3, StartupFrame DEF Spawned, vars, runVars, helperVars, reporterVars, SamplesReportedOnce
<1>4. CASE MainReports \/ (\E t \in Tasks : TaskSteps(t)) \/ HandlerInstalled \/ CtrlC
           \/ DeadlinePasses \/ Finished \/ SamplerTicks \/ ReporterConnects \/ ReporterTicks
           \/ CounterLoaded("completed", "failed") \/ CounterLoaded("failed", "lag")
  BY <1>4 DEF MainReports, TaskJoined, JoinFails, AllJoined, SummaryPrinted, CsvWritten,
              TaskSteps, TaskStops, TaskCounts, TaskSettles, TaskPanics, HandlerInstalled,
              CtrlC, DeadlinePasses, Finished, vars, SamplerTicks, ReporterConnects, ReporterTicks,
              CounterLoaded, runVars, helperVars, reporterVars, SamplesReportedOnce
<1>5. CASE LinePrinted
  BY <1>5 DEF LinePrinted, TypeOK, SamplesReportedOnce
<1> QED
  BY NextSplit, <1>1, <1>2, <1>3, <1>4, <1>5 DEF RunSteps, SamplerSteps, ReporterSteps

\* D9: no sample is lost or counted twice by the interval's reset, for every
\* interleaving of sampler and reporter.
THEOREM SamplesCorrect == Spec => []SamplesReportedOnce
<1>1. Init => SamplesReportedOnce
  BY DEF Init, SamplesReportedOnce, NewUsage, NoSamples, Combine, Larger
<1>2. TypeOK /\ SamplesReportedOnce /\ [Next]_vars => SamplesReportedOnce'
  BY SamplesStep
<1> QED
  BY <1>1, <1>2, LifecycleTypeCorrect, PTL DEF Spec

-----------------------------------------------------------------------------
(***************************************************************************)
(* The report.  What is merged is the sum over the tasks joined so far,    *)
(* what is shared the sum over all; a joined task is done, so its counters *)
(* do not move any more (module Counting for the sums).                    *)
(***************************************************************************)
\* what task t has counted under c; what main has got of it
Part(c) == [t \in Tasks |-> st[t][c]]
Got(c) == [t \in Tasks |-> IF t < joined THEN st[t][c] ELSE 0]

JoinInv ==
  /\ \A c \in DOMAIN NoCounts :
       live[c] = SumFunction(Part(c)) /\ total[c] = SumFunction(Got(c))
  /\ \A t \in Tasks : t < joined => tpc[t] = "done"
  /\ mpc \in Startup => joined = 0
  /\ mpc \in {"summary", "csv", "done"} => joined = NTasks

\* The tasks are finitely many, and what they count are numbers.
LEMMA PartsAreNumbers ==
  ASSUME TypeOK, NEW c \in DOMAIN NoCounts
  PROVE  /\ IsFiniteSet(Tasks) /\ NTasks \in Nat
         /\ Part(c) \in [Tasks -> Nat] /\ Got(c) \in [Tasks -> Nat]
         /\ live[c] \in Nat /\ total[c] \in Nat /\ joined \in 0..NTasks
<1>1. IsFiniteSet(Tasks)
  BY TasksAssumption, FS_Interval DEF Tasks
<1>2. \A t \in Tasks : st[t][c] \in Nat
  BY DEF TypeOK, Counts, NoCounts
<1>3. live[c] \in Nat /\ total[c] \in Nat
  BY DEF TypeOK, Counts, NoCounts
<1> QED
  BY <1>1, <1>2, <1>3, TasksAssumption DEF TypeOK, Part, Got

\* An attempt that settles counts for its task and for Ctx.live.
LEMMA SettleJoinInv ==
  ASSUME TypeOK, TypeOK', JoinInv, NEW t \in Tasks, TaskSettles(t)
  PROVE  JoinInv'
<1>1. PICK d \in DOMAIN NoCounts :
        st' = [st EXCEPT ![t][d] = @ + 1] /\ live' = [live EXCEPT ![d] = @ + 1]
  BY DEF TaskSettles
<1>2. /\ joined' = joined /\ total' = total /\ mpc' = mpc
      /\ tpc' = [tpc EXCEPT ![t] = "loop"] /\ tpc[t] = "attempt"
  BY DEF TaskSettles, SetTask, joinVars
<1>3. ~(t < joined)
  BY <1>2 DEF JoinInv
<1>4. ASSUME NEW c \in DOMAIN NoCounts
      PROVE  live'[c] = SumFunction(Part(c)') /\ total'[c] = SumFunction(Got(c)')
  <2> DEFINE e == IF c = d THEN 1 ELSE 0
  <2>1. /\ live'[c] = live[c] + e /\ st'[t][c] = st[t][c] + e
        /\ \A u \in Tasks \ {t} : st'[u][c] = st[u][c]
    BY <1>1 DEF TypeOK, Counts, NoCounts
  <2>2. /\ Part(c)'[t] = Part(c)[t] + e
        /\ \A u \in Tasks \ {t} : Part(c)'[u] = Part(c)[u]
    BY <2>1 DEF Part
  <2>3. /\ Part(c) \in [Tasks -> Nat] /\ Part(c)' \in [Tasks -> Nat] /\ IsFiniteSet(Tasks)
    <3>1. (Part(c) \in [Tasks -> Nat])'
      <4>1. \A u \in Tasks : st'[u][c] \in Nat
        BY DEF TypeOK, Counts, NoCounts
      <4> QED
        BY <4>1 DEF Part
    <3> QED
      BY <3>1, PartsAreNumbers
  <2>4. SumFunction(Part(c)') = SumFunction(Part(c)) + e
    <3> DEFINE f == Part(c)
               g == Part(c)'
    <3> HIDE DEF f, g
    <3>1. f \in [Tasks -> Nat] /\ g \in [Tasks -> Nat] /\ g[t] = f[t] + e
          /\ \A u \in Tasks \ {t} : g[u] = f[u]
      BY <2>2, <2>3 DEF f, g
    <3>2. SumFunction(g) = SumFunction(f) + e
      BY <2>3, <3>1, SumChanges
    <3> QED
      BY <3>2 DEF f, g
  <2>5. Got(c)' = Got(c)
    BY <1>2, <1>3, <2>1 DEF Got
  <2> QED
    BY <1>2, <2>1, <2>4, <2>5 DEF JoinInv
<1>5. \A u \in Tasks : u < joined' => tpc'[u] = "done"
  BY <1>2, <1>3 DEF JoinInv, TypeOK
<1> QED
  BY <1>2, <1>4, <1>5 DEF JoinInv

\* A join adds what the task counted, and it is final.
LEMMA JoinJoinInv ==
  ASSUME TypeOK, TypeOK', JoinInv, TaskJoined
  PROVE  JoinInv'
<1>1. /\ joined' = joined + 1 /\ total' = Plus(total, st[joined]) /\ mpc' = mpc
      /\ mpc = "join" /\ live' = live /\ st' = st /\ tpc' = tpc
      /\ joined < NTasks /\ tpc[joined] = "done"
  BY DEF TaskJoined, taskVars
<1>2. joined \in Tasks /\ joined \in Nat
  BY <1>1, TasksAssumption DEF TypeOK, Tasks
<1>3. ASSUME NEW c \in DOMAIN NoCounts
      PROVE  live'[c] = SumFunction(Part(c)') /\ total'[c] = SumFunction(Got(c)')
  <2> DEFINE e == st[joined][c]
  <2>1. total'[c] = total[c] + e
    BY <1>1, <1>2 DEF TypeOK, Counts, NoCounts, Plus
  <2>2. e \in Nat
    BY <1>2 DEF TypeOK, Counts, NoCounts
  <2>3. /\ Got(c)'[joined] = Got(c)[joined] + e
        /\ \A u \in Tasks \ {joined} : Got(c)'[u] = Got(c)[u]
    <3>1. Got(c)[joined] = 0
      BY <1>2 DEF Got
    <3>2. Got(c)'[joined] = e
      BY <1>1, <1>2 DEF Got
    <3>3. \A u \in Tasks \ {joined} : u < joined' <=> u < joined
      BY <1>1, <1>2 DEF Tasks
    <3>4. \A u \in Tasks \ {joined} : Got(c)'[u] = Got(c)[u]
      BY <1>1, <3>3 DEF Got
    <3> QED
      BY <2>2, <3>1, <3>2, <3>4
  <2>4. Got(c) \in [Tasks -> Nat] /\ IsFiniteSet(Tasks)
    BY PartsAreNumbers
  <2>5. Got(c)' \in [Tasks -> Nat]
    <3>1. \A u \in Tasks : st'[u][c] \in Nat
      BY DEF TypeOK, Counts, NoCounts
    <3> QED
      BY <3>1 DEF Got
  <2>6. SumFunction(Got(c)') = SumFunction(Got(c)) + e
    <3> DEFINE f == Got(c)
               g == Got(c)'
    <3> HIDE DEF f, g, e
    <3>1. f \in [Tasks -> Nat] /\ g \in [Tasks -> Nat] /\ g[joined] = f[joined] + e
          /\ \A u \in Tasks \ {joined} : g[u] = f[u]
      BY <2>3, <2>4, <2>5 DEF f, g
    <3>2. IsFiniteSet(Tasks) /\ joined \in Tasks /\ e \in Int
      BY <1>2, <2>2, <2>4
    <3>3. SumFunction(g) = SumFunction(f) + e
      BY <3>1, <3>2, SumChanges
    <3> QED
      BY <3>3 DEF f, g
  <2>7. Part(c)' = Part(c)
    BY <1>1 DEF Part
  <2> QED
    BY <1>1, <2>1, <2>6, <2>7 DEF JoinInv
<1>4. \A u \in Tasks : u < joined' => tpc'[u] = "done"
  BY <1>1, <1>2 DEF JoinInv, Tasks
<1>5. mpc' \notin Startup /\ mpc' \notin {"summary", "csv", "done"}
  BY <1>1 DEF Startup
<1> QED
  BY <1>3, <1>4, <1>5 DEF JoinInv

\* A step that leaves the counters and the joins alone keeps what was joined.
LEMMA FrameJoinInv ==
  ASSUME TypeOK, JoinInv, UNCHANGED <<st, live, total, joined>>,
         \A t \in Tasks : t < joined => tpc'[t] = "done",
         mpc' \in Startup => joined = 0,
         mpc' \in {"summary", "csv", "done"} => joined = NTasks
  PROVE  JoinInv'
<1>1. \A c : Part(c)' = Part(c) /\ Got(c)' = Got(c)
  BY DEF Part, Got
<1> QED
  BY <1>1 DEF JoinInv

\* Whatever the next step is, what is merged stays what the joined tasks counted.
LEMMA JoinInvStep ==
  ASSUME TypeOK, TypeOK', JoinInv, StartupSteps \/ Spawned \/ RunSteps \/ UNCHANGED vars
  PROVE  JoinInv'
<1>0. \A t \in Tasks : t < joined => tpc[t] = "done"
  BY DEF JoinInv
<1>1. CASE StartupSteps
  <2>1. UNCHANGED <<st, live, total, joined, tpc>> /\ joined = 0
        /\ mpc' \notin {"summary", "csv", "done"}
    BY <1>1, StartupFrame DEF runVars, taskVars, joinVars, JoinInv, Startup
  <2> QED
    BY <1>0, <2>1, FrameJoinInv
<1>2. CASE Spawned
  <2>1. /\ UNCHANGED <<st, live, total, joined>> /\ joined = 0 /\ mpc' = "join"
    BY <1>2 DEF Spawned, Goes, joinVars, JoinInv, Startup
  <2>2. \A t \in Tasks : ~(t < joined)
    BY <2>1 DEF Tasks
  <2> QED
    BY <2>1, <2>2, FrameJoinInv
<1>3. CASE UNCHANGED vars
  <2>1. UNCHANGED <<mpc, st, live, total, joined, tpc>>
    BY <1>3 DEF vars, runVars, taskVars, joinVars
  <2>2. /\ mpc \in Startup => joined = 0
        /\ mpc \in {"summary", "csv", "done"} => joined = NTasks
    BY DEF JoinInv
  <2> QED
    BY <1>0, <2>1, <2>2, FrameJoinInv
<1>4. CASE AllJoined \/ SummaryPrinted \/ CsvWritten
  <2>1. UNCHANGED <<st, live, total, joined, tpc>>
    BY <1>4 DEF AllJoined, SummaryPrinted, CsvWritten, runVars, taskVars, joinVars
  <2>2. joined = NTasks /\ mpc' \notin Startup
    BY <1>4 DEF AllJoined, SummaryPrinted, CsvWritten, Goes, JoinInv, Startup
  <2> QED
    BY <1>0, <2>1, <2>2, FrameJoinInv
<1>5. CASE HandlerInstalled \/ CtrlC \/ DeadlinePasses \/ Finished \/ SamplerSteps
           \/ ReporterSteps
  <2>1. UNCHANGED <<st, live, total, joined, tpc>> /\ (mpc' = mpc \/ mpc' = "killed")
    BY <1>5 DEF HandlerInstalled, CtrlC, DeadlinePasses, Finished, vars, runVars, taskVars,
                joinVars, SamplerSteps, SamplerTicks, PoolSampled, ReporterSteps,
                ReporterConnects, ReporterTicks, CounterLoaded, LinePrinted, PoolPrinted,
                MainAndTasks
  <2>2. /\ mpc \in Startup => joined = 0
        /\ mpc \in {"summary", "csv", "done"} => joined = NTasks
        /\ "killed" \notin Startup
    BY DEF JoinInv, Startup
  <2> QED
    BY <1>0, <2>1, <2>2, FrameJoinInv
<1>6. ASSUME NEW t \in Tasks, TaskStops(t) \/ TaskCounts(t) \/ TaskPanics(t)
      PROVE  JoinInv'
  <2>1. /\ UNCHANGED <<mpc, st, live, total, joined>> /\ tpc[t] # "done"
        /\ \E label : tpc' = [tpc EXCEPT ![t] = label]
    BY <1>6 DEF TaskStops, TaskCounts, TaskPanics, SetTask, joinVars
  <2>2. \A u \in Tasks : u < joined => tpc'[u] = "done"
    BY <1>0, <2>1 DEF TypeOK
  <2>3. /\ mpc \in Startup => joined = 0
        /\ mpc \in {"summary", "csv", "done"} => joined = NTasks
    BY DEF JoinInv
  <2> QED
    BY <2>1, <2>2, <2>3, FrameJoinInv
<1>7. CASE JoinFails
  <2>1. UNCHANGED <<st, live, total, joined, tpc>> /\ mpc' = "failed"
    BY <1>7 DEF JoinFails, Goes, runVars, taskVars, joinVars
  <2>2. mpc' \notin Startup /\ mpc' \notin {"summary", "csv", "done"}
    BY <2>1 DEF Startup
  <2> QED
    BY <1>0, <2>1, <2>2, FrameJoinInv
<1> QED
  BY <1>1, <1>2, <1>3, <1>4, <1>5, <1>6, <1>7, SettleJoinInv, JoinJoinInv
     DEF RunSteps, MainReports, TaskSteps

\* At the start nothing is counted or joined.
LEMMA JoinInvInit == ASSUME Init PROVE JoinInv
<1>1. /\ joined = 0 /\ mpc = "primary_get"
      /\ \A t \in Tasks : ~(t < joined)
  BY DEF Init, Tasks
<1>2. ASSUME NEW c \in DOMAIN NoCounts
      PROVE  live[c] = SumFunction(Part(c)) /\ total[c] = SumFunction(Got(c))
  <2>1. live[c] = 0 /\ total[c] = 0 /\ \A t \in Tasks : st[t][c] = 0
    BY DEF Init, NoCounts
  <2>2. /\ \A t \in Tasks : Part(c)[t] = 0 /\ Got(c)[t] = 0
        /\ Part(c) \in [Tasks -> Nat] /\ Got(c) \in [Tasks -> Nat]
    BY <2>1 DEF Part, Got
  <2>3. IsFiniteSet(Tasks)
    BY TasksAssumption, FS_Interval DEF Tasks
  <2>4. ASSUME NEW f \in [Tasks -> Nat], \A t \in Tasks : f[t] = 0
        PROVE  SumFunction(f) = 0
    BY <2>3, <2>4, SumIsZero
  <2>5. SumFunction(Part(c)) = 0
    BY <2>2, <2>4
  <2>6. SumFunction(Got(c)) = 0
    BY <2>2, <2>4
  <2> QED
    BY <2>1, <2>5, <2>6
<1> QED
  BY <1>1, <1>2 DEF JoinInv, Startup

\* The report covers every attempt: what main prints is what the tasks returned
\* and what Ctx.live counted, whatever Ctrl-C, the clock and the helpers did.
THEOREM ReportCorrect == Spec => []ReportIsComplete
<1>1. IInv /\ JoinInv /\ [Next]_vars => JoinInv'
  <2> SUFFICES ASSUME IInv, JoinInv, [Next]_vars PROVE JoinInv'
    OBVIOUS
  <2>1. TypeOK /\ TypeOK'
    BY IInvStep DEF IInv
  <2>2. StartupSteps \/ Spawned \/ RunSteps \/ UNCHANGED vars
    BY NextSplit
  <2> QED
    BY <2>1, <2>2, JoinInvStep
<1>2. Init => JoinInv
  BY JoinInvInit
<1>3. IInv /\ JoinInv => ReportIsComplete
  <2> SUFFICES ASSUME IInv, JoinInv, mpc \in {"summary", "csv", "done"}
               PROVE  /\ \A t \in Tasks : tpc[t] = "done"
                      /\ total = live
                      /\ \A c \in DOMAIN NoCounts : total[c] = SumFunction(Part(c))
    BY DEF ReportIsComplete, Part
  <2>1. \A t \in Tasks : t < joined
    BY TasksAssumption DEF JoinInv, Tasks
  <2>2. \A t \in Tasks : tpc[t] = "done"
    BY <2>1 DEF JoinInv
  <2>3. \A c : Got(c) = Part(c)
    BY <2>1 DEF Got, Part
  <2>4. \A c \in DOMAIN NoCounts : total[c] = SumFunction(Part(c)) /\ total[c] = live[c]
    BY <2>3 DEF JoinInv
  <2>5. total = live
    BY <2>4 DEF IInv, TypeOK, Counts, NoCounts
  <2> QED
    BY <2>2, <2>4, <2>5
<1> QED
  BY <1>1, <1>2, <1>3, Inductive, PTL DEF Spec

=============================================================================
