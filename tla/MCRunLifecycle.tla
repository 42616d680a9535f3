--------------------------- MODULE MCRunLifecycle ---------------------------
(* Instances of RunLifecycle for TLC.                                        *)
EXTENDS RunLifecycle

Sizes == [primary |-> 2, standby |-> 1]

\* one connection in use with a task waiting, and an answer read while a
\* connection was being replaced
Busy == [size |-> 1, available |-> 0, waiting |-> 1]
Torn == [size |-> 0, available |-> 1, waiting |-> 0]
Answers == [primary |-> {Busy, Torn}, standby |-> {Busy}]

CommandLine(duration, txns, uses_standby, truncate, report, output) ==
  [duration |-> duration, txns |-> txns, uses_standby |-> uses_standby, endless |-> FALSE,
   truncate |-> truncate, report |-> report, sampling |-> TRUE, output |-> output]

\* Sampler and reporter together are checked with --txns 0, whose tasks return
\* at once and may be joined late; the counters with the reporter alone; a WAIT
\* FOR without a timeout with neither.
Mixed ==
  { CommandLine(FALSE, NoTxns, TRUE, TRUE, FALSE, FALSE),
    CommandLine(FALSE, 0, TRUE, FALSE, TRUE, FALSE),
    CommandLine(FALSE, 0, FALSE, FALSE, TRUE, FALSE),
    [CommandLine(TRUE, 1, FALSE, FALSE, TRUE, TRUE) EXCEPT !.sampling = FALSE],
    [CommandLine(TRUE, 1, TRUE, FALSE, FALSE, FALSE) EXCEPT !.endless = TRUE] }

\* the right servers, either DSN wrong, both swapped
OwnOrWrongRole == { s \in ServerPairs : s.standby # "foreign" }

WaitForOnly == { CommandLine(TRUE, 1, TRUE, FALSE, FALSE, FALSE) }
=============================================================================
