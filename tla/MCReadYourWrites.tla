-------------------------- MODULE MCReadYourWrites --------------------------
(* Instances of ReadYourWrites for TLC. *)
EXTENDS ReadYourWrites, TLC

\* the tasks are alike, and the safety run asks nothing of one task alone
Symmetry == Permutations(Tasks)

T1 == [mode |-> "sync", override |-> "none", waitMode |-> "standby_replay",
       verify |-> FALSE, fetchLsn |-> FALSE, raw |-> FALSE, timesOut |-> TRUE,
       syncStandby |-> FALSE]
T2 == [T1 EXCEPT !.mode = "waitfor"]

\* T1 as documented, with the extra statements, with synchronous replication at
\* each level and with no durability asked; T2 in each --wait-mode, with --verify,
\* with --raw-insert-lsn and with a setting stronger than its own
AllModes ==
  {T1,
   [T1 EXCEPT !.verify = TRUE, !.fetchLsn = TRUE, !.override = "local", !.syncStandby = TRUE],
   [T1 EXCEPT !.override = "remote_apply", !.verify = TRUE, !.syncStandby = TRUE],
   [T1 EXCEPT !.override = "remote_write", !.syncStandby = TRUE],
   [T1 EXCEPT !.syncStandby = TRUE],
   [T1 EXCEPT !.override = "off", !.fetchLsn = TRUE],
   [T2 EXCEPT !.verify = TRUE],
   [T2 EXCEPT !.waitMode = "standby_flush", !.override = "remote_write", !.syncStandby = TRUE],
   [T2 EXCEPT !.waitMode = "standby_write", !.raw = TRUE]}

\* --wait-timeout 0: only the standby, or its promotion, ends a wait
WaitForEver ==
  {[T2 EXCEPT !.waitMode = m, !.timesOut = FALSE] :
     m \in {"standby_write", "standby_replay"}}

AsyncOnly == {T2}
=============================================================================
