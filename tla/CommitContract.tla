--------------------------- MODULE CommitContract ---------------------------
(***************************************************************************)
(* What a completed transaction promises, without servers, WAL or LSNs: a  *)
(* row is confirmed to the application only once it is secured, and what   *)
(* is secured is never lost.  DESIGN.md D6 and D2 ask this of both modes;  *)
(* they differ in what secures a row.                                      *)
(***************************************************************************)
CONSTANT Rows

VARIABLES
  committed,  \* rows committed on the primary and not lost since
  secured,    \* committed rows that a crash of the primary cannot lose
  confirmed   \* rows the application was told are complete

vars == <<committed, secured, confirmed>>

Init ==
  /\ committed = {}
  /\ secured = {}
  /\ confirmed = {}

Commit ==
  /\ \E r \in Rows \ committed : committed' = committed \cup {r}
  /\ UNCHANGED <<secured, confirmed>>

\* some of the committed rows reach the disk or the standby
Secure ==
  /\ \E new \in SUBSET (committed \ secured) : secured' = secured \cup new
  /\ UNCHANGED <<committed, confirmed>>

\* a crash of the primary: of the unsecured rows some are lost, and recovery
\* may have secured others
Lose ==
  /\ \E kept \in SUBSET committed :
       /\ secured \subseteq kept
       /\ committed' = kept
       /\ \E more \in SUBSET (kept \ secured) : secured' = secured \cup more
  /\ UNCHANGED confirmed

Confirm ==
  /\ \E r \in secured : confirmed' = confirmed \cup {r}
  /\ UNCHANGED <<committed, secured>>

Next == Commit \/ Secure \/ Lose \/ Confirm

Spec == Init /\ [][Next]_vars
=============================================================================
