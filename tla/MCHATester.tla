----------------------------- MODULE MCHATester -----------------------------
(* An instance of HATester for TLC, which starts it alone.                   *)
EXTENDS HATester
=============================================================================
