-------------------------- MODULE MCPooledThreads --------------------------
(* Instances of PooledThreads for TLC.                                       *)
EXTENDS PooledThreads
=============================================================================
