----------------------------- MODULE MCWorkload -----------------------------
(* Instances of Workload for TLC.  Tasks are interchangeable: no definition  *)
(* orders them, so their permutations are a symmetry of the safety runs.     *)
EXTENDS Workload, TLC

Symmetry == Permutations(Tasks)
=============================================================================
