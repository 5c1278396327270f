---------------------------- MODULE MCProcesses -----------------------------
(* Instances of Processes for TLC: processes are interchangeable. *)
EXTENDS Processes, TLC

Symmetry == Permutations(Procs)
=============================================================================
