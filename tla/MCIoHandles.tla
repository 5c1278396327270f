---------------------------- MODULE MCIoHandles -----------------------------
(* Instances of IoHandles for TLC. *)
EXTENDS IoHandles, TLC

Symmetry == Permutations(Threads) \cup Permutations(Objects)
=============================================================================
