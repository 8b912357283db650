------------------------------- MODULE MCBridge -------------------------------
(***************************************************************************)
(* Instances of the native bridge for TLC.                                 *)
(***************************************************************************)
EXTENDS BridgeView, TLC

\* Neither the addresses of captures nor the threads are told apart.
Symmetry == Permutations(Captures) \cup Permutations(Threads)
===============================================================================
