-------------------------- MODULE MCNetSupervisor --------------------------
(* NetSupervisor for TLC: the PIDs, the lock files and the terminals are    *)
(* interchangeable, which the runs without liveness properties exploit.     *)
EXTENDS NetSupervisor, TLC

Symmetry == Permutations(Sups) \cup Permutations(Inodes) \cup Permutations(Clis)
============================================================================
