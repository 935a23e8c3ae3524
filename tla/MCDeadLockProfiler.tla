--------------------------- MODULE MCDeadLockProfiler ---------------------------
(* Each lock is in a class of its own; the locks, like the threads, may be *)
(* exchanged for one another.                                              *)
EXTENDS DeadLockProfiler, TLC

OwnClass == [l \in Locks |-> l]
Anyone   == Permutations(Threads) \cup Permutations(Locks)
=============================================================================
