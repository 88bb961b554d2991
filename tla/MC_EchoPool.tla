----------------------------- MODULE MC_EchoPool -----------------------------
(* EchoPool for TLC: the threads are interchangeable. *)
EXTENDS EchoPool, TLC

ThreadSymmetry == Permutations(Threads)
=============================================================================
