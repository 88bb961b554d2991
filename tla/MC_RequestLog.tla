---------------------------- MODULE MC_RequestLog ----------------------------
(* RequestLog for TLC: the children are interchangeable. *)
EXTENDS RequestLog, TLC

ChildSymmetry == Permutations(Children)
=============================================================================
