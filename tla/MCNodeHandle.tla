---------------------------- MODULE MCNodeHandle ----------------------------
(* Finite instances of NodeHandle for TLC. *)
EXTENDS NodeHandle, TLC

\* Callers, subscriptions and timers are interchangeable among themselves.
Symmetry == Permutations(Callers) \cup Permutations(Subs) \cup Permutations(Timers)
=============================================================================
