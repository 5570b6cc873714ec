---------------------------- MODULE MCSolveQueue ----------------------------
(* SolveQueue for TLC: watchers and users are interchangeable.                *)
EXTENDS SolveQueue, TLC

Symmetry == Permutations(Watchers) \cup Permutations(Users)
=============================================================================
