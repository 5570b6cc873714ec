---------------------------- MODULE MCSolveLineage ----------------------------
(* SolveLineage for TLC: jobs and groups are interchangeable.                  *)
EXTENDS SolveLineage, TLC

Symmetry == Permutations(Jobs) \cup Permutations(Keys) \cup Permutations(Requests)
=============================================================================
