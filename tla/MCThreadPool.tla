----------------------------- MODULE MCThreadPool -----------------------------
(* ThreadPool for TLC: the workers are interchangeable.                        *)
EXTENDS ThreadPool, TLC

Symmetry == Permutations(Workers)
=============================================================================
