----------------------------- MODULE MCApplyLock -----------------------------
(* Model-checking instance of ApplyLock. *)
EXTENDS ApplyLock, TLC

\* The invocations are interchangeable; every checked property is symmetric.
Symmetry == Permutations(Proc)
=============================================================================
