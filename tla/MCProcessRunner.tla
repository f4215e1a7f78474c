--------------------------- MODULE MCProcessRunner ---------------------------
(* Model-checking instance of ProcessRunner. *)
EXTENDS ProcessRunner, TLC

\* Every process but the child is interchangeable.
Symmetry == Permutations(Procs \ {Child})
=============================================================================
