--------------------------- MODULE MCManagerPhase ---------------------------
(* An instance of ManagerPhase for TLC. *)
EXTENDS ManagerPhase, TLC

CONSTANTS f1, f2

\* Contents others write differ only in being different.
Symmetric == Permutations(Foreign)
=============================================================================
