---------------------------- MODULE MCGlobalApply ----------------------------
(* Model-checking instances of GlobalApply: plans of two operations that nobody *)
(* disturbs but their own commands, and plans of one operation in a world that  *)
(* others change.                                                               *)
EXTENDS GlobalApply

MCStyles == [n \in {1, 2} |-> IF n = 1 THEN {"plain", "build"} ELSE {"plain"}]
MCMoves  == [n \in {1, 2} |-> IF n = 1 THEN 2 ELSE 0]
MCEdits  == [n \in {1, 2} |-> IF n = 1 THEN 1 ELSE 0]
=============================================================================
