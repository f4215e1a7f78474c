---------------------------- MODULE MCApplyEngine ----------------------------
(***************************************************************************)
(* TLC instances of ApplyEngine.                                           *)
(***************************************************************************)
EXTENDS ApplyAccount, TLC
=============================================================================
