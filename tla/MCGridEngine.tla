---------------------------- MODULE MCGridEngine ----------------------------
(* GridEngine for TLC: every constant is a small number. *)
EXTENDS GridEngine
=============================================================================
