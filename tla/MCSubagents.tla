---------------------------- MODULE MCSubagents ----------------------------
(* Model values and symmetry for checking Subagents with TLC. *)
EXTENDS Subagents, TLC

TaskSymmetry == Permutations(Tasks)
=============================================================================
