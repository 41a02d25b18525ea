---------------------------- MODULE MCTaskLists ----------------------------
(***************************************************************************)
(* Five tasks: a list with a first, middle and last ones, and tasks left   *)
(* for the shell and an interrupt to add.                                  *)
(***************************************************************************)
EXTENDS TaskLists, TLC

Symmetry == Permutations(Task)
=============================================================================
