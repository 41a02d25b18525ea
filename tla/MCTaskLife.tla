----------------------------- MODULE MCTaskLife -----------------------------
(***************************************************************************)
(* Small instances of TaskLife: three TCBs besides the shell's and the     *)
(* idle task's, so that a freed TCB is reused while others are still in    *)
(* use, and at most five IDs given out in a behaviour.                     *)
(***************************************************************************)
EXTENDS TaskLife
=============================================================================
