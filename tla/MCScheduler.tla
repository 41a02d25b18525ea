---------------------------- MODULE MCScheduler ----------------------------
(* The scheduler with four TCBs, three levels and a slice of two ticks.    *)
(* Liveness is checked with safety, so the two workers are not symmetric.  *)
EXTENDS Scheduler

CONSTANTS t1, t2    \* the slots other than the shell's and the idle task's
=============================================================================
