----------------------------- MODULE MCVmalloc -----------------------------
(***************************************************************************)
(* A small instance of Vmalloc: a window of ten pages in tables of four,   *)
(* of which the first exists and the others take a frame of five.  The     *)
(* shell creates and frees, the idle task frees, and a fork creates with   *)
(* interrupts off, in the middle of either's calls.                        *)
(***************************************************************************)
EXTENDS Vmalloc, TLC

CONSTANTS f1, f2, f3, f4, f5, shell, idle, fork

MCFrames == {f1, f2, f3, f4, f5}
FrameSymmetry == Permutations(MCFrames)

MCTables == {0}
MCDesc == 1 .. 3
MCCallers == {shell, idle, fork}
MCCreators == {shell, fork}
MCMasked == {fork}
MCCounts == {1, 2}
MCGuards == {<<1, 0>>, <<1, 1>>, <<0, 1>>}

(* Nothing is claimed of what follows once two calls of kVmapPages have    *)
(* overlapped, and it is not explored.                                     *)
NoOverlap == ~raced
=============================================================================
