------------------------------ MODULE MCCowMm ------------------------------
(***************************************************************************)
(* A small instance of CowMm: three address spaces of two pages, whose     *)
(* page tables do not always fit.                                          *)
(***************************************************************************)
EXTENDS CowMm, TLC

CONSTANTS a, b, c, f1, f2, f3

MCPages == {1, 2}
MCPaths == <<<<"pd", "pt1">>, <<"pd", "pt2">>>>
MCLayouts == {<<"rw", "rw">>, <<"ro", "none">>}

Symmetries == Permutations(Mm) \union Permutations(Frame)
=============================================================================
