---------------------------- MODULE MCElfLoader ----------------------------
(***************************************************************************)
(* A small instance of ElfLoader: tables of four entries in three levels,  *)
(* pages of four bytes, a file of six, and segments that start or end in   *)
(* the middle of a page, need a second page table, overlap, or have sums   *)
(* that wrap.                                                              *)
(***************************************************************************)
EXTENDS ElfLoader

Segment(v, m, f, o, r) ==
  [type |-> "load", vaddr |-> v, memsz |-> m, filesz |-> f, offset |-> o, flags |-> r]

MCPhdrs ==
  { Segment(4, 4, 4, 0, {"r", "x"}),           \* one whole page of code
    Segment(10, 12, 3, 2, {"r", "w"}),         \* data, then bytes left to faults
    Segment(14, 5, 5, 1, {"r"}),               \* over the end of a page table
    Segment(2, 5, 4, 3, {"r", "w"}),           \* more than the file has
    Segment(122, 5, 1, 0, {"r", "w"}),         \* near the end of the user half
    Segment(127, 1, 1, 0, {"r"}),              \* and up to it
    Segment(26, 511, 3, 1, {"r"}),             \* memsz wraps, within one page
    Segment(28, 3, 2, 510, {"r"}),             \* offset + filesz wraps
    [Segment(4, 4, 4, 0, {"r"}) EXCEPT !.type = "note"] }

MCPhoffs == {2, 5, 510}
=============================================================================
