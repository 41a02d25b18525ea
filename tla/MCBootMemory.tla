---------------------------- MODULE MCBootMemory ----------------------------
(***************************************************************************)
(* A small machine: 32 frames of 8 units, large pages of two frames.       *)
(* Frame 0 stands for the first megabyte, 1 and 2 for Kernel32's page      *)
(* tables, 3 for the GDT, 4 and 5 for the kernel's image, 7 for the boot   *)
(* stack, 8 for the IST stack.  The firmwares are the cases the code tells *)
(* apart.                                                                  *)
(***************************************************************************)
EXTENDS BootMemory

Answer(base, end, type) == [base |-> base, len |-> end - base, type |-> type, size |-> 24, ignore |-> FALSE]
U(base, end) == Answer(base, end, "usable")
R(base, end) == Answer(base, end, "reserved")

MCFirmwares == {
  <<U(8, 176), R(5, 8), U(0, 5)>>,                    \* out of order, partial page
  <<U(0, 136), R(139, 146), U(146, 176)>>,            \* a hole with ragged edges
  <<U(60, 170), U(8, 100), U(80, 90), U(100, 110)>>,  \* overlaps within one type
  <<U(0, 100), U(100, 170), R(170, 192)>>,            \* two ranges that only touch
  <<U(0, 116), R(100, 102), U(114, 176)>>,            \* a reserved range inside usable ones
  <<U(0, 72), U(72, 130), R(130, 136), R(140, 141), U(136, 140), U(141, 192)>>, \* one too many
  <<U(0, 240)>>,                                      \* the most a boot window maps
  <<U(0, 254)>>,                                      \* memory above the boot window
  <<[U(0, 64) EXCEPT !.ignore = TRUE], [R(0, 9) EXCEPT !.size = 0], U(0, 150)>>,
  <<U(0, 100)>>,                                      \* too little memory
  <<U(0, 40), U(48, 160)>>,                           \* nothing known where the kernel clears
  <<U(0, 68), R(68, 80), U(80, 160)>>,                \* no usable memory at the static top
  <<U(0, 90), U(96, 176)>>,                           \* too little for mem_map
  <<U(0, 98), U(112, 176)>>,                          \* mem_map fits, the bitmap does not
  <<U(0, 128)>>,                                      \* too few frames for the page tables
  <<U(160, 160)>>,                                    \* only an entry of length zero
  <<>> }

MCKernelEnds == {44, 50}
MCBootTables == <<8, 24>>
MCZeroed == <<8, 56>>
MCFixed == {<<0, 8>>, <<24, 32>>, <<56, 64>>, <<64, 72>>}
=============================================================================
