----------------------------- MODULE ProcMemory -----------------------------
(***************************************************************************)
(* What the user address spaces of mm_struct.c and fault.c promise to the  *)
(* programs that run in them.  Each address space has a memory of its own: *)
(* a store changes one page of one address space, a forked child starts    *)
(* with a copy of its parent's memory, and nothing else changes what a     *)
(* program reads.  Frames, reference counts, page tables and the TLB do    *)
(* not appear.                                                             *)
(***************************************************************************)
CONSTANTS
  Mm,        \* address spaces
  Page,      \* user pages
  Value,     \* contents of a page
  Zero,      \* the contents of a page never stored to
  Layout,    \* the VMA lists a program can have, as [Page -> {"none", "ro", "rw"}]
  Gone       \* an address space that does not exist

VARIABLES
  memory,    \* contents of each address space, page by page
  access     \* what its VMAs allow

Init ==
  /\ memory = [m \in Mm |-> Gone]
  /\ access = [m \in Mm |-> Gone]

(* A program is loaded: some pages hold its image, the others read as zero. *)
Exec(m) ==
  /\ memory[m] = Gone
  /\ \E layout \in Layout, image \in [Page -> Value] :
       /\ \A p \in Page : layout[p] = "none" => image[p] = Zero
       /\ memory' = [memory EXCEPT ![m] = image]
       /\ access' = [access EXCEPT ![m] = layout]

Store(m) ==
  /\ memory[m] # Gone
  /\ \E p \in Page, v \in Value :
       /\ access[m][p] = "rw"
       /\ memory' = [memory EXCEPT ![m][p] = v]
  /\ UNCHANGED access

Fork(m, c) ==
  /\ memory[m] # Gone /\ memory[c] = Gone
  /\ memory' = [memory EXCEPT ![c] = memory[m]]
  /\ access' = [access EXCEPT ![c] = access[m]]

End(m) ==
  /\ memory[m] # Gone
  /\ memory' = [memory EXCEPT ![m] = Gone]
  /\ access' = [access EXCEPT ![m] = Gone]

Next == \E m \in Mm : Exec(m) \/ Store(m) \/ End(m) \/ \E c \in Mm : Fork(m, c)

Spec == Init /\ [][Next]_<<memory, access>>
=============================================================================
