--------------------------- MODULE FrameAllocator ---------------------------
(***************************************************************************)
(* What pmm.c promises to its callers: naturally aligned runs of 2^order   *)
(* frames that nobody else has, taken from memory that is not reserved,    *)
(* and a refusal only when no such run is left.  Free lists, splitting and *)
(* merging do not appear.                                                  *)
(***************************************************************************)
EXTENDS Naturals

CONSTANTS
  Pfn,       \* frame numbers
  Order      \* orders a caller can ask for

VARIABLES
  avail,     \* frames that can be handed out
  held,      \* blocks <<pfn, order>> that callers hold
  refused    \* the last call to allocate failed

Run(p, o) == p .. p + 2^o - 1
Candidates(o) == {p \in Pfn : p % 2^o = 0 /\ Run(p, o) \subseteq avail}

Init == avail \subseteq Pfn /\ held = {} /\ refused = FALSE

Alloc(o) ==
  \/ \E p \in Candidates(o) :
       /\ avail' = avail \ Run(p, o)
       /\ held' = held \union {<<p, o>>}
       /\ refused' = FALSE
  \/ /\ Candidates(o) = {}
     /\ refused' = TRUE
     /\ UNCHANGED <<avail, held>>

Free(p, o) ==
  /\ <<p, o>> \in held
  /\ avail' = avail \union Run(p, o)
  /\ held' = held \ {<<p, o>>}
  /\ refused' = FALSE

(* Reserved memory becomes ordinary memory. *)
Release ==
  /\ avail \subseteq avail' /\ avail' \subseteq Pfn
  /\ \A b \in held : Run(b[1], b[2]) \cap (avail' \ avail) = {}
  /\ held' = held
  /\ refused' = FALSE

Next == (\E o \in Order : Alloc(o) \/ \E p \in Pfn : Free(p, o)) \/ Release

Spec == Init /\ [][Next]_<<avail, held, refused>>
=============================================================================
