------------------------------- MODULE Buddy -------------------------------
(***************************************************************************)
(* The physical frame allocator of 02.Kernel64/src/pmm.c: free lists by    *)
(* order, splitting in kAllocPages, merging in kFreePages, and the rebuild *)
(* of the lists when boot memory is given back (kUnreserveRange).          *)
(*                                                                         *)
(* A call is one step: the reference counts, and what the interleaving of  *)
(* calls does to them, are in module CowMm.                                *)
(***************************************************************************)
EXTENDS Naturals, Sequences, FiniteSets, SequencesExt

CONSTANTS
  Total,        \* frames a machine can have at most
  MaxOrder      \* PMM_MAX_ORDER: blocks have orders 0 .. MaxOrder - 1

Pfn == 0 .. Total - 1
Order == 0 .. MaxOrder - 1
Run(p, o) == p .. p + 2^o - 1

ASSUME BuddyAssumption == Total \in Nat \ {0} /\ MaxOrder \in Nat \ {0}

(* Arithmetic, stated for the prover, which does not know exponents.       *)
ASSUME PowerAssumption ==
  /\ 2^0 = 1
  /\ \A k \in 0 .. MaxOrder : 2^k \in Nat \ {0} /\ 2^(k + 1) = 2 * 2^k

(* The members of S in the order before, given as a set of pairs.          *)
Arranged(S, before) ==
  [i \in 1 .. Cardinality(S) |->
     CHOOSE x \in S : Cardinality({y \in S : <<y, x>> \in before}) = i - 1]

VARIABLES
  total,      \* g_qwTotalPages
  bitmap,     \* frames whose bit is set: free
  reserved,   \* frames with PG_RESERVED
  buddy,      \* frames with PG_BUDDY
  order,      \* page_t.iOrder
  area,       \* g_vstFreeArea, first entry first
  freePages,  \* g_qwFreePages
  held,       \* blocks callers hold, as <<pfn, order>>
  refused     \* the last call was a kAllocPages that returned 0

buddyVars == <<total, bitmap, reserved, buddy, order, area, freePages, held, refused>>

BuddyOf(p, o) == IF (p \div 2^o) % 2 = 0 THEN p + 2^o ELSE p - 2^o
AlignDown(p, o) == p - (p % 2^o)
-----------------------------------------------------------------------------
(* kBuildBuddyLists walks the frames upwards and makes the largest aligned *)
(* block of free frames at each place (a free frame is below total, so a   *)
(* block of free frames does not pass it).                                 *)
Makes(free, p, o) == p % 2^o = 0 /\ Run(p, o) \subseteq free

Blocks(free) ==
  {b \in Pfn \X Order :
     /\ Makes(free, b[1], b[2])
     /\ \A k \in Order : k > b[2] => ~Makes(free, AlignDown(b[1], k), k)}

(* Each block is pushed at the front of its list. *)
Above == {pair \in Pfn \X Pfn : pair[1] > pair[2]}
BuiltAreas(free) ==
  [o \in Order |-> Arranged({p \in Pfn : <<p, o>> \in Blocks(free)}, Above)]

(* PG_BUDDY and iOrder are set on the blocks found and left alone on all   *)
(* other frames.                                                           *)
Build(free) ==
  /\ area' = BuiltAreas(free)
  /\ buddy' = buddy \union {b[1] : b \in Blocks(free)}
  /\ order' = [p \in Pfn |-> IF \E o \in Order : <<p, o>> \in Blocks(free)
                             THEN CHOOSE o \in Order : <<p, o>> \in Blocks(free)
                             ELSE order[p]]

(* .bss before kInitializePhysicalMemory: no frame is known.               *)
NoFrames ==
  /\ total = 0 /\ freePages = 0
  /\ bitmap = {} /\ reserved = {} /\ buddy = {}
  /\ area = [o \in Order |-> <<>>] /\ order = [p \in Pfn |-> 0]
  /\ held = {} /\ refused = FALSE

(* The end of kInitializePhysicalMemory: the frames left free and those    *)
(* reserved are known, and the lists are built.                            *)
TakeOver(count, free, fixed) ==
  /\ total' = count
  /\ bitmap' = free
  /\ reserved' = fixed
  /\ freePages' = Cardinality(free)
  /\ Build(free)
  /\ UNCHANGED <<held, refused>>

(* kUnreserveRange: frames that are not reserved are left alone.           *)
UnreserveRange(frames) ==
  LET R == frames \cap reserved IN
  /\ reserved' = reserved \ R
  /\ bitmap' = bitmap \union R
  /\ freePages' = freePages + Cardinality(R \ bitmap)
  /\ Build(bitmap \union R)
  /\ refused' = FALSE
  /\ UNCHANGED <<total, held>>
-----------------------------------------------------------------------------
(* Faulty: larger blocks are not split. *)
Sources_SameOrder(o) == {k \in Order : k = o /\ area[k] # <<>>}

(* kAllocPages takes the first block of the smallest order that has one    *)
(* and puts back the upper half of each split.                             *)
Sources(o) == {k \in Order : k >= o /\ area[k] # <<>>}

AllocPages(o) ==
  /\ Sources(o) # {}
  /\ LET from == CHOOSE k \in Sources(o) : \A j \in Sources(o) : k <= j
         p == Head(area[from])
         Halves == {k \in Order : o <= k /\ k < from}
         Upper == {p + 2^k : k \in Halves}
     IN
     /\ area' = [k \in Order |-> IF k = from THEN Tail(area[k])
                                 ELSE IF k \in Halves THEN <<p + 2^k>> \o area[k]
                                 ELSE area[k]]
     /\ buddy' = (buddy \ {p}) \union Upper
     /\ order' = [q \in Pfn |-> IF q = p THEN o
                                ELSE IF q \in Upper THEN CHOOSE k \in Halves : q = p + 2^k
                                ELSE order[q]]
     /\ bitmap' = bitmap \ Run(p, o)
     /\ held' = held \union {<<p, o>>}
  /\ freePages' = freePages - 2^o
  /\ refused' = FALSE
  /\ UNCHANGED <<total, reserved>>

AllocFails(o) ==
  /\ Sources(o) = {}
  /\ refused' = TRUE
  /\ UNCHANGED <<total, bitmap, reserved, buddy, order, area, freePages, held>>
-----------------------------------------------------------------------------
(* Faulty: a free buddy of any order is taken. *)
MergesWith_AnyOrder(p, k) ==
  LET b == BuddyOf(AlignDown(p, k), k) IN
  b + 2^k <= total /\ b \notin reserved /\ b \in buddy

(* Can the block of order k that p was merged into so far take its buddy?  *)
MergesWith(p, k) ==
  LET b == BuddyOf(AlignDown(p, k), k) IN
  /\ b + 2^k <= total
  /\ b \notin reserved
  /\ b \in buddy
  /\ order[b] = k

(* Faulty: the largest order is never built. *)
Stops_OneShort(p, o) ==
  CHOOSE k \in o .. MaxOrder - 1 :
    /\ k >= MaxOrder - 2 \/ ~MergesWith(p, k)
    /\ \A j \in o .. k - 1 : MergesWith(p, j)

(* Where the merging of a block of order o at p stops. *)
Stops(p, o) ==
  CHOOSE k \in o .. MaxOrder - 1 :
    /\ k = MaxOrder - 1 \/ ~MergesWith(p, k)
    /\ \A j \in o .. k - 1 : MergesWith(p, j)

(* kFreePages refuses a block of which any frame is reserved or free.      *)
Refuses(p, o) ==
  \/ p + 2^o > total
  \/ Run(p, o) \cap (reserved \union bitmap) # {}

FreePages(p, o) ==
  /\ ~Refuses(p, o)
  /\ LET top == Stops(p, o)
         Taken == {BuddyOf(AlignDown(p, k), k) : k \in o .. top - 1}
         head == AlignDown(p, top)
     IN
     /\ area' = [k \in Order |->
                   IF k = top THEN <<head>> \o area[k]
                   ELSE IF o <= k /\ k < top THEN RemoveFirst(area[k], BuddyOf(AlignDown(p, k), k))
                   ELSE area[k]]
     /\ buddy' = ((buddy \ Run(p, o)) \ Taken) \union {head}
     /\ order' = [order EXCEPT ![head] = top]
  /\ bitmap' = bitmap \union Run(p, o)
  /\ freePages' = freePages + 2^o
  /\ held' = held \ {<<p, o>>}
  /\ refused' = FALSE
  /\ UNCHANGED <<total, reserved>>

(* What callers pass: a block they hold, a block they freed before, or a   *)
(* reserved frame. Boot code never frees what it took.                     *)
Passed(kept) ==
  (held \ kept) \union {b \in Pfn \X Order : Run(b[1], b[2]) \subseteq bitmap}
                \union {<<p, 0>> : p \in reserved}

FreeRefused(kept) ==
  /\ {b \in Passed(kept) : Refuses(b[1], b[2])} # {}
  /\ refused' = FALSE
  /\ UNCHANGED <<total, bitmap, reserved, buddy, order, area, freePages, held>>

Calls(kept) ==
  \/ \E o \in Order : AllocPages(o) \/ AllocFails(o)
  \/ \E b \in Passed(kept) : FreePages(b[1], b[2])
  \/ FreeRefused(kept)
-----------------------------------------------------------------------------
FramesTypeOK ==
  /\ total \in 0 .. Total
  /\ bitmap \subseteq Pfn /\ reserved \subseteq Pfn /\ buddy \subseteq Pfn
  /\ order \in [Pfn -> Order]
  /\ area \in [Order -> Seq(Pfn)]
  /\ freePages \in 0 .. Total
  /\ held \subseteq Pfn \X Order
  /\ refused \in BOOLEAN

Listed == {b \in Pfn \X Order : Contains(area[b[2]], b[1])}

(* The free lists partition the free frames: every free frame is in one    *)
(* listed block, every listed block is aligned, free, marked PG_BUDDY with *)
(* its order and listed once, and the count agrees.  pmm.c:208, pmm.c:233  *)
FreeListsExact ==
  /\ \A o \in Order : IsInjective(area[o])
  /\ \A b \in Listed : b[1] % 2^b[2] = 0 /\ b[1] \in buddy /\ order[b[1]] = b[2]
  /\ \A f \in bitmap : Cardinality({b \in Listed : f \in Run(b[1], b[2])}) = 1
  /\ \A b \in Listed : Run(b[1], b[2]) \subseteq bitmap
  /\ freePages = Cardinality(bitmap)

(* Free neighbours are merged as far as they can be, so an allocation      *)
(* fails only when memory is really too fragmented.  pmm.c:385             *)
FullyMerged ==
  \A b \in Listed : b[2] < MaxOrder - 1 => <<BuddyOf(b[1], b[2]), b[2]>> \notin Listed

(* kfree frees a large block with the order found in its first frame.      *)
(* slab.c:319                                                              *)
OrderRemembered == \A b \in held : order[b[1]] = b[2]

(* Callers get frames nobody else has, and are refused only when no run is *)
(* left.                                                                   *)
Allocator == INSTANCE FrameAllocator WITH avail <- bitmap
HandsOutFreeRuns == Allocator!Spec
=============================================================================
