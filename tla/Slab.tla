-------------------------------- MODULE Slab --------------------------------
(***************************************************************************)
(* The kernel heap of 02.Kernel64/src/slab.c: object caches made of slabs, *)
(* the free objects of a slab chained through the objects themselves, and  *)
(* kmalloc on top of caches of powers of two.  kfree finds the owner of an *)
(* address in the page_t of its frame.                                     *)
(*                                                                         *)
(* Memory is measured in QWORDs, addresses are physical.  A call is one    *)
(* step; a refused call changes nothing and is no step.                    *)
(***************************************************************************)
EXTENDS Integers, Sequences, FiniteSets, SequencesExt

CONSTANTS
  Pages,       \* frames of memory
  PageSize,    \* QWORDs in a frame
  HeaderSize,  \* sizeof(slab_t)
  MinObjs,     \* objects a slab must hold: 8 in the code
  MaxOrder,    \* PMM_MAX_ORDER
  MaxCache,    \* SLAB_MAX_CACHE
  MaxShift,    \* kmalloc caches hold objects of 2^0 .. 2^MaxShift QWORDs
  Requests,    \* <<qwSize, qwAlign>> that kKmemCacheCreate is asked for
  Sizes        \* sizes that kmalloc is asked for

ASSUME SlabAssumption ==
  /\ {Pages, PageSize, HeaderSize, MinObjs, MaxOrder} \subseteq Nat \ {0}
  /\ MaxCache \in Nat /\ MaxShift \in Nat /\ MaxShift < MaxCache
  /\ Requests \subseteq (Nat \ {0}) \X (Nat \ {0}) /\ Sizes \subseteq Nat \ {0}

VARIABLES
  cache,    \* gvstCacheTable: the caches in use, in their order
  slab,     \* the slab_t and the chain of free objects at a frame
  owner,    \* frame of the slab in pvPrivate where PG_SLAB is set, or NoSlab
  order,    \* page_t.iOrder
  taken,    \* frames that kAllocPages gave out
  live      \* blocks <<address, size>> that callers hold

vars == <<cache, slab, owner, order, taken, live>>

Page == 0 .. Pages - 1
Order == 0 .. MaxOrder - 1
Run(p, o) == p .. p + 2^o - 1
NoSlab == -1
NoFree == -1
Nothing == [cache |-> 0]
-----------------------------------------------------------------------------
(* The geometry of a cache, as kKmemCacheCreate works it out.              *)
AlignUp(n, a) == ((n + a - 1) \div a) * a
Header(align) == AlignUp(HeaderSize, align)

(* Faulty: the header is not taken off the slab's size. *)
ObjsIn_NoHeader(o, size, align) == (2^o * PageSize) \div AlignUp(size, align)

ObjsIn(o, size, align) == (2^o * PageSize - Header(align)) \div AlignUp(size, align)

Roomy(size, align) ==
  {o \in Order : 2^o * PageSize > Header(align) /\ ObjsIn(o, size, align) >= MinObjs}

(* kInitializeSlab gets all its caches; an alignment divides a page.  The  *)
(* third is a fact of arithmetic that the provers do not know.             *)
ASSUME GeometryAssumption ==
  /\ \A k \in 0 .. MaxShift : Roomy(2^k, 1) # {}
  /\ \A r \in Requests : PageSize % r[2] = 0
  /\ \A k \in Order \union 0 .. MaxShift : 2^k \in Nat \ {0}

NewCache(size, align) ==
  LET o == CHOOSE k \in Roomy(size, align) : \A j \in Roomy(size, align) : k <= j IN
  [size |-> AlignUp(size, align), align |-> align, order |-> o,
   objs |-> ObjsIn(o, size, align), partial |-> <<>>, full |-> <<>>,
   active |-> 0, slabs |-> 0]

Init ==
  /\ cache = [i \in 1 .. MaxShift + 1 |-> NewCache(2^(i - 1), 1)]
  /\ slab = [p \in Page |-> Nothing]
  /\ owner = [p \in Page |-> NoSlab] /\ order = [p \in Page |-> 0]
  /\ taken = {} /\ live = {}

KmemCacheCreate(size, align) ==
  /\ Len(cache) < MaxCache
  /\ Roomy(size, align) # {}
  /\ cache' = Append(cache, NewCache(size, align))
  /\ UNCHANGED <<slab, owner, order, taken, live>>
-----------------------------------------------------------------------------
(* kAllocPages: any free, naturally aligned run (module FrameAllocator).   *)
FreeRuns(o) == {p \in Page : p % 2^o = 0 /\ Run(p, o) \subseteq Page \ taken}

(* Faulty: the chain of a new slab runs one object too far. *)
Grown_ChainTooLong(c) ==
  [cache |-> c, free |-> cache[c].objs, first |-> 0,
   next |-> [i \in 0 .. cache[c].objs - 1 |-> i + 1]]

(* kSlabGrow: all objects free, chained in order, owner noted in every     *)
(* frame, the slab at the front of the partial list.                       *)
Grown(c) ==
  [cache |-> c, free |-> cache[c].objs, first |-> 0,
   next |-> [i \in 0 .. cache[c].objs - 1 |-> IF i + 1 < cache[c].objs THEN i + 1 ELSE NoFree]]

AfterGrow(r, p) == [r EXCEPT !.partial = <<p>> \o @, !.slabs = @ + 1]

(* Faulty: the object after the one handed out is taken for free. *)
Popped_Next(s) == [s EXCEPT !.first = IF @ + 1 \in DOMAIN s.next THEN @ + 1 ELSE NoFree,
                            !.free = @ - 1, !.next[s.first] = 0]

(* kKmemCacheAlloc's work on slab s of cache r: the first free object goes *)
(* to the caller, zeroed; a slab with none left moves to the full list.    *)
Popped(s) == [s EXCEPT !.first = s.next[s.first], !.free = @ - 1, !.next[s.first] = 0]

AfterAlloc(r, p, s) ==
  [r EXCEPT !.active = @ + 1,
            !.partial = IF s.free = 1 THEN RemoveFirst(@, p) ELSE @,
            !.full = IF s.free = 1 THEN <<p>> \o @ ELSE @]

Handed(p, s) ==
  p * PageSize + Header(cache[s.cache].align) + s.first * cache[s.cache].size

AllocFromPartial(c, n) ==
  /\ cache[c].partial # <<>>
  /\ LET p == Head(cache[c].partial) IN
     /\ slab[p].first # NoFree
     /\ slab' = [slab EXCEPT ![p] = Popped(@)]
     /\ cache' = [cache EXCEPT ![c] = AfterAlloc(@, p, slab[p])]
     /\ live' = live \union {<<Handed(p, slab[p]), n>>}
  /\ UNCHANGED <<owner, order, taken>>

AllocFromNewSlab(c, n) ==
  /\ cache[c].partial = <<>>
  /\ \E p \in FreeRuns(cache[c].order) :
       LET o == cache[c].order IN
       /\ taken' = taken \union Run(p, o)
       /\ order' = [order EXCEPT ![p] = o]
       /\ owner' = [q \in Page |-> IF q \in Run(p, o) THEN p ELSE owner[q]]
       /\ slab' = [slab EXCEPT ![p] = Popped(Grown(c))]
       /\ cache' = [cache EXCEPT ![c] = AfterAlloc(AfterGrow(@, p), p, Grown(c))]
       /\ live' = live \union {<<Handed(p, Grown(c)), n>>}

(* The caller uses n QWORDs of the object it gets.                         *)
KmemCacheAlloc(c, n) == AllocFromPartial(c, n) \/ AllocFromNewSlab(c, n)
-----------------------------------------------------------------------------
SlabAt(addr) == owner[addr \div PageSize]

(* The index of an object, counted from the first one of its slab.         *)
IndexOf(addr) ==
  LET p == SlabAt(addr)
      c == cache[slab[p].cache]
  IN (addr - p * PageSize - Header(c.align)) \div c.size

(* Faulty: a slab that was full stays on the full list. *)
AfterFree_StaysFull(r, p, s) == [r EXCEPT !.active = @ - 1]

AfterFree(r, p, s) ==
  [r EXCEPT !.active = @ - 1,
            !.full = IF s.free = 0 THEN RemoveFirst(@, p) ELSE @,
            !.partial = IF s.free = 0 THEN <<p>> \o @ ELSE @]

(* kKmemCacheFree, past its checks: the object becomes the head of the     *)
(* chain, a slab that was full comes back to the partial list.             *)
KmemCacheFree(c, b) ==
  /\ SlabAt(b[1]) # NoSlab /\ slab[SlabAt(b[1])].cache = c
  /\ IndexOf(b[1]) < cache[c].objs
  /\ LET p == SlabAt(b[1])
         i == IndexOf(b[1])
         s == slab[p]
     IN
     /\ slab' = [slab EXCEPT ![p] = [s EXCEPT !.next[i] = s.first, !.first = i, !.free = @ + 1]]
     /\ cache' = [cache EXCEPT ![c] = AfterFree(@, p, s)]
  /\ live' = live \ {b}
  /\ UNCHANGED <<owner, order, taken>>

(* kmalloc: the smallest cache that fits, or frames of their own.          *)
Classes(n) == {i \in 0 .. MaxShift : n <= 2^i}
Orders(n) == {o \in Order : n <= 2^o * PageSize}

KmallocSmall(n) ==
  /\ Classes(n) # {}
  /\ KmemCacheAlloc(1 + (CHOOSE i \in Classes(n) : \A j \in Classes(n) : i <= j), n)

(* Faulty: iOrder is left as it was. *)
KmallocLarge_NoOrder(n) ==
  /\ Classes(n) = {} /\ Orders(n) # {}
  /\ LET o == CHOOSE k \in Orders(n) : \A j \in Orders(n) : k <= j IN
     \E p \in FreeRuns(o) :
       /\ taken' = taken \union Run(p, o)
       /\ live' = live \union {<<p * PageSize, n>>}
  /\ UNCHANGED <<cache, slab, owner, order>>

KmallocLarge(n) ==
  /\ Classes(n) = {} /\ Orders(n) # {}
  /\ LET o == CHOOSE k \in Orders(n) : \A j \in Orders(n) : k <= j IN
     \E p \in FreeRuns(o) :
       /\ taken' = taken \union Run(p, o)
       /\ order' = [order EXCEPT ![p] = o]
       /\ live' = live \union {<<p * PageSize, n>>}
  /\ UNCHANGED <<cache, slab, owner>>

(* kfree needs no size: PG_SLAB tells an object from frames.               *)
KfreeObject(b) ==
  /\ SlabAt(b[1]) # NoSlab
  /\ KmemCacheFree(slab[SlabAt(b[1])].cache, b)

KfreePages(b) ==
  /\ SlabAt(b[1]) = NoSlab
  /\ LET p == b[1] \div PageSize IN taken' = taken \ Run(p, order[p])
  /\ live' = live \ {b}
  /\ UNCHANGED <<cache, slab, owner, order>>

(* Objects of caches other than kmalloc's are asked for by cache.          *)
Next ==
  \/ \E r \in Requests : KmemCacheCreate(r[1], r[2])
  \/ \E c \in MaxShift + 2 .. Len(cache) : KmemCacheAlloc(c, cache[c].size)
  \/ \E c \in MaxShift + 2 .. Len(cache), b \in live : KmemCacheFree(c, b)
  \/ \E n \in Sizes : KmallocSmall(n) \/ KmallocLarge(n)
  \/ \E b \in live : KfreeObject(b) \/ KfreePages(b)

Spec == Init /\ [][Next]_vars
-----------------------------------------------------------------------------
Cache == [size : Nat, align : Nat, order : Order, objs : Nat, partial : Seq(Page),
          full : Seq(Page), active : Int, slabs : Nat]

(* Every variable has the type of the C object it stands for.              *)
TypeOK ==
  /\ cache \in Seq(Cache) /\ Len(cache) <= MaxCache
  /\ \A p \in Page : slab[p] = Nothing \/
       LET s == slab[p] IN
       /\ s.cache \in DOMAIN cache /\ s.free \in 0 .. cache[s.cache].objs
       /\ s.first \in 0 .. cache[s.cache].objs - 1 \union {NoFree}
       /\ s.next \in [0 .. cache[s.cache].objs - 1 -> -1 .. cache[s.cache].objs - 1]
  /\ owner \in [Page -> Page \union {NoSlab}] /\ order \in [Page -> Order]
  /\ taken \subseteq Page /\ live \subseteq Nat \X Nat

Slabs == {p \in Page : slab[p] # Nothing}
Words(b) == b[1] .. b[1] + b[2] - 1
Objects(p) == {b \in live : owner[b[1] \div PageSize] = p}

(* kKmallocTest's pattern check, for every sequence of calls: no two live  *)
(* blocks overlap, and an object of a cache is aligned and lies behind the *)
(* header of its own slab and before the slab's end.                       *)
BlocksApart ==
  /\ \A a, b \in live : a # b => Words(a) \cap Words(b) = {}
  /\ \A p \in Slabs, b \in live :
       LET c == cache[slab[p].cache]
           Frame == p * PageSize .. (p + 2^c.order) * PageSize - 1
       IN Words(b) \cap Frame # {} =>
            /\ b \in Objects(p)
            /\ Words(b) \subseteq Frame
            /\ b[1] >= p * PageSize + HeaderSize
            /\ b[1] % c.align = 0

(* The chain through the free objects of a slab visits each of them once   *)
(* and ends there: an object is in the chain or with a caller, never both. *)
Visited(s) ==
  LET at[k \in 0 .. s.free] == IF k = 0 THEN s.first ELSE s.next[at[k - 1]] IN at
InUse(p) == {IndexOf(b[1]) : b \in Objects(p)}

ChainsExact ==
  \A p \in Slabs :
    LET s == slab[p]
        Chain == {Visited(s)[k] : k \in 0 .. s.free - 1}
    IN /\ Visited(s)[s.free] = NoFree
       /\ Chain = DOMAIN s.next \ InUse(p)
       /\ Cardinality(Chain) = s.free

(* A slab is on one list of its cache, once: the partial one exactly while *)
(* it has a free object.  The counters that slabinfo prints agree.         *)
ListsExact ==
  \A c \in DOMAIN cache :
    LET Own == {p \in Slabs : slab[p].cache = c} IN
    /\ IsInjective(cache[c].partial) /\ IsInjective(cache[c].full)
    /\ ToSet(cache[c].partial) = {p \in Own : slab[p].free > 0}
    /\ ToSet(cache[c].full) = {p \in Own : slab[p].free = 0}
    /\ cache[c].slabs = Cardinality(Own)
    /\ cache[c].active = Cardinality(UNION {Objects(p) : p \in Own})

(* Every object of a cache is with one caller or can be found again, and   *)
(* the lists lead kKmemCacheAlloc to it.  slab.c:249, slab.c:254           *)
SlabsExact == TypeOK /\ ChainsExact /\ ListsExact

(* kfree has only the address: the frame's page_t leads from any live      *)
(* object to its slab, and from frames given out whole to their order, so  *)
(* that the frames in use are exactly those of slabs and of such blocks.   *)
OwnersFound ==
  LET Whole == {b \in live : SlabAt(b[1]) = NoSlab} IN
  /\ \A p \in Slabs : \A q \in Run(p, cache[slab[p].cache].order) : owner[q] = p
  /\ \A b \in Whole : Words(b) \subseteq
       b[1] .. b[1] + 2^order[b[1] \div PageSize] * PageSize - 1
  /\ taken = UNION ({Run(p, cache[slab[p].cache].order) : p \in Slabs}
                    \union {Run(b[1] \div PageSize, order[b[1] \div PageSize]) : b \in Whole})
=============================================================================
