------------------------------ MODULE Vmalloc ------------------------------
(***************************************************************************)
(* Kernel stacks and other ranges of the vmalloc window                    *)
(* (02.Kernel64/src/vmalloc.c): kVmapPages takes the next addresses, maps  *)
(* a frame behind each page and leaves guard pages unmapped; kVfree undoes *)
(* it.  Both run with interrupts on unless their caller turned them off,   *)
(* so calls interleave page by page.                                       *)
(*                                                                         *)
(* Pages are numbered from VMALLOC_START.  One level of page tables stands *)
(* for the levels below the PML4 entry that kInitializePaging makes.  A    *)
(* step does one page; calls into pmm.c and slab.c are part of it.         *)
(***************************************************************************)
EXTENDS Naturals, FiniteSets

CONSTANTS
  Frames,      \* frames of physical memory
  Window,      \* pages in the vmalloc window
  PerTable,    \* pages that one page table maps
  Tables0,     \* page tables that exist already
  Desc,        \* addresses of area descriptors, numbered from 1 in the order of the slabs
  PerSlab,     \* descriptors in one slab
  Callers,     \* contexts that call into vmalloc.c
  Creators,    \* those that call kVmapPages
  Masked,      \* those that run with interrupts off (system calls)
  Counts,      \* iPageCount asked for
  Guards,      \* <<iGuardBefore, iGuardAfter>> asked for
  None

ASSUME VmallocAssumption ==
  /\ Window \in Nat /\ PerTable \in Nat \ {0} /\ PerSlab \in Nat \ {0}
  /\ Desc \subseteq Nat \ {0} /\ IsFiniteSet(Desc)
  /\ Creators \subseteq Callers /\ Masked \subseteq Callers
  /\ Counts \subseteq Nat \ {0} /\ Guards \subseteq Nat \X Nat
  /\ None \notin Frames \union Desc

VARIABLES
  nextFree,    \* g_qwNextFree
  mappedPages, \* g_qwMappedPages
  area,        \* the vmalloc_area_t in each descriptor
  listed,      \* descriptors on g_stAreaList
  spare,       \* free descriptors of g_poAreaCache
  slabs,       \* its qwNumSlabs
  pte,         \* frame behind each page of the window, or None
  tables,      \* page tables of the window
  free,        \* free frames
  tlb,         \* translations the processor holds
  call,        \* the call each context is in
  lost,        \* frames that failing calls of kMapPage have left mapped
  raced        \* has a call of kVmapPages begun inside another? (only for the
               \* properties)

memory == <<pte, tables, free, tlb>>
vars == <<nextFree, mappedPages, area, listed, spare, slabs, memory, call, lost, raced>>

Page == 0 .. Window - 1
Table(p) == p \div PerTable
ASSUME TablesAssumption == Tables0 \subseteq {Table(p) : p \in Page}
Area == [start : Nat, va : Nat, count : Nat, before : Nat, after : Nat]
NoArea == [start |-> 0, va |-> 0, count |-> 0, before |-> 0, after |-> 0]
Idle == [op |-> "none"]

Span(a) == a.start .. a.va + a.count + a.after - 1
Body(a) == a.va .. a.va + a.count - 1
GuardPages(a) == {p \in Page : \/ p < a.va /\ a.va <= p + a.before
                               \/ a.va + a.count <= p /\ p < a.va + a.count + a.after}

Init ==
  /\ nextFree = 0 /\ mappedPages = 0
  /\ area = [d \in Desc |-> NoArea] /\ listed = {}
  /\ spare = {} /\ slabs = 0
  /\ pte = [p \in Page |-> None] /\ tlb = [p \in Page |-> None]
  /\ tables = Tables0 /\ free = Frames
  /\ call = [c \in Callers |-> Idle] /\ lost = {} /\ raced = FALSE

InCall(op) == {c \in Callers : call[c].op = op}

(* A context with interrupts off is not preempted in the middle of a call. *)
MayRun(c) == \A d \in Callers \ {c} : call[d].op # "none" => d \notin Masked
-----------------------------------------------------------------------------
(* kKmemCacheAlloc gives a free descriptor, from a new slab if need be.    *)
NewSlab == {d \in Desc : slabs * PerSlab < d /\ d <= (slabs + 1) * PerSlab}

CacheAlloc(d) ==
  \/ /\ spare # {} /\ d \in spare
     /\ spare' = spare \ {d}
     /\ UNCHANGED <<slabs, free>>
  \/ /\ spare = {} /\ d \in NewSlab
     /\ spare' = NewSlab \ {d}
     /\ slabs' = slabs + 1
     /\ \E f \in free : free' = free \ {f}

Fits(n, g) == nextFree + g[1] + n + g[2] < Window

Begins(g) == nextFree + g[1]

(* kVmapPages up to its loop.  A refused call changes nothing.             *)
VmapStart(c, n, g, d) ==
  /\ MayRun(c) /\ c \in Creators /\ call[c] = Idle
  /\ Fits(n, g)
  /\ CacheAlloc(d)
  /\ call' = [call EXCEPT ![c] =
                 [op |-> "map", desc |-> d, i |-> 0,
                  new |-> [start |-> nextFree, va |-> Begins(g), count |-> n,
                           before |-> g[1], after |-> g[2]]]]
  /\ raced' = (raced \/ InCall("map") \union InCall("undo") # {})
  /\ UNCHANGED <<nextFree, mappedPages, area, listed, pte, tables, tlb, lost>>

(* kMapPage writes the entry and does not flush; kMemSet then uses the     *)
(* page, through whatever translation the processor has.                   *)
Mapped(p, f) ==
  /\ pte' = [pte EXCEPT ![p] = f]
  /\ tlb' = [tlb EXCEPT ![p] = IF @ = None THEN f ELSE @]

At(c) == call[c].new.va + call[c].i
Mapping(c) == MayRun(c) /\ call[c].op = "map" /\ call[c].i < call[c].new.count

VmapPage(c) ==
  /\ Mapping(c)
  /\ \E f \in free :
       /\ \/ /\ Table(At(c)) \in tables
             /\ free' = free \ {f}
             /\ tables' = tables
          \/ /\ Table(At(c)) \notin tables
             /\ \E t \in free \ {f} : free' = free \ {f, t}
             /\ tables' = tables \union {Table(At(c))}
       /\ Mapped(At(c), f)
  /\ call' = [call EXCEPT ![c].i = @ + 1]
  /\ UNCHANGED <<nextFree, mappedPages, area, listed, spare, slabs, lost, raced>>

(* Faulty: without a frame the call gives up and keeps what it mapped. *)
VmapNoFrame_KeepsPages(c) ==
  /\ Mapping(c) /\ free = {}
  /\ spare' = spare \union {call[c].desc}
  /\ call' = [call EXCEPT ![c] = Idle]
  /\ UNCHANGED <<nextFree, mappedPages, area, listed, slabs, memory, lost, raced>>

(* kAllocPage returned 0: take back the pages mapped so far, one by one.   *)
VmapNoFrame(c) ==
  /\ Mapping(c) /\ free = {}
  /\ call' = [call EXCEPT ![c] = [op |-> "undo", desc |-> @.desc, i |-> 0,
                                  new |-> [@.new EXCEPT !.count = call[c].i]]]
  /\ UNCHANGED <<nextFree, mappedPages, area, listed, spare, slabs, memory, lost, raced>>

(* kMapPage failed for want of a page table: the frame and the descriptor  *)
(* go back, the pages mapped so far stay.                                  *)
VmapNoTable(c) ==
  /\ Mapping(c) /\ Cardinality(free) = 1
  /\ Table(At(c)) \notin tables
  /\ spare' = spare \union {call[c].desc}
  /\ call' = [call EXCEPT ![c] = Idle]
  /\ lost' = lost \union {pte[call[c].new.va + j] : j \in 0 .. call[c].i - 1}
  /\ UNCHANGED <<nextFree, mappedPages, area, listed, slabs, memory, raced>>

(* Faulty: the guard pages after the area are not skipped. *)
VmapEnd_NoGuard(c) ==
  /\ MayRun(c) /\ call[c].op = "map" /\ call[c].i = call[c].new.count
  /\ LET a == call[c].new IN
     /\ area' = [area EXCEPT ![call[c].desc] = a]
     /\ listed' = listed \union {call[c].desc}
     /\ nextFree' = a.va + a.count
     /\ mappedPages' = mappedPages + a.count
  /\ call' = [call EXCEPT ![c] = Idle]
  /\ UNCHANGED <<spare, slabs, memory, lost, raced>>

(* The area is listed and its addresses are taken.                         *)
VmapEnd(c) ==
  /\ MayRun(c) /\ call[c].op = "map" /\ call[c].i = call[c].new.count
  /\ LET a == call[c].new IN
     /\ area' = [area EXCEPT ![call[c].desc] = a]
     /\ listed' = listed \union {call[c].desc}
     /\ nextFree' = a.va + a.count + a.after
     /\ mappedPages' = mappedPages + a.count
  /\ call' = [call EXCEPT ![c] = Idle]
  /\ UNCHANGED <<spare, slabs, memory, lost, raced>>
-----------------------------------------------------------------------------
(* kVfree finds the area by its address; its owner gives it back once.  No *)
(* system call frees an area.                                              *)
VfreeStart(c, d) ==
  /\ MayRun(c) /\ c \notin Masked /\ call[c] = Idle
  /\ d \in listed
  /\ \A e \in Callers : call[e].op = "free" => call[e].desc # d
  /\ call' = [call EXCEPT ![c] = [op |-> "free", desc |-> d, i |-> 0, new |-> area[d]]]
  /\ UNCHANGED <<nextFree, mappedPages, area, listed, spare, slabs, memory, lost, raced>>

(* Faulty: kUnmapPage without kInvlpg. *)
Unmapped_NoFlush(p) ==
  /\ pte' = [pte EXCEPT ![p] = None]
  /\ tlb' = tlb
  /\ free' = free \union ({pte[p]} \ {None})
  /\ tables' = tables

(* kVirtToPhys, kUnmapPage with its kInvlpg, kFreePage.                    *)
Unmapped(p) ==
  /\ pte' = [pte EXCEPT ![p] = None]
  /\ tlb' = [tlb EXCEPT ![p] = None]
  /\ free' = free \union ({pte[p]} \ {None})
  /\ tables' = tables

TakeBackPage(c) ==
  /\ MayRun(c) /\ call[c].op \in {"free", "undo"} /\ call[c].i < call[c].new.count
  /\ Unmapped(At(c))
  /\ call' = [call EXCEPT ![c].i = @ + 1]
  /\ UNCHANGED <<nextFree, mappedPages, area, listed, spare, slabs, lost, raced>>

UndoEnd(c) ==
  /\ MayRun(c) /\ call[c].op = "undo" /\ call[c].i = call[c].new.count
  /\ spare' = spare \union {call[c].desc}
  /\ call' = [call EXCEPT ![c] = Idle]
  /\ UNCHANGED <<nextFree, mappedPages, area, listed, slabs, memory, lost, raced>>

(* Faulty: the area stays on the list. *)
VfreeEnd_StaysListed(c) ==
  /\ MayRun(c) /\ call[c].op = "free" /\ call[c].i = call[c].new.count
  /\ mappedPages' = mappedPages - call[c].new.count
  /\ spare' = spare \union {call[c].desc}
  /\ call' = [call EXCEPT ![c] = Idle]
  /\ UNCHANGED <<listed, area, nextFree, slabs, memory, lost, raced>>

(* The descriptor's contents are poisoned; the addresses are not reused.   *)
VfreeEnd(c) ==
  /\ MayRun(c) /\ call[c].op = "free" /\ call[c].i = call[c].new.count
  /\ mappedPages' = mappedPages - call[c].new.count
  /\ listed' = listed \ {call[c].desc}
  /\ spare' = spare \union {call[c].desc}
  /\ area' = [area EXCEPT ![call[c].desc] = NoArea]
  /\ call' = [call EXCEPT ![c] = Idle]
  /\ UNCHANGED <<nextFree, slabs, memory, lost, raced>>

(* The owner of an area uses it; a load of CR3 empties the TLB.            *)
Use(p) ==
  /\ \E d \in listed : p \in Body(area[d])
  /\ pte[p] # None /\ tlb[p] = None
  /\ tlb' = [tlb EXCEPT ![p] = pte[p]]
  /\ UNCHANGED <<nextFree, mappedPages, area, listed, spare, slabs, pte, tables, free, call, lost, raced>>

LoadCr3 ==
  /\ tlb' = [p \in Page |-> None]
  /\ UNCHANGED <<nextFree, mappedPages, area, listed, spare, slabs, pte, tables, free, call, lost, raced>>

(* Faulty: the first guard page after an area is taken for part of it. *)
IsVmallocGuardPage_Late(p) ==
  \E d \in listed : \/ area[d].start <= p /\ p < area[d].va
                    \/ /\ area[d].va + area[d].count < p
                       /\ p < area[d].va + area[d].count + area[d].after

(* kIsVmallocGuardPage: the diagnosis kCommonExceptionHandler prints.      *)
IsVmallocGuardPage(p) ==
  \E d \in listed : \/ area[d].start <= p /\ p < area[d].va
                    \/ /\ area[d].va + area[d].count <= p
                       /\ p < area[d].va + area[d].count + area[d].after

Next ==
  \/ \E c \in Callers :
       \/ \E n \in Counts, g \in Guards, d \in Desc : VmapStart(c, n, g, d)
       \/ VmapPage(c) \/ VmapNoFrame(c) \/ VmapNoTable(c) \/ VmapEnd(c)
       \/ \E d \in Desc : VfreeStart(c, d)
       \/ TakeBackPage(c) \/ UndoEnd(c) \/ VfreeEnd(c)
  \/ \E p \in Page : Use(p)
  \/ LoadCr3

Spec == Init /\ [][Next]_vars
-----------------------------------------------------------------------------
Calls == [op : {"map", "undo", "free"}, desc : Desc, i : Nat, new : Area] \union {Idle}

(* Every variable has the type of the C object it stands for.              *)
TypeOK ==
  /\ nextFree \in 0 .. Window /\ mappedPages \in Nat
  /\ area \in [Desc -> Area] /\ listed \subseteq Desc
  /\ spare \subseteq Desc \ listed /\ slabs \in Nat
  /\ pte \in [Page -> Frames \union {None}] /\ tlb \in [Page -> Frames \union {None}]
  /\ tables \subseteq {Table(p) : p \in Page} /\ free \subseteq Frames
  /\ call \in [Callers -> Calls] /\ lost \subseteq Frames

Pending == {call[c].new : c \in InCall("map")}

(* The pages a call has mapped, or has yet to take back, and those of      *)
(* areas that nobody is freeing.                                           *)
Owned(c) == CASE call[c].op = "map" -> {call[c].new.va + j : j \in 0 .. call[c].i - 1}
              [] call[c].op \in {"undo", "free"} ->
                   {call[c].new.va + j : j \in call[c].i .. call[c].new.count - 1}
              [] OTHER -> {}
Settled == listed \ {call[c].desc : c \in InCall("free")}
OwnedPages == UNION ({Owned(c) : c \in Callers} \union {Body(area[d]) : d \in Settled})

(* Every stack is allocated for itself (kCreateTask): no two areas share   *)
(* an address, guard pages included, whatever calls are under way.  This   *)
(* and what follows is lost once a fork's kVmapPages has begun and ended   *)
(* inside the shell's (both are given the same addresses): vmalloc.c:98    *)
StacksApart ==
  ~raced =>
    /\ \A d \in listed : Span(area[d]) \subseteq 0 .. nextFree - 1
    /\ \A d, e \in listed : d # e => Span(area[d]) \cap Span(area[e]) = {}
    /\ \A d \in listed, a \in Pending : Span(area[d]) \cap Span(a) = {}

(* A stack that overflows meets a page fault that is reported as such: the *)
(* page below the first is a guard page, recognised as one, with neither   *)
(* an entry nor a translation, and no usable page is taken for one.  Only  *)
(* a page that kMapPage's failure left behind can be a mapped guard page.  *)
OverflowIsDiagnosed ==
  ~raced =>
    /\ \A d \in listed : \A p \in GuardPages(area[d]) :
         {pte[p], tlb[p]} \subseteq {None} \union lost /\ IsVmallocGuardPage(p)
    /\ \A d \in listed : \A p \in Body(area[d]) : ~IsVmallocGuardPage(p)

(* Every page of an area, and every page a call has mapped so far, has a   *)
(* frame of its own that nobody else can be given, and is reached through  *)
(* no translation of an earlier owner, but for frames that are lost.       *)
AreasBacked ==
  /\ \A p \in OwnedPages : pte[p] # None /\ pte[p] \notin free
  /\ \A p \in OwnedPages : tlb[p] \in {None, pte[p]} \union lost
  /\ \A p, q \in OwnedPages : p # q => pte[p] # pte[q]

(* No frame, descriptor or count is lost, also when a call fails half-way: *)
(* what is not free is a mapped page, a page table or a descriptor slab,   *)
(* or was left by kMapPage's failure, and every descriptor is spare,       *)
(* listed or in the hands of a call.                                       *)
NothingLost ==
  /\ Cardinality(Frames \ free)
       = Cardinality(OwnedPages) + Cardinality(tables \ Tables0) + slabs + Cardinality(lost)
  /\ \A p \in Page : pte[p] # None => p \in OwnedPages \/ pte[p] \in lost
  /\ mappedPages = Cardinality(UNION {Body(area[d]) : d \in listed})
  /\ spare \union listed \union {call[c].desc : c \in InCall("map") \union InCall("undo")}
       = {d \in Desc : d <= slabs * PerSlab}

(* The window accounts for its memory: every page of an area is backed by  *)
(* a frame of its own, and every frame, descriptor and count is somewhere. *)
(* vmalloc.c:127, vmalloc.c:188                                            *)
AreasAccounted == ~raced => TypeOK /\ AreasBacked /\ NothingLost
=============================================================================
