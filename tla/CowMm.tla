------------------------------- MODULE CowMm -------------------------------
(***************************************************************************)
(* User address spaces: demand paging and copy-on-write (fault.c), fork    *)
(* and destruction (mm_struct.c), the reference counts of pmm.c, the page  *)
(* table writes of kMapPage, and the address space loaded in CR3 with its  *)
(* TLB.                                                                    *)
(*                                                                         *)
(* System calls and page faults run with interrupts off: one action each.  *)
(* kMmDestroy, called by the shell through kEndTask, runs with interrupts  *)
(* on: it is one action per kPagePut, and the other address spaces go on   *)
(* faulting and forking in between.                                        *)
(*                                                                         *)
(* The frame of a leaf has an identity, since it can be shared.  The       *)
(* frames of the PML4 and of the page tables never are: only their number  *)
(* matters.  Fork and fault handling fail where kAllocPage or kMapPage     *)
(* fails; the slab behind kmalloc is taken to have room.                   *)
(***************************************************************************)
EXTENDS Naturals, Sequences, FiniteSets, SequencesExt

CONSTANTS
  Mm,        \* address spaces, one for each user task
  Page,      \* user pages, numbered in the order of their addresses
  Frame,     \* frames that can hold a user page
  Total,     \* frames of the allocator
  Table,     \* page tables below the PML4, named by what they map
  PathOf,    \* the tables kMapPage walks for a page, uppermost first
  Value, Zero,
  Layout,    \* the VMA lists a program can have
  Kernel,    \* kernel threads, and the kernel's own PML4
  None

ASSUME CowMmAssumption ==
  /\ IsFiniteSet(Mm) /\ IsFiniteSet(Frame) /\ IsFiniteSet(Table)
  /\ Page \subseteq Nat /\ IsFiniteSet(Page)
  /\ Total \in Nat
  /\ PathOf \in [Page -> Seq(Table)]
  /\ Zero \in Value
  /\ Layout \subseteq [Page -> {"none", "ro", "rw"}]
  /\ Kernel \notin Mm /\ None \notin Frame /\ None \notin [Page -> Value]

VARIABLES
  state,     \* "none"; "ready", "zombie": a task owns it; "dying": in kMmDestroy
  vma,       \* what the VMA list allows
  frame,     \* the frame each PTE names, None for a PTE that is not present
  rw,        \* <<m, p>> whose PTE has PTE_RW
  tables,    \* page tables of each address space
  ref,       \* iRefCount of each leaf frame, 0 when it is free
  free,      \* g_qwFreePages
  data,      \* contents of the leaf frames
  cur,       \* the user task on the processor, Kernel for any kernel thread
  cr3,       \* the loaded address space
  tlb,       \* cached translations of cr3: the frame and whether stores are allowed
  put        \* pages of the dying address space already given to kPagePut

vars == <<state, vma, frame, rw, tables, ref, free, data, cur, cr3, tlb, put>>

NoPages == [p \in Page |-> None]
NotCached == [frame |-> None, rw |-> FALSE]
Flushed == [p \in Page |-> NotCached]
NoVma == [p \in Page |-> "none"]

Live == {m \in Mm : state[m] # "none"}
Mapped(m) == {p \in Page : frame[m][p] # None}
(* PTEs that still hold a reference. *)
Given(m, p) == state[m] = "dying" /\ p \in put
Holders(f) == {x \in Mm \X Page : frame[x[1]][x[2]] = f /\ ~Given(x[1], x[2])}
TablesFor(S) == UNION {ToSet(PathOf[p]) : p \in S}
(* The first n tables on the way to a page; those of all of them that an   *)
(* address space lacks.                                                    *)
FirstTables(p, n) == {PathOf[p][i] : i \in 1 .. n}
Missing(m, p) == ToSet(PathOf[p]) \ tables[m]
-----------------------------------------------------------------------------
Init ==
  /\ state = [m \in Mm |-> "none"]
  /\ vma = [m \in Mm |-> NoVma]
  /\ frame = [m \in Mm |-> NoPages]
  /\ rw = {}
  /\ tables = [m \in Mm |-> {}]
  /\ ref = [f \in Frame |-> 0]
  /\ free = Total
  /\ data = [f \in Frame |-> Zero]
  /\ cur = Kernel /\ cr3 = Kernel
  /\ tlb = Flushed
  /\ put = {}

(* kExec: kMmCreate, kElfLoad (a VMA per segment, a frame with the file's  *)
(* contents for some of its pages), kCreateUserTask.  When memory runs out *)
(* kMmDestroy undoes all of it, so only success is a step.                 *)
Exec(m, layout, image) ==
  LET D == DOMAIN image IN
  /\ cur = Kernel /\ state[m] = "none"
  /\ \A p \in D : layout[p] # "none"
  /\ 1 + Cardinality(TablesFor(D)) + Cardinality(D) <= free
  /\ \E home \in Injection(D, {f \in Frame : ref[f] = 0}) :
       LET Taken == {home[p] : p \in D} IN
       /\ frame' = [frame EXCEPT ![m] = [p \in Page |-> IF p \in D THEN home[p] ELSE None]]
       /\ ref' = [f \in Frame |-> IF f \in Taken THEN 1 ELSE ref[f]]
       /\ data' = [f \in Frame |-> IF f \in Taken THEN image[CHOOSE p \in D : home[p] = f]
                                   ELSE data[f]]
  /\ state' = [state EXCEPT ![m] = "ready"]
  /\ vma' = [vma EXCEPT ![m] = layout]
  /\ rw' = rw \union {<<m, p>> : p \in {q \in D : layout[q] = "rw"}}
  /\ tables' = [tables EXCEPT ![m] = TablesFor(D)]
  /\ free' = free - (1 + Cardinality(TablesFor(D)) + Cardinality(D))
  /\ UNCHANGED <<cur, cr3, tlb, put>>
-----------------------------------------------------------------------------
(* What the scheduler does to the processor.  kSwitchAddressSpace: a user  *)
(* task loads its own PML4 unless it is loaded already, a kernel thread    *)
(* keeps the one it finds.                                                 *)
RunTask(m) ==
  /\ state[m] = "ready" /\ cur # m
  /\ cur' = m /\ cr3' = m
  /\ tlb' = IF cr3 = m THEN tlb ELSE Flushed
  /\ UNCHANGED <<state, vma, frame, rw, tables, ref, free, data, put>>

RunKernel ==
  /\ cur # Kernel
  /\ cur' = Kernel
  /\ UNCHANGED <<state, vma, frame, rw, tables, ref, free, data, cr3, tlb, put>>

(* The processor caches a translation of the loaded address space, at any  *)
(* time.                                                                   *)
WalkTables(p) ==
  /\ cr3 # Kernel
  /\ frame[cr3][p] # None
  /\ tlb' = [tlb EXCEPT ![p] = [frame |-> frame[cr3][p], rw |-> <<cr3, p>> \in rw]]
  /\ UNCHANGED <<state, vma, frame, rw, tables, ref, free, data, cur, cr3, put>>

(* A store of the program, through a cached translation. *)
Store(p, v) ==
  /\ cur # Kernel
  /\ tlb[p].rw
  /\ data' = [data EXCEPT ![tlb[p].frame] = v]
  /\ UNCHANGED <<state, vma, frame, rw, tables, ref, free, cur, cr3, tlb, put>>
-----------------------------------------------------------------------------
(* kDoPageFault.  The access is one that neither the cached translation    *)
(* nor the PTE allows.                                                     *)
Faults(p, write) ==
  /\ cur # Kernel
  /\ frame[cur][p] = None \/ (write /\ <<cur, p>> \notin rw)
  /\ tlb[p].frame = None \/ (write /\ ~tlb[p].rw)

Allowed(p, write) == IF write THEN vma[cur][p] = "rw" ELSE vma[cur][p] # "none"

(* kKillFaultingTask sends the task to kExitTask: it never runs again and  *)
(* its address space stays until kEndTask frees it.                        *)
Kill ==
  /\ state' = [state EXCEPT ![cur] = "zombie"]
  /\ cur' = Kernel
  /\ UNCHANGED <<vma, frame, rw, ref, data, cr3, tlb, put>>

Segv(p, write) ==
  /\ Faults(p, write) /\ ~Allowed(p, write)
  /\ Kill /\ UNCHANGED <<tables, free>>

(* kAnonymousFault: a zeroed frame and the page tables it needs. *)
DemandPage(p, write) ==
  /\ Faults(p, write) /\ Allowed(p, write)
  /\ frame[cur][p] = None
  /\ 1 + Cardinality(Missing(cur, p)) <= free
  /\ \E f \in Frame :
       /\ ref[f] = 0
       /\ frame' = [frame EXCEPT ![cur][p] = f]
       /\ ref' = [ref EXCEPT ![f] = 1]
       /\ data' = [data EXCEPT ![f] = Zero]
  /\ rw' = IF vma[cur][p] = "rw" THEN rw \union {<<cur, p>>} ELSE rw
  /\ tables' = [tables EXCEPT ![cur] = @ \union ToSet(PathOf[p])]
  /\ free' = free - (1 + Cardinality(Missing(cur, p)))
  /\ tlb' = [tlb EXCEPT ![p] = NotCached]
  /\ UNCHANGED <<state, vma, cur, cr3, put>>

(* kMapPage gets every frame but the one it is to map.                     *)
MapFails(p) ==
  \E n \in 0 .. Len(PathOf[p]) :
    /\ Cardinality(FirstTables(p, n) \ tables[cur]) = free - 1
    /\ tables' = [tables EXCEPT ![cur] = @ \union FirstTables(p, n)]

(* Faulty: the frame is not given back when kMapPage fails. *)
DemandFails_KeepsFrame(p, write) ==
  /\ Faults(p, write) /\ Allowed(p, write)
  /\ frame[cur][p] = None
  /\ free < 1 + Cardinality(Missing(cur, p))
  /\ IF free = 0 THEN UNCHANGED <<tables, free>>
     ELSE MapFails(p) /\ free' = 0
  /\ Kill

(* Out of memory in kAnonymousFault: the frame goes back, the tables       *)
(* kMapPage got before it failed stay in the address space.                *)
DemandFails(p, write) ==
  /\ Faults(p, write) /\ Allowed(p, write)
  /\ frame[cur][p] = None
  /\ free < 1 + Cardinality(Missing(cur, p))
  /\ IF free = 0 THEN UNCHANGED <<tables, free>>
     ELSE MapFails(p) /\ free' = 1
  /\ Kill

(* Faulty: the count is compared with one too many. *)
CowReuse_OneMoreSharer(p) ==
  /\ Faults(p, TRUE) /\ Allowed(p, TRUE)
  /\ frame[cur][p] # None /\ ref[frame[cur][p]] <= 2
  /\ rw' = rw \union {<<cur, p>>}
  /\ tlb' = [tlb EXCEPT ![p] = NotCached]
  /\ UNCHANGED <<state, vma, frame, tables, ref, free, data, cur, cr3, put>>

(* kCowFault, the last reference: the PTE gets its write permission back. *)
CowReuse(p) ==
  /\ Faults(p, TRUE) /\ Allowed(p, TRUE)
  /\ frame[cur][p] # None /\ ref[frame[cur][p]] <= 1
  /\ rw' = rw \union {<<cur, p>>}
  /\ tlb' = [tlb EXCEPT ![p] = NotCached]
  /\ UNCHANGED <<state, vma, frame, tables, ref, free, data, cur, cr3, put>>

(* Faulty: no kPagePut on the frame that was copied. *)
CowCopy_KeepsReference(p) ==
  LET old == frame[cur][p] IN
  /\ Faults(p, TRUE) /\ Allowed(p, TRUE)
  /\ old # None /\ ref[old] > 1 /\ free > 0
  /\ \E f \in Frame :
       /\ ref[f] = 0
       /\ frame' = [frame EXCEPT ![cur][p] = f]
       /\ ref' = [ref EXCEPT ![f] = 1]
       /\ data' = [data EXCEPT ![f] = data[old]]
  /\ rw' = rw \union {<<cur, p>>}
  /\ free' = free - 1
  /\ tlb' = [tlb EXCEPT ![p] = NotCached]
  /\ UNCHANGED <<state, vma, tables, cur, cr3, put>>

(* Faulty: kAllocPage is taken to succeed. *)
CowCopy_Unchecked(p) ==
  LET old == frame[cur][p] IN
  /\ Faults(p, TRUE) /\ Allowed(p, TRUE)
  /\ old # None /\ ref[old] > 1
  /\ \E f \in Frame :
       /\ ref[f] = 0
       /\ frame' = [frame EXCEPT ![cur][p] = f]
       /\ ref' = [ref EXCEPT ![f] = 1, ![old] = @ - 1]
       /\ data' = [data EXCEPT ![f] = data[old]]
  /\ rw' = rw \union {<<cur, p>>}
  /\ free' = free - 1
  /\ tlb' = [tlb EXCEPT ![p] = NotCached]
  /\ UNCHANGED <<state, vma, tables, cur, cr3, put>>

(* kCowFault, a shared frame: a private copy, and kPagePut on the old one. *)
CowCopy(p) ==
  LET old == frame[cur][p] IN
  /\ Faults(p, TRUE) /\ Allowed(p, TRUE)
  /\ old # None /\ ref[old] > 1 /\ free > 0
  /\ \E f \in Frame :
       /\ ref[f] = 0
       /\ frame' = [frame EXCEPT ![cur][p] = f]
       /\ ref' = [ref EXCEPT ![f] = 1, ![old] = @ - 1]
       /\ data' = [data EXCEPT ![f] = data[old]]
  /\ rw' = rw \union {<<cur, p>>}
  /\ free' = free - 1
  /\ tlb' = [tlb EXCEPT ![p] = NotCached]
  /\ UNCHANGED <<state, vma, tables, cur, cr3, put>>

CowFails(p) ==
  /\ Faults(p, TRUE) /\ Allowed(p, TRUE)
  /\ frame[cur][p] # None /\ ref[frame[cur][p]] > 1 /\ free = 0
  /\ Kill /\ UNCHANGED <<tables, free>>
-----------------------------------------------------------------------------
(* kMmCopy goes through the PTEs in the order of their addresses; it gets  *)
(* past those the frames left for page tables suffice for.                 *)
CopyCost(S) == 1 + Cardinality(TablesFor(S))
Copied(m) == {p \in Mapped(m) : CopyCost({q \in Mapped(m) : q <= p}) <= free}
CopyFits(m) == CopyCost(Mapped(m)) <= free
(* Faulty: the parent keeps PTE_RW. *)
Demoted_ChildOnly(m, S) == rw

Demoted(m, S) == rw \ ({m} \X S)

(* Faulty: CR3 is not reloaded after the parent's PTEs were changed. *)
Fork_NoFlush(m, c) ==
  /\ cur = m /\ state[c] = "none"
  /\ CopyFits(m)
  /\ state' = [state EXCEPT ![c] = "ready"]
  /\ vma' = [vma EXCEPT ![c] = vma[m]]
  /\ frame' = [frame EXCEPT ![c] = frame[m]]
  /\ rw' = Demoted(m, Mapped(m))
  /\ tables' = [tables EXCEPT ![c] = TablesFor(Mapped(m))]
  /\ ref' = [f \in Frame |-> ref[f] + Cardinality({p \in Page : frame[m][p] = f})]
  /\ free' = free - CopyCost(Mapped(m))
  /\ UNCHANGED <<data, cur, cr3, tlb, put>>

(* kSysFork: kMmCopy shares every frame, takes PTE_RW from both sides and  *)
(* reloads CR3; kForkTask puts the child on the ready list.                *)
Fork(m, c) ==
  /\ cur = m /\ state[c] = "none"
  /\ CopyFits(m)
  /\ state' = [state EXCEPT ![c] = "ready"]
  /\ vma' = [vma EXCEPT ![c] = vma[m]]
  /\ frame' = [frame EXCEPT ![c] = frame[m]]
  /\ rw' = Demoted(m, Mapped(m))
  /\ tables' = [tables EXCEPT ![c] = TablesFor(Mapped(m))]
  /\ ref' = [f \in Frame |-> ref[f] + Cardinality({p \in Page : frame[m][p] = f})]
  /\ free' = free - CopyCost(Mapped(m))
  /\ tlb' = Flushed
  /\ UNCHANGED <<data, cur, cr3, put>>

(* kMmCopy runs out of frames: kMmDestroy takes the child apart again, the *)
(* parent's PTEs it got past stay read-only, and CR3 is not reloaded.      *)
ForkFails(m) ==
  /\ cur = m /\ ~CopyFits(m)
  /\ rw' = Demoted(m, Copied(m))
  /\ UNCHANGED <<state, vma, frame, tables, ref, free, data, cur, cr3, tlb, put>>

(* kForkTask finds no TCB or no kernel stack: the copy is destroyed.       *)
ForkNoTask(m) ==
  /\ cur = m /\ CopyFits(m)
  /\ rw' = Demoted(m, Mapped(m))
  /\ tlb' = Flushed
  /\ UNCHANGED <<state, vma, frame, tables, ref, free, data, cur, cr3, put>>
-----------------------------------------------------------------------------
(* Faulty: the address space may still be loaded. *)
DestroyBegin_StaysLoaded(m) ==
  /\ cur = Kernel /\ state[m] \in {"ready", "zombie"}
  /\ \A n \in Mm : state[n] # "dying"
  /\ state' = [state EXCEPT ![m] = "dying"]
  /\ put' = {}
  /\ UNCHANGED <<vma, frame, rw, tables, ref, free, data, cur, cr3, tlb>>

(* kMmDestroy, called by kFreeTask: first leave the address space, ... *)
DestroyBegin(m) ==
  /\ cur = Kernel /\ state[m] \in {"ready", "zombie"}
  /\ \A n \in Mm : state[n] # "dying"
  /\ state' = [state EXCEPT ![m] = "dying"]
  /\ cr3' = IF cr3 = m THEN Kernel ELSE cr3
  /\ tlb' = IF cr3 = m THEN Flushed ELSE tlb
  /\ put' = {}
  /\ UNCHANGED <<vma, frame, rw, tables, ref, free, data, cur>>

(* ... then kPagePut for every PTE: the frame of the last reference goes   *)
(* back to the allocator, which refuses a frame that is free already, ...  *)
DestroyPage(m, p) ==
  LET f == frame[m][p] IN
  /\ cur = Kernel /\ state[m] = "dying"
  /\ p \in Mapped(m) \ put
  /\ \A q \in Mapped(m) \ put : p <= q
  /\ put' = put \union {p}
  /\ ref' = [ref EXCEPT ![f] = IF @ > 0 THEN @ - 1 ELSE 0]
  /\ free' = IF ref[f] = 1 THEN free + 1 ELSE free
  /\ UNCHANGED <<state, vma, frame, rw, tables, data, cur, cr3, tlb>>

(* ... and the tables and the PML4. *)
DestroyEnd(m) ==
  /\ cur = Kernel /\ state[m] = "dying"
  /\ Mapped(m) \subseteq put
  /\ state' = [state EXCEPT ![m] = "none"]
  /\ vma' = [vma EXCEPT ![m] = NoVma]
  /\ frame' = [frame EXCEPT ![m] = NoPages]
  /\ rw' = rw \ ({m} \X Page)
  /\ tables' = [tables EXCEPT ![m] = {}]
  /\ free' = free + 1 + Cardinality(tables[m])
  /\ put' = {}
  /\ UNCHANGED <<ref, data, cur, cr3, tlb>>

Next ==
  \/ RunKernel
  \/ \E m \in Mm :
       \/ \E layout \in Layout, D \in SUBSET Page :
            \E image \in [D -> Value] : Exec(m, layout, image)
       \/ RunTask(m)
       \/ \E c \in Mm : Fork(m, c)
       \/ ForkFails(m)
       \/ ForkNoTask(m)
       \/ DestroyBegin(m)
       \/ \E p \in Page : DestroyPage(m, p)
       \/ DestroyEnd(m)
  \/ \E p \in Page :
       \/ WalkTables(p)
       \/ \E v \in Value : Store(p, v)
       \/ CowReuse(p)
       \/ CowCopy(p)
       \/ CowFails(p)
       \/ \E write \in BOOLEAN : Segv(p, write) \/ DemandPage(p, write) \/ DemandFails(p, write)

Spec == Init /\ [][Next]_vars
-----------------------------------------------------------------------------
(* kUserTest when the stub or its stack cannot be mapped: it gives back    *)
(* every frame it allocated, those it had mapped included, and then calls  *)
(* kMmDestroy, which goes through the PTEs.                                *)
UserTestFails(m, layout, D) ==
  LET Wanted == {p \in Page : layout[p] # "none"} IN
  /\ cur = Kernel /\ state[m] = "none"
  /\ \A n \in Mm : state[n] # "dying"
  /\ D \subseteq Wanted
  /\ 1 + Cardinality(TablesFor(Wanted)) + Cardinality(Wanted) > free
  /\ 1 + Cardinality(TablesFor(D)) + Cardinality(D) <= free
  /\ \E home \in Injection(D, {f \in Frame : ref[f] = 0}) :
       frame' = [frame EXCEPT ![m] = [p \in Page |-> IF p \in D THEN home[p] ELSE None]]
  /\ state' = [state EXCEPT ![m] = "dying"]
  /\ vma' = [vma EXCEPT ![m] = layout]
  /\ rw' = rw \union {<<m, p>> : p \in {q \in D : layout[q] = "rw"}}
  /\ tables' = [tables EXCEPT ![m] = TablesFor(D)]
  /\ free' = free - (1 + Cardinality(TablesFor(D)))
  /\ put' = {}
  /\ UNCHANGED <<ref, data, cur, cr3, tlb>>

UserTestNext ==
  \/ Next
  \/ \E m \in Mm, layout \in Layout, D \in SUBSET Page : UserTestFails(m, layout, D)

UserTestSpec == Init /\ [][UserTestNext]_vars
-----------------------------------------------------------------------------
TypeOK ==
  /\ state \in [Mm -> {"none", "ready", "zombie", "dying"}]
  /\ vma \in [Mm -> [Page -> {"none", "ro", "rw"}]]
  /\ frame \in [Mm -> [Page -> Frame \union {None}]]
  /\ rw \subseteq Mm \X Page
  /\ tables \in [Mm -> SUBSET Table]
  /\ ref \in [Frame -> Nat]
  /\ free \in Nat
  /\ data \in [Frame -> Value]
  /\ cur \in Mm \union {Kernel} /\ cr3 \in Mm \union {Kernel}
  /\ tlb \in [Page -> [frame : Frame \union {None}, rw : BOOLEAN]]
  /\ put \subseteq Page

(* iRefCount is the number of PTEs that name the frame: a count too high   *)
(* leaks the frame, one too low gives it to somebody else while it is      *)
(* mapped.  mm_struct.c:110                                                *)
RefExact == \A f \in Frame : ref[f] = Cardinality(Holders(f))

(* A translation that allows stores, in a page table or only left in the   *)
(* TLB, names a frame that no other PTE names.                             *)
StoresArePrivate ==
  /\ \A x \in rw : state[x[1]] # "dying" => Holders(frame[x[1]][x[2]]) = {x}
  /\ \A p \in Page : tlb[p].rw => Holders(tlb[p].frame) = {<<cr3, p>>}

(* What fork and kCowFault are for: a frame is shared by exactly as many   *)
(* PTEs as it has references, and nobody can store into one that is        *)
(* shared.  mm_struct.c:215, fault.c:61                                    *)
SharingExact == TypeOK /\ RefExact /\ StoresArePrivate

(* A cached translation is one the loaded page table has now, give or take *)
(* a write permission that a failed fork took away, and the loaded page    *)
(* table is never one that is being taken apart.                           *)
TlbNamesLoadedFrames ==
  /\ cr3 # Kernel => state[cr3] \in {"ready", "zombie"}
  /\ cur # Kernel => cr3 = cur /\ state[cur] = "ready"
  /\ \A p \in Page : tlb[p].frame # None => cr3 # Kernel /\ tlb[p].frame = frame[cr3][p]

(* g_qwFreePages and the frames in use add up: no path of fork, of a       *)
(* fault or of kMmDestroy, failing ones included, loses a frame.           *)
PageTables == {x \in Live \X Table : x[2] \in tables[x[1]]}
InUse == {f \in Frame : ref[f] > 0}
FramesConserved ==
  free + Cardinality(Live) + Cardinality(PageTables) + Cardinality(InUse) = Total

(* The frame of a PTE that was not given to kPagePut yet is allocated:     *)
(* "mapped frames are given back by kMmDestroy; freeing them here again is *)
(* a double free", console_shell.c:1154.                                   *)
NoDoubleFree ==
  \A m \in Live, p \in Page :
    p \in Mapped(m) /\ ~Given(m, p) => ref[frame[m][p]] > 0

(* Each address space behaves as a memory of its own.                      *)
Contents(m) == [p \in Page |-> IF frame[m][p] = None THEN Zero ELSE data[frame[m][p]]]
Memory == INSTANCE ProcMemory WITH
  Gone <- None,
  memory <- [m \in Mm |-> IF state[m] \in {"ready", "zombie"} THEN Contents(m) ELSE None],
  access <- [m \in Mm |-> IF state[m] \in {"ready", "zombie"} THEN vma[m] ELSE None]

(* Fork, copy-on-write and destruction are invisible to programs: a store  *)
(* changes one page of its own address space, fork copies the memory of    *)
(* the parent, and no step of the kernel changes what a program reads.     *)
PrivateMemory == Memory!Spec
=============================================================================
