---------------------------- MODULE CowMm_proofs ----------------------------
(***************************************************************************)
(* Proofs about module CowMm, for any number of address spaces, pages and  *)
(* frames and any page tables: reference counts are exact, only the one    *)
(* who holds a frame alone can store into it, no path loses a frame, and   *)
(* the whole implements a private memory for each program.                 *)
(***************************************************************************)
EXTENDS CowMm, FiniteSetTheorems, TLAPS

USE CowMmAssumption

-----------------------------------------------------------------------------
(* The inductive invariant: the properties themselves, and that kMmDestroy *)
(* is never in two calls, that an address space that does not exist maps   *)
(* nothing, and that PTE_RW, also one cached, is only where the VMA allows *)
(* stores.                                                                 *)
Spaces ==
  /\ \A m, n \in Mm : state[m] = "dying" /\ state[n] = "dying" => m = n
  /\ \A m \in Mm : state[m] = "none" => frame[m] = NoPages

Rights ==
  /\ \A m \in Mm, p \in Page : <<m, p>> \in rw => frame[m][p] # None /\ vma[m][p] = "rw"
  /\ \A p \in Page : tlb[p].rw => tlb[p].frame # None /\ vma[cr3][p] = "rw"

(* StoresArePrivate, holder by holder.                                     *)
Sole(f, m, p) == \A n \in Mm, q \in Page : frame[n][q] = f /\ ~Given(n, q) => n = m /\ q = p

Alone ==
  /\ \A m \in Mm, p \in Page :
       <<m, p>> \in rw /\ state[m] # "dying" => Sole(frame[m][p], m, p)
  /\ \A p \in Page : tlb[p].rw => Sole(tlb[p].frame, cr3, p)

IInv ==
  TypeOK /\ RefExact /\ Alone /\ TlbNamesLoadedFrames /\ FramesConserved /\ Spaces /\ Rights
-----------------------------------------------------------------------------
(* The PTEs that hold a frame, and the sets that FramesConserved counts.   *)
LEMMA HolderFacts ==
  ASSUME NEW f
  PROVE  /\ Holders(f) \subseteq Mm \X Page /\ IsFiniteSet(Holders(f))
         /\ \A m \in Mm, p \in Page : <<m, p>> \in Holders(f) <=> frame[m][p] = f /\ ~Given(m, p)
<1>1. Holders(f) \subseteq Mm \X Page
  BY DEF Holders
<1>2. IsFiniteSet(Mm \X Page)
  BY FS_Product
<1>3. IsFiniteSet(Holders(f))
  BY <1>1, <1>2, FS_Subset
<1>4. ASSUME NEW m \in Mm, NEW p \in Page
      PROVE  <<m, p>> \in Holders(f) <=> frame[m][p] = f /\ ~Given(m, p)
  BY DEF Holders
<1>. QED  BY <1>1, <1>3, <1>4

LEMMA CountFacts ==
  /\ IsFiniteSet(Live) /\ IsFiniteSet(PageTables) /\ IsFiniteSet(InUse)
  /\ Cardinality(Live) \in Nat /\ Cardinality(PageTables) \in Nat /\ Cardinality(InUse) \in Nat
<1>1. IsFiniteSet(Live)
  BY FS_Subset DEF Live
<1>2. IsFiniteSet(Live \X Table)
  BY <1>1, FS_Product
<1>3. IsFiniteSet(PageTables)
  BY <1>2, FS_Subset DEF PageTables
<1>4. IsFiniteSet(InUse)
  BY FS_Subset DEF InUse
<1>. QED  BY <1>1, <1>3, <1>4, FS_CardinalityType

(* A frame is in use as long as a PTE holds it. *)
LEMMA UsedFacts ==
  ASSUME TypeOK, RefExact, NEW f \in Frame
  PROVE  ref[f] > 0 <=> \E m \in Mm, p \in Page : frame[m][p] = f /\ ~Given(m, p)
<1>1. ref[f] = Cardinality(Holders(f)) /\ ref[f] \in Nat
  BY DEF RefExact, TypeOK
<1>2. ref[f] > 0 <=> Holders(f) # {}
  BY <1>1, HolderFacts, FS_EmptySet
<1>3. Holders(f) # {} <=> \E m \in Mm, p \in Page : <<m, p>> \in Holders(f)
  <2>1. ASSUME NEW x \in Holders(f) PROVE \E m \in Mm, p \in Page : <<m, p>> \in Holders(f)
    <3>1. x \in Mm \X Page
      BY <2>1, HolderFacts
    <3>2. PICK m \in Mm, p \in Page : x = <<m, p>>
      BY <3>1
    <3>. QED  BY <2>1, <3>2
  <2>. QED  BY <2>1
<1>. QED  BY <1>2, <1>3, HolderFacts

LEMMA TableFacts ==
  ASSUME NEW S, S \subseteq Page
  PROVE  TablesFor(S) \subseteq Table /\ IsFiniteSet(TablesFor(S)) /\ Cardinality(TablesFor(S)) \in Nat
<1>1. ASSUME NEW p \in Page PROVE ToSet(PathOf[p]) \subseteq Table
  <2>1. PathOf[p] \in Seq(Table)
    OBVIOUS
  <2>. QED  BY <2>1 DEF ToSet
<1>2. TablesFor(S) \subseteq Table
  BY <1>1 DEF TablesFor
<1>. QED  BY <1>2, FS_Subset, FS_CardinalityType

LEMMA SamePairs ==
  ASSUME NEW S, NEW T, S \subseteq Mm \X Page, T \subseteq Mm \X Page,
         \A m \in Mm, p \in Page : <<m, p>> \in S <=> <<m, p>> \in T
  PROVE  S = T
<1>1. ASSUME NEW x, x \in Mm \X Page PROVE x \in S <=> x \in T
  <2>1. x = <<x[1], x[2]>> /\ x[1] \in Mm /\ x[2] \in Page
    BY <1>1
  <2>. QED  BY <2>1
<1>. QED  BY <1>1

(* Where the PTEs and their owners stay as they are, so do the holders. *)
LEMMA SameHolders ==
  ASSUME frame' = frame,
         \A m \in Mm, p \in Page : Given(m, p)' <=> Given(m, p)
  PROVE  \A f : Holders(f)' = Holders(f)
<1>1. ASSUME NEW f, NEW x \in Mm \X Page
      PROVE  frame'[x[1]][x[2]] = f /\ ~Given(x[1], x[2])' <=> frame[x[1]][x[2]] = f /\ ~Given(x[1], x[2])
  BY <1>1
<1>. QED  BY <1>1 DEF Holders

(* What RefExact and Alone need of a step that leaves the PTEs' frames.    *)
LEMMA SameRefs ==
  ASSUME RefExact, frame' = frame, ref' = ref,
         \A m \in Mm, p \in Page : Given(m, p)' <=> Given(m, p)
  PROVE  RefExact'
BY SameHolders, Zenon DEF RefExact

LEMMA SameAlone ==
  ASSUME frame' = frame,
         \A m \in Mm, p \in Page : Given(m, p)' <=> Given(m, p),
         \A m \in Mm, p \in Page :
           <<m, p>> \in rw' /\ state'[m] # "dying" => Sole(frame[m][p], m, p),
         \A p \in Page : tlb'[p].rw => Sole(tlb'[p].frame, cr3', p)
  PROVE  Alone'
<1>1. ASSUME NEW f, NEW m, NEW p, Sole(f, m, p)
      PROVE  \A n \in Mm, q \in Page : frame'[n][q] = f /\ ~Given(n, q)' => n = m /\ q = p
  BY <1>1 DEF Sole
<1>. QED  BY <1>1 DEF Alone, Sole

LEMMA SameCounts ==
  ASSUME FramesConserved, Live' = Live, tables' = tables, ref' = ref, free' = free
  PROVE  FramesConserved'
<1>1. PageTables' = PageTables /\ InUse' = InUse
  BY DEF PageTables, InUse
<1>. QED  BY <1>1 DEF FramesConserved
(* An empty entry of the TLB, and the TLB after a load of CR3.             *)
LEMMA FlushedFacts ==
  /\ NotCached \in [frame : Frame \union {None}, rw : BOOLEAN]
  /\ NotCached.frame = None /\ ~NotCached.rw
  /\ Flushed \in [Page -> [frame : Frame \union {None}, rw : BOOLEAN]]
  /\ \A p \in Page : Flushed[p].frame = None /\ ~Flushed[p].rw
<1>1. NotCached \in [frame : Frame \union {None}, rw : BOOLEAN]
  BY DEF NotCached
<1>2. NotCached.frame = None /\ ~NotCached.rw
  BY DEF NotCached
<1>3. \A p \in Page : Flushed[p] = NotCached
  BY DEF Flushed
<1>4. Flushed \in [Page -> [frame : Frame \union {None}, rw : BOOLEAN]]
  BY <1>1 DEF Flushed
<1>. QED  BY <1>1, <1>2, <1>3, <1>4
-----------------------------------------------------------------------------
(* The scheduler, and the processor's own steps.                           *)
LEMMA InitIInv == Init => IInv
<1>. SUFFICES ASSUME Init PROVE IInv
  OBVIOUS
<1>1. TypeOK
  BY DEF Init, TypeOK, NoVma, NoPages, Flushed, NotCached
<1>2. \A f \in Frame : Holders(f) = {}
  BY DEF Init, Holders, NoPages
<1>3. RefExact
  BY <1>2, FS_EmptySet DEF Init, RefExact
<1>4. Alone /\ TlbNamesLoadedFrames /\ Spaces /\ Rights
  BY DEF Init, Alone, TlbNamesLoadedFrames, Spaces, Rights, Flushed, NotCached
<1>5. Live = {} /\ InUse = {}
  BY DEF Init, Live, InUse
<1>6. PageTables = {}
  BY <1>5 DEF PageTables
<1>7. FramesConserved
  BY <1>5, <1>6, FS_EmptySet DEF Init, FramesConserved
<1>. QED  BY <1>1, <1>3, <1>4, <1>7 DEF IInv

LEMMA RunIInv ==
  ASSUME IInv, RunKernel \/ \E m \in Mm : RunTask(m)
  PROVE  IInv'
<1>0. UNCHANGED <<state, vma, frame, rw, tables, ref, free, data, put>>
  BY DEF RunKernel, RunTask
<1>a. /\ cur' \in Mm \union {Kernel} /\ cr3' \in Mm \union {Kernel}
      /\ (cr3' = cr3 /\ tlb' = tlb) \/ tlb' = Flushed
      /\ cur' # Kernel => cr3' = cur' /\ state[cur'] = "ready"
      /\ cr3' # Kernel => state[cr3'] \in {"ready", "zombie"}
  BY DEF IInv, TypeOK, TlbNamesLoadedFrames, RunKernel, RunTask
<1>1. TypeOK'
  BY <1>0, <1>a, FlushedFacts DEF IInv, TypeOK
<1>2. RefExact'
  BY <1>0, SameRefs DEF IInv, Given
<1>3. Alone'
  <2>1. \A m \in Mm, p \in Page : Given(m, p)' <=> Given(m, p)
    BY <1>0 DEF Given
  <2>2. \A p \in Page : tlb'[p].rw => Sole(tlb'[p].frame, cr3', p)
    BY <1>a, FlushedFacts DEF IInv, Alone
  <2>3. \A m \in Mm, p \in Page :
          <<m, p>> \in rw' /\ state'[m] # "dying" => Sole(frame[m][p], m, p)
    BY <1>0 DEF IInv, Alone
  <2>. QED  BY <1>0, <2>1, <2>2, <2>3, SameAlone
<1>4. TlbNamesLoadedFrames'
  BY <1>0, <1>a, FlushedFacts DEF IInv, TlbNamesLoadedFrames
<1>5. FramesConserved'
  BY <1>0, SameCounts DEF IInv, Live
<1>6. Spaces' /\ Rights'
  BY <1>0, <1>a, FlushedFacts DEF IInv, Spaces, Rights
<1>. QED  BY <1>1, <1>2, <1>3, <1>4, <1>5, <1>6 DEF IInv

LEMMA WalkTablesIInv ==
  ASSUME IInv, NEW p \in Page, WalkTables(p)
  PROVE  IInv'
<1>0. UNCHANGED <<state, vma, frame, rw, tables, ref, free, data, cur, cr3, put>> /\ cr3 \in Mm
  BY DEF WalkTables, IInv, TypeOK
<1>1. TypeOK'
  <2>1. [frame |-> frame[cr3][p], rw |-> <<cr3, p>> \in rw] \in [frame : Frame \union {None}, rw : BOOLEAN]
    BY <1>0 DEF IInv, TypeOK
  <2>. QED  BY <1>0, <2>1 DEF IInv, TypeOK, WalkTables
<1>2. RefExact'
  BY <1>0, SameRefs DEF IInv, Given
<1>3. /\ \A q \in Page \ {p} : tlb'[q] = tlb[q]
      /\ tlb'[p].frame = frame[cr3][p] /\ tlb'[p].rw = (<<cr3, p>> \in rw) /\ frame[cr3][p] # None
  BY DEF IInv, TypeOK, WalkTables
<1>4. state[cr3] \in {"ready", "zombie"}
  BY <1>0 DEF IInv, TlbNamesLoadedFrames, WalkTables
<1>5. Alone'
  <2>1. \A m \in Mm, q \in Page : Given(m, q)' <=> Given(m, q)
    BY <1>0 DEF Given
  <2>2. ASSUME NEW q \in Page, tlb'[q].rw PROVE Sole(tlb'[q].frame, cr3', q)
    BY <1>0, <1>3, <1>4, <2>2 DEF IInv, Alone
  <2>3. \A m \in Mm, q \in Page :
          <<m, q>> \in rw' /\ state'[m] # "dying" => Sole(frame[m][q], m, q)
    BY <1>0 DEF IInv, Alone
  <2>. QED  BY <1>0, <2>1, <2>2, <2>3, SameAlone
<1>6. TlbNamesLoadedFrames'
  BY <1>0, <1>3 DEF IInv, TlbNamesLoadedFrames, WalkTables
<1>7. FramesConserved'
  BY <1>0, SameCounts DEF IInv, Live
<1>8. Spaces' /\ Rights'
  BY <1>0, <1>3 DEF IInv, Spaces, Rights
<1>. QED  BY <1>1, <1>2, <1>5, <1>6, <1>7, <1>8 DEF IInv

LEMMA StoreIInv ==
  ASSUME IInv, NEW p \in Page, NEW v \in Value, Store(p, v)
  PROVE  IInv'
<1>0. UNCHANGED <<state, vma, frame, rw, tables, ref, free, cur, cr3, tlb, put>>
  BY DEF Store
<1>1. TypeOK'
  BY DEF IInv, TypeOK, Store
<1>2. RefExact'
  BY <1>0, SameRefs DEF IInv, Given
<1>3. FramesConserved'
  BY <1>0, SameCounts DEF IInv, Live
<1>4. Alone' /\ TlbNamesLoadedFrames' /\ Spaces' /\ Rights'
  BY <1>0 DEF IInv, Alone, Sole, Given, TlbNamesLoadedFrames, Spaces, Rights
<1>. QED  BY <1>1, <1>2, <1>3, <1>4 DEF IInv
-----------------------------------------------------------------------------
(* Page faults.                                                            *)

(* Who faults runs with its own tables loaded.                             *)
LEMMA FaultFacts ==
  ASSUME IInv, NEW p \in Page, NEW write, Faults(p, write)
  PROVE  cur \in Mm /\ cr3 = cur /\ state[cur] = "ready"
BY DEF IInv, TypeOK, TlbNamesLoadedFrames, Faults

(* A task that is killed keeps its PTEs and holds what it held.            *)
LEMMA KillKeeps ==
  ASSUME IInv, NEW p \in Page, NEW write, Faults(p, write), Kill
  PROVE  /\ state' \in [Mm -> {"none", "ready", "zombie", "dying"}]
         /\ cur' = Kernel
         /\ RefExact' /\ Alone' /\ TlbNamesLoadedFrames' /\ Spaces' /\ Rights'
         /\ Live' = Live
<1>0. /\ cur \in Mm /\ cr3 = cur /\ state[cur] = "ready"
      /\ UNCHANGED <<vma, frame, rw, ref, data, cr3, tlb, put>> /\ cur' = Kernel
      /\ state \in [Mm -> {"none", "ready", "zombie", "dying"}]
      /\ state' = [state EXCEPT ![cur] = "zombie"]
  BY FaultFacts DEF Kill, IInv, TypeOK
<1>1. /\ \A m \in Mm : state'[m] = "dying" <=> state[m] = "dying"
      /\ \A m \in Mm : state'[m] = "none" <=> state[m] = "none"
      /\ \A m \in Mm : state[m] \in {"ready", "zombie"} => state'[m] \in {"ready", "zombie"}
      /\ state' \in [Mm -> {"none", "ready", "zombie", "dying"}]
  BY <1>0
<1>2. \A m \in Mm, q \in Page : Given(m, q)' <=> Given(m, q)
  BY <1>0, <1>1 DEF Given
<1>3. RefExact'
  BY <1>0, <1>2, SameRefs DEF IInv
<1>4. Alone'
  BY <1>0, <1>1, <1>2, SameAlone DEF IInv, Alone
<1>5. TlbNamesLoadedFrames'
  BY <1>0, <1>1 DEF IInv, TlbNamesLoadedFrames
<1>6. Spaces' /\ Rights'
  BY <1>0, <1>1 DEF IInv, Spaces, Rights
<1>7. Live' = Live
  BY <1>1 DEF Live
<1>. QED  BY <1>0, <1>1, <1>3, <1>4, <1>5, <1>6, <1>7

LEMMA KilledIInv ==
  ASSUME IInv, NEW p \in Page, CowFails(p) \/ \E write \in BOOLEAN : Segv(p, write)
  PROVE  IInv'
<1>1. PICK write \in BOOLEAN : Faults(p, write)
  BY DEF CowFails, Segv
<1>2. Kill /\ UNCHANGED <<tables, free, vma, frame, rw, ref, data, cr3, tlb, put>>
  BY DEF CowFails, Segv, Kill
<1>3. TypeOK'
  BY <1>1, <1>2, KillKeeps DEF IInv, TypeOK
<1>4. FramesConserved'
  BY <1>1, <1>2, KillKeeps, SameCounts DEF IInv
<1>. QED  BY <1>1, <1>2, <1>3, <1>4, KillKeeps DEF IInv

LEMMA CowReuseIInv ==
  ASSUME IInv, NEW p \in Page, CowReuse(p)
  PROVE  IInv'
<1>0. /\ cur \in Mm /\ cr3 = cur /\ state[cur] = "ready"
      /\ UNCHANGED <<state, vma, frame, tables, ref, free, data, cur, cr3, put>>
      /\ frame[cur][p] \in Frame /\ ref[frame[cur][p]] <= 1 /\ vma[cur][p] = "rw"
      /\ rw' = rw \union {<<cur, p>>}
      /\ tlb' = [tlb EXCEPT ![p] = NotCached]
  <2>1. cur \in Mm /\ cr3 = cur /\ state[cur] = "ready"
    BY FaultFacts DEF CowReuse
  <2>2. /\ UNCHANGED <<state, vma, frame, tables, ref, free, data, cur, cr3, put>>
        /\ frame[cur][p] # None /\ ref[frame[cur][p]] <= 1 /\ vma[cur][p] = "rw"
        /\ rw' = rw \union {<<cur, p>>}
        /\ tlb' = [tlb EXCEPT ![p] = NotCached]
    BY DEF CowReuse, Allowed
  <2>3. frame[cur][p] \in Frame \union {None}
    <3>1. frame \in [Mm -> [Page -> Frame \union {None}]]
      BY DEF IInv, TypeOK
    <3>. QED  BY <2>1, <3>1
  <2>. QED  BY <2>1, <2>2, <2>3
<1>1. TypeOK'
  BY <1>0 DEF IInv, TypeOK, NotCached
<1>2. RefExact'
  BY <1>0, SameRefs DEF IInv, Given
<1>3. Sole(frame[cur][p], cur, p)
  <2>. DEFINE f == frame[cur][p]
  <2>1. <<cur, p>> \in Holders(f) /\ IsFiniteSet(Holders(f)) /\ Cardinality(Holders(f)) <= 1
    BY <1>0, HolderFacts DEF IInv, RefExact, Given
  <2>2. ASSUME NEW x \in Holders(f) PROVE x = <<cur, p>>
    <3>1. Cardinality(Holders(f)) = 1
      BY <2>1, FS_EmptySet, FS_CardinalityType
    <3>2. \E y : Holders(f) = {y}
      BY <2>1, <3>1, FS_Singleton, Zenon
    <3>. QED  BY <2>1, <2>2, <3>2
  <2>3. ASSUME NEW n \in Mm, NEW q \in Page, frame[n][q] = f, ~Given(n, q)
        PROVE  n = cur /\ q = p
    <3>1. <<n, q>> \in Holders(f)
      BY <2>3, HolderFacts
    <3>. QED  BY <2>2, <3>1
  <2>. QED  BY <2>3 DEF Sole
<1>4. Alone'
  <2>1. \A m \in Mm, q \in Page : Given(m, q)' <=> Given(m, q)
    BY <1>0 DEF Given
  <2>2. ASSUME NEW q \in Page, tlb'[q].rw PROVE Sole(tlb'[q].frame, cr3', q)
    <3>1. q # p /\ tlb'[q] = tlb[q]
      BY <1>0, <2>2, FlushedFacts DEF IInv, TypeOK
    <3>. QED  BY <1>0, <2>2, <3>1 DEF IInv, Alone
  <2>3. ASSUME NEW m \in Mm, NEW q \in Page, <<m, q>> \in rw', state'[m] # "dying"
        PROVE  Sole(frame[m][q], m, q)
    <3>1. CASE <<m, q>> \in rw
      BY <1>0, <2>3, <3>1 DEF IInv, Alone
    <3>2. CASE m = cur /\ q = p
      BY <1>3, <3>2
    <3>. QED  BY <1>0, <2>3, <3>1, <3>2
  <2>. QED  BY <1>0, <2>1, <2>2, <2>3, SameAlone
<1>5. TlbNamesLoadedFrames'
  BY <1>0 DEF IInv, TypeOK, TlbNamesLoadedFrames, NotCached
<1>6. FramesConserved'
  BY <1>0, SameCounts DEF IInv, Live
<1>7. Spaces' /\ Rights'
  BY <1>0 DEF IInv, TypeOK, Spaces, Rights, NotCached
<1>. QED  BY <1>1, <1>2, <1>4, <1>5, <1>6, <1>7 DEF IInv

(* A fork that fails takes write permissions away from the parent.         *)
LEMMA ForkFailsIInv ==
  ASSUME IInv, NEW m \in Mm, ForkFails(m) \/ ForkNoTask(m)
  PROVE  IInv'
<1>0. /\ UNCHANGED <<state, vma, frame, tables, ref, free, data, cur, cr3, put>>
      /\ rw' \subseteq rw
      /\ tlb' = tlb \/ tlb' = Flushed
  BY DEF ForkFails, ForkNoTask, Demoted
<1>1. TypeOK'
  <2>1. rw' \subseteq Mm \X Page
    BY <1>0 DEF IInv, TypeOK
  <2>. QED  BY <1>0, <2>1, FlushedFacts DEF IInv, TypeOK
<1>2. RefExact'
  BY <1>0, SameRefs DEF IInv, Given
<1>3. FramesConserved'
  BY <1>0, SameCounts DEF IInv, Live
<1>4. Alone'
  BY <1>0, FlushedFacts, SameAlone DEF IInv, Alone, Given
<1>5. TlbNamesLoadedFrames' /\ Spaces' /\ Rights'
  BY <1>0, FlushedFacts DEF IInv, TlbNamesLoadedFrames, Spaces, Rights
<1>. QED  BY <1>1, <1>2, <1>3, <1>4, <1>5 DEF IInv
-----------------------------------------------------------------------------
(* Counting the page tables when address spaces and tables come and go.    *)
LEMMA RowSize ==
  ASSUME NEW S, IsFiniteSet(S), NEW m
  PROVE  IsFiniteSet({m} \X S) /\ Cardinality({m} \X S) = Cardinality(S)
<1>1. IsFiniteSet({m}) /\ Cardinality({m}) = 1
  BY FS_Singleton
<1>2. IsFiniteSet({m} \X S) /\ Cardinality({m} \X S) = Cardinality({m}) * Cardinality(S)
  BY <1>1, FS_Product
<1>. QED  BY <1>1, <1>2, FS_CardinalityType

LEMMA DisjointSize ==
  ASSUME NEW S, NEW T, IsFiniteSet(S), IsFiniteSet(T), S \cap T = {}
  PROVE  IsFiniteSet(S \union T) /\ Cardinality(S \union T) = Cardinality(S) + Cardinality(T)
<1>1. Cardinality(S \cap T) = 0
  BY FS_EmptySet
<1>2. Cardinality(S) \in Nat /\ Cardinality(T) \in Nat
  BY FS_CardinalityType
<1>3. /\ IsFiniteSet(S \union T)
      /\ Cardinality(S \union T) = Cardinality(S) + Cardinality(T) - Cardinality(S \cap T)
  BY FS_Union
<1>. QED  BY <1>1, <1>2, <1>3

LEMMA TablesAdded ==
  ASSUME TypeOK, NEW m \in Mm, state[m] # "none", Live' = Live, NEW T, T \subseteq Table,
         tables' = [tables EXCEPT ![m] = @ \union T]
  PROVE  Cardinality(PageTables') = Cardinality(PageTables) + Cardinality(T \ tables[m])
<1>. DEFINE N == T \ tables[m]
<1>1. PageTables' = PageTables \union ({m} \X N)
  <2>. SUFFICES ASSUME NEW n \in Live, NEW t \in Table
                PROVE  t \in tables'[n] <=> t \in tables[n] \/ (n = m /\ t \in N)
    BY DEF PageTables, Live
  <2>. QED  BY DEF TypeOK, Live
<1>2. PageTables \cap ({m} \X N) = {}
  BY DEF PageTables
<1>3. IsFiniteSet(N)
  BY FS_Subset
<1>. HIDE DEF N
<1>4. IsFiniteSet({m} \X N) /\ Cardinality({m} \X N) = Cardinality(N)
  BY <1>3, RowSize
<1>5. Cardinality(PageTables') = Cardinality(PageTables) + Cardinality({m} \X N)
  BY <1>1, <1>2, <1>4, CountFacts, DisjointSize
<1>. QED  BY <1>4, <1>5 DEF N

LEMMA SpaceAdded ==
  ASSUME TypeOK, NEW c \in Mm, state[c] = "none", NEW T, T \subseteq Table,
         state' = [state EXCEPT ![c] = "ready"],
         tables' = [tables EXCEPT ![c] = T]
  PROVE  /\ Cardinality(Live') = Cardinality(Live) + 1
         /\ Cardinality(PageTables') = Cardinality(PageTables) + Cardinality(T)
<1>1. Live' = Live \union {c} /\ c \notin Live
  BY DEF TypeOK, Live
<1>2. PageTables' = PageTables \union ({c} \X T)
  <2>. SUFFICES ASSUME NEW n \in Mm, NEW t \in Table
                PROVE  n \in Live' /\ t \in tables'[n]
                         <=> (n \in Live /\ t \in tables[n]) \/ (n = c /\ t \in T)
    BY DEF PageTables, Live
  <2>. QED  BY <1>1 DEF TypeOK
<1>3. PageTables \cap ({c} \X T) = {}
  BY <1>1 DEF PageTables
<1>4. IsFiniteSet(T)
  BY FS_Subset
<1>5. IsFiniteSet({c} \X T) /\ Cardinality({c} \X T) = Cardinality(T)
  BY <1>4, RowSize
<1>6. Cardinality(PageTables') = Cardinality(PageTables) + Cardinality({c} \X T)
  BY <1>2, <1>3, <1>5, CountFacts, DisjointSize
<1>7. Cardinality(Live') = Cardinality(Live) + 1
  BY <1>1, CountFacts, FS_AddElement
<1>. QED  BY <1>5, <1>6, <1>7

LEMMA SpaceRemoved ==
  ASSUME TypeOK, NEW m \in Mm, state[m] # "none",
         state' = [state EXCEPT ![m] = "none"],
         tables' = [tables EXCEPT ![m] = {}]
  PROVE  /\ Cardinality(Live') = Cardinality(Live) - 1
         /\ Cardinality(PageTables') = Cardinality(PageTables) - Cardinality(tables[m])
         /\ Cardinality(tables[m]) \in Nat
<1>1. Live' = Live \ {m} /\ m \in Live
  BY DEF TypeOK, Live
<1>2. PageTables = PageTables' \union ({m} \X tables[m])
  <2>. SUFFICES ASSUME NEW n \in Mm, NEW t \in Table
                PROVE  n \in Live /\ t \in tables[n]
                         <=> (n \in Live' /\ t \in tables'[n]) \/ (n = m /\ t \in tables[m])
    <3>1. tables[m] \subseteq Table
      BY DEF TypeOK
    <3>. QED  BY <3>1 DEF PageTables, Live
  <2>. QED  BY <1>1 DEF TypeOK
<1>3. PageTables' \cap ({m} \X tables[m]) = {}
  BY <1>1 DEF PageTables
<1>4. IsFiniteSet(tables[m]) /\ Cardinality(tables[m]) \in Nat
  BY FS_Subset, FS_CardinalityType DEF TypeOK
<1>5. IsFiniteSet({m} \X tables[m]) /\ Cardinality({m} \X tables[m]) = Cardinality(tables[m])
  BY <1>4, RowSize
<1>6. IsFiniteSet(PageTables') /\ Cardinality(PageTables') \in Nat
  BY <1>2, CountFacts, FS_Subset, FS_CardinalityType
<1>7. Cardinality(PageTables) = Cardinality(PageTables') + Cardinality({m} \X tables[m])
  BY <1>2, <1>3, <1>5, <1>6, DisjointSize
<1>8. Cardinality(Live') = Cardinality(Live) - 1
  BY <1>1, CountFacts, FS_RemoveElement
<1>. QED  BY <1>4, <1>5, <1>6, <1>7, <1>8
-----------------------------------------------------------------------------
(* The faults that map a new frame or run out of them.                     *)
LEMMA NewFrame ==
  ASSUME IInv, NEW p \in Page, NEW f \in Frame, ref[f] = 0,
         cur \in Mm, cr3 = cur, state[cur] = "ready",
         frame' = [frame EXCEPT ![cur][p] = f],
         tlb' = [tlb EXCEPT ![p] = NotCached],
         rw' \subseteq rw \union {<<cur, p>>}, <<cur, p>> \in rw' => vma[cur][p] = "rw",
         UNCHANGED <<state, vma, put, cur, cr3>>
  PROVE  /\ frame' \in [Mm -> [Page -> Frame \union {None}]]
         /\ \A n \in Mm, q \in Page : frame'[n][q] = IF n = cur /\ q = p THEN f ELSE frame[n][q]
         /\ Holders(f)' = {<<cur, p>>}
         /\ \A g \in Frame \ {f} : Holders(g)' = IF g = frame[cur][p]
                                                  THEN Holders(g) \ {<<cur, p>>}
                                                  ELSE Holders(g)
         /\ tlb' \in [Page -> [frame : Frame \union {None}, rw : BOOLEAN]]
         /\ Alone' /\ TlbNamesLoadedFrames' /\ Spaces' /\ Rights'
<1>1. /\ frame' \in [Mm -> [Page -> Frame \union {None}]]
      /\ \A n \in Mm, q \in Page : frame'[n][q] = IF n = cur /\ q = p THEN f ELSE frame[n][q]
  BY DEF IInv, TypeOK
<1>2. \A n \in Mm, q \in Page : frame[n][q] = f => Given(n, q)
  <2>1. ~(ref[f] > 0)
    OBVIOUS
  <2>. QED  BY <2>1, UsedFacts DEF IInv
<1>3. \A n \in Mm, q \in Page : Given(n, q)' <=> Given(n, q)
  BY DEF Given
<1>4. \A q \in Page : ~Given(cur, q)
  BY DEF Given
<1>5. Holders(f)' = {<<cur, p>>}
  <2>1. ASSUME NEW n \in Mm, NEW q \in Page
        PROVE  <<n, q>> \in Holders(f)' <=> n = cur /\ q = p
    BY <1>1, <1>2, <1>3, <1>4 DEF Holders
  <2>2. Holders(f)' \subseteq Mm \X Page
    BY DEF Holders
  <2>. QED  BY <2>1, <2>2
<1>6. ASSUME NEW g \in Frame \ {f}
      PROVE  Holders(g)' = IF g = frame[cur][p] THEN Holders(g) \ {<<cur, p>>} ELSE Holders(g)
  <2>1. ASSUME NEW n \in Mm, NEW q \in Page
        PROVE  <<n, q>> \in Holders(g)' <=> <<n, q>> \in Holders(g) /\ ~(n = cur /\ q = p)
    BY <1>1, <1>3 DEF Holders
  <2>2. g # frame[cur][p] => <<cur, p>> \notin Holders(g)
    BY DEF Holders
  <2>3. Holders(g)' \subseteq Mm \X Page /\ Holders(g) \subseteq Mm \X Page
    BY DEF Holders
  <2>4. CASE g = frame[cur][p]
    <3>1. Holders(g)' = Holders(g) \ {<<cur, p>>}
      BY <2>1, <2>3
    <3>. QED  BY <3>1, <2>4
  <2>5. CASE g # frame[cur][p]
    <3>1. Holders(g)' = Holders(g)
      BY <2>1, <2>2, <2>3, <2>5, SamePairs
    <3>. QED  BY <3>1, <2>5
  <2>. QED  BY <2>4, <2>5
<1>7. /\ tlb' \in [Page -> [frame : Frame \union {None}, rw : BOOLEAN]]
      /\ \A q \in Page : tlb'[q] = IF q = p THEN NotCached ELSE tlb[q]
  BY FlushedFacts DEF IInv, TypeOK
<1>8. Alone'
  <2>1. ASSUME NEW m \in Mm, NEW q \in Page, <<m, q>> \in rw', state'[m] # "dying",
               NEW n \in Mm, NEW r \in Page, frame'[n][r] = frame'[m][q], ~Given(n, r)'
        PROVE  n = m /\ r = q
    <3>1. CASE m = cur /\ q = p
      BY <1>1, <1>2, <1>3, <2>1, <3>1
    <3>2. CASE ~(m = cur /\ q = p)
      <4>1. Sole(frame[m][q], m, q) /\ ~Given(m, q)
        BY <2>1, <3>2 DEF IInv, Alone, Given
      <4>2. frame'[m][q] = frame[m][q] /\ frame[m][q] # f
        BY <1>1, <1>2, <3>2, <4>1
      <4>. QED  BY <1>1, <1>3, <2>1, <4>1, <4>2 DEF Sole
    <3>. QED  BY <3>1, <3>2
  <2>2. ASSUME NEW q \in Page, tlb'[q].rw,
               NEW n \in Mm, NEW r \in Page, frame'[n][r] = tlb'[q].frame, ~Given(n, r)'
        PROVE  n = cr3' /\ r = q
    <3>1. q # p /\ tlb'[q] = tlb[q]
      BY <1>7, <2>2, FlushedFacts
    <3>2. Sole(tlb[q].frame, cr3, q) /\ tlb[q].frame = frame[cr3][q]
      BY <2>2, <3>1 DEF IInv, Alone, Rights, TlbNamesLoadedFrames
    <3>3. tlb[q].frame # f
      BY <1>2, <1>4, <3>2
    <3>. QED  BY <1>1, <1>3, <2>2, <3>1, <3>2, <3>3 DEF Sole
  <2>. QED  BY <2>1, <2>2 DEF Alone, Sole
<1>9. TlbNamesLoadedFrames'
  BY <1>1, <1>7, FlushedFacts DEF IInv, TlbNamesLoadedFrames
<1>10. Spaces'
  <2>1. \A m \in Mm \ {cur} : frame'[m] = frame[m]
    BY DEF IInv, TypeOK
  <2>2. NoPages' = NoPages
    BY DEF NoPages
  <2>. QED  BY <2>1, <2>2 DEF IInv, Spaces
<1>11. Rights'
  <2>1. ASSUME NEW m \in Mm, NEW q \in Page, <<m, q>> \in rw'
        PROVE  frame'[m][q] # None /\ vma'[m][q] = "rw"
    <3>1. CASE m = cur /\ q = p
      BY <1>1, <2>1, <3>1
    <3>2. CASE ~(m = cur /\ q = p)
      <4>1. <<m, q>> \in rw
        BY <2>1, <3>2
      <4>. QED  BY <1>1, <3>2, <4>1 DEF IInv, Rights
    <3>. QED  BY <3>1, <3>2
  <2>2. \A q \in Page : tlb'[q].rw => tlb'[q].frame # None /\ vma'[cr3'][q] = "rw"
    BY <1>7, FlushedFacts DEF IInv, Rights
  <2>. QED  BY <2>1, <2>2 DEF Rights
<1>. QED  BY <1>1, <1>5, <1>6, <1>7, <1>8, <1>9, <1>10, <1>11

(* Mapping a free frame where no frame was, or where a shared one was.     *)
LEMMA UsedAdded ==
  ASSUME TypeOK, NEW f \in Frame, ref[f] = 0, ref' \in [Frame -> Nat],
         \A g \in Frame : ref'[g] > 0 <=> ref[g] > 0 \/ g = f
  PROVE  Cardinality(InUse') = Cardinality(InUse) + 1
<1>1. InUse' = InUse \union {f} /\ f \notin InUse
  BY DEF InUse, TypeOK
<1>. QED  BY <1>1, CountFacts, FS_AddElement

LEMMA DemandPageIInv ==
  ASSUME IInv, NEW p \in Page, NEW write \in BOOLEAN, DemandPage(p, write)
  PROVE  IInv'
<1>0. cur \in Mm /\ cr3 = cur /\ state[cur] = "ready"
  BY FaultFacts DEF DemandPage
<1>1. PICK f \in Frame :
        /\ ref[f] = 0
        /\ frame' = [frame EXCEPT ![cur][p] = f]
        /\ ref' = [ref EXCEPT ![f] = 1]
        /\ data' = [data EXCEPT ![f] = Zero]
  BY DEF DemandPage
<1>2. /\ UNCHANGED <<state, vma, cur, cr3, put>>
      /\ tlb' = [tlb EXCEPT ![p] = NotCached]
      /\ tables' = [tables EXCEPT ![cur] = @ \union ToSet(PathOf[p])]
      /\ 1 + Cardinality(Missing(cur, p)) <= free
      /\ free' = free - (1 + Cardinality(Missing(cur, p)))
      /\ frame[cur][p] = None
  BY DEF DemandPage
<1>3. rw' \subseteq rw \union {<<cur, p>>} /\ (<<cur, p>> \in rw' => vma[cur][p] = "rw")
  BY <1>0 DEF DemandPage, IInv, Rights
<1>4. /\ frame' \in [Mm -> [Page -> Frame \union {None}]]
      /\ \A n \in Mm, q \in Page : frame'[n][q] = IF n = cur /\ q = p THEN f ELSE frame[n][q]
      /\ Holders(f)' = {<<cur, p>>}
      /\ \A g \in Frame \ {f} : Holders(g)' = IF g = frame[cur][p]
                                               THEN Holders(g) \ {<<cur, p>>}
                                               ELSE Holders(g)
      /\ tlb' \in [Page -> [frame : Frame \union {None}, rw : BOOLEAN]]
      /\ Alone' /\ TlbNamesLoadedFrames' /\ Spaces' /\ Rights'
  BY <1>0, <1>1, <1>2, <1>3, NewFrame
<1>5. /\ ToSet(PathOf[p]) \subseteq Table
      /\ IsFiniteSet(Missing(cur, p)) /\ Cardinality(Missing(cur, p)) \in Nat
  <2>1. ToSet(PathOf[p]) \subseteq Table
    <3>1. PathOf[p] \in Seq(Table)
      OBVIOUS
    <3>. QED  BY <3>1 DEF ToSet
  <2>. QED  BY <2>1, FS_Subset, FS_CardinalityType DEF Missing
<1>6. TypeOK'
  <2>1. rw' \subseteq Mm \X Page
    BY <1>0, <1>3 DEF IInv, TypeOK
  <2>2. free' \in Nat
    BY <1>2, <1>5 DEF IInv, TypeOK
  <2>3. tables' \in [Mm -> SUBSET Table] /\ ref' \in [Frame -> Nat] /\ data' \in [Frame -> Value]
    BY <1>1, <1>2, <1>5 DEF IInv, TypeOK
  <2>. QED  BY <1>2, <1>4, <2>1, <2>2, <2>3 DEF IInv, TypeOK
<1>7. RefExact'
  <2>1. ASSUME NEW g \in Frame PROVE ref'[g] = Cardinality(Holders(g)')
    <3>1. CASE g = f
      BY <1>1, <1>4, <3>1, FS_Singleton DEF IInv, TypeOK
    <3>2. CASE g # f
      <4>1. Holders(g)' = Holders(g)
        BY <1>2, <1>4, <3>2
      <4>. QED  BY <1>1, <3>2, <4>1 DEF IInv, TypeOK, RefExact
    <3>. QED  BY <3>1, <3>2
  <2>. QED  BY <2>1 DEF RefExact
<1>8. FramesConserved'
  <2>1. Live' = Live
    BY <1>2 DEF Live
  <2>2. Cardinality(PageTables') = Cardinality(PageTables) + Cardinality(Missing(cur, p))
    BY <1>0, <1>2, <1>5, <2>1, TablesAdded DEF Missing, IInv
  <2>3. Cardinality(InUse') = Cardinality(InUse) + 1
    <3>1. ref' \in [Frame -> Nat] /\ \A g \in Frame : ref'[g] > 0 <=> ref[g] > 0 \/ g = f
      BY <1>1 DEF IInv, TypeOK
    <3>. QED  BY <1>1, <3>1, UsedAdded DEF IInv
  <2>4. free \in Nat /\ free' = free - (1 + Cardinality(Missing(cur, p)))
    BY <1>2 DEF IInv, TypeOK
  <2>. QED  BY <1>5, <2>1, <2>2, <2>3, <2>4, CountFacts DEF IInv, FramesConserved
<1>. QED  BY <1>4, <1>6, <1>7, <1>8 DEF IInv

LEMMA CowCopyIInv ==
  ASSUME IInv, NEW p \in Page, CowCopy(p)
  PROVE  IInv'
<1>. DEFINE old == frame[cur][p]
<1>0. cur \in Mm /\ cr3 = cur /\ state[cur] = "ready"
  BY FaultFacts DEF CowCopy
<1>1. PICK f \in Frame :
        /\ ref[f] = 0
        /\ frame' = [frame EXCEPT ![cur][p] = f]
        /\ ref' = [ref EXCEPT ![f] = 1, ![old] = @ - 1]
        /\ data' = [data EXCEPT ![f] = data[old]]
  BY DEF CowCopy
<1>2. /\ UNCHANGED <<state, vma, tables, cur, cr3, put>>
      /\ tlb' = [tlb EXCEPT ![p] = NotCached]
      /\ rw' = rw \union {<<cur, p>>} /\ vma[cur][p] = "rw"
      /\ free > 0 /\ free' = free - 1
      /\ old # None /\ ref[old] > 1
  BY DEF CowCopy, Allowed
<1>3. old \in Frame /\ old # f
  BY <1>0, <1>1, <1>2 DEF IInv, TypeOK
<1>4. /\ frame' \in [Mm -> [Page -> Frame \union {None}]]
      /\ \A n \in Mm, q \in Page : frame'[n][q] = IF n = cur /\ q = p THEN f ELSE frame[n][q]
      /\ Holders(f)' = {<<cur, p>>}
      /\ \A g \in Frame \ {f} : Holders(g)' = IF g = frame[cur][p]
                                               THEN Holders(g) \ {<<cur, p>>}
                                               ELSE Holders(g)
      /\ tlb' \in [Page -> [frame : Frame \union {None}, rw : BOOLEAN]]
      /\ Alone' /\ TlbNamesLoadedFrames' /\ Spaces' /\ Rights'
  BY <1>0, <1>1, <1>2, NewFrame
<1>5. /\ ref' \in [Frame -> Nat]
      /\ \A g \in Frame : ref'[g] = IF g = f THEN 1 ELSE IF g = old THEN ref[old] - 1 ELSE ref[g]
  <2>1. ref \in [Frame -> Nat] /\ ref[old] \in Nat /\ ref[old] - 1 \in Nat
    BY <1>2, <1>3 DEF IInv, TypeOK
  <2>2. ref' = [ref EXCEPT ![f] = 1, ![old] = ref[old] - 1]
    BY <1>1, <1>3, <2>1
  <2>. QED  BY <1>3, <2>1, <2>2
<1>6. TypeOK'
  <2>1. rw' \subseteq Mm \X Page
    BY <1>0, <1>2 DEF IInv, TypeOK
  <2>2. free' \in Nat
    BY <1>2 DEF IInv, TypeOK
  <2>3. data' \in [Frame -> Value]
    BY <1>1, <1>3 DEF IInv, TypeOK
  <2>. QED  BY <1>2, <1>4, <1>5, <2>1, <2>2, <2>3 DEF IInv, TypeOK
<1>7. RefExact'
  <2>1. ASSUME NEW g \in Frame PROVE ref'[g] = Cardinality(Holders(g)')
    <3>1. CASE g = f
      BY <1>4, <1>5, <3>1, FS_Singleton
    <3>2. CASE g = old
      <4>1. <<cur, p>> \in Holders(g) /\ IsFiniteSet(Holders(g))
        BY <1>0, <3>2, HolderFacts DEF Given
      <4>2. Holders(g)' = Holders(g) \ {<<cur, p>>}
        BY <1>3, <1>4, <3>2
      <4>3. Cardinality(Holders(g)') = Cardinality(Holders(g)) - 1
        BY <4>1, <4>2, FS_RemoveElement
      <4>. QED  BY <1>3, <1>5, <3>2, <4>3 DEF IInv, RefExact
    <3>3. CASE g # f /\ g # old
      <4>1. Holders(g)' = Holders(g)
        BY <1>4, <3>3
      <4>. QED  BY <1>5, <3>3, <4>1 DEF IInv, RefExact
    <3>. QED  BY <3>1, <3>2, <3>3
  <2>. QED  BY <2>1 DEF RefExact
<1>8. FramesConserved'
  <2>1. Live' = Live /\ PageTables' = PageTables
    BY <1>2 DEF Live, PageTables
  <2>2. \A g \in Frame : ref'[g] > 0 <=> ref[g] > 0 \/ g = f
    <3>. SUFFICES ASSUME NEW g \in Frame PROVE ref'[g] > 0 <=> ref[g] > 0 \/ g = f
      OBVIOUS
    <3>1. ref[g] \in Nat /\ ref[old] \in Nat
      BY <1>3 DEF IInv, TypeOK
    <3>2. ref'[g] = IF g = f THEN 1 ELSE IF g = old THEN ref[old] - 1 ELSE ref[g]
      BY <1>5
    <3>. QED  BY <1>2, <3>1, <3>2
  <2>3. Cardinality(InUse') = Cardinality(InUse) + 1
    BY <1>1, <1>5, <2>2, UsedAdded DEF IInv
  <2>4. free \in Nat /\ free' = free - 1
    BY <1>2 DEF IInv, TypeOK
  <2>. QED  BY <2>1, <2>3, <2>4, CountFacts DEF IInv, FramesConserved
<1>. QED  BY <1>4, <1>6, <1>7, <1>8 DEF IInv

LEMMA DemandFailsIInv ==
  ASSUME IInv, NEW p \in Page, NEW write \in BOOLEAN, DemandFails(p, write)
  PROVE  IInv'
<1>0. Faults(p, write) /\ Kill /\ cur \in Mm /\ state[cur] = "ready"
  BY FaultFacts DEF DemandFails
<1>1. /\ state' \in [Mm -> {"none", "ready", "zombie", "dying"}]
      /\ RefExact' /\ Alone' /\ TlbNamesLoadedFrames' /\ Spaces' /\ Rights'
      /\ Live' = Live
      /\ UNCHANGED <<vma, frame, rw, ref, data, cr3, tlb, put>> /\ cur' = Kernel
  BY <1>0, KillKeeps DEF Kill
<1>2. CASE UNCHANGED <<tables, free>>
  <2>1. TypeOK'
    BY <1>1, <1>2 DEF IInv, TypeOK
  <2>. QED  BY <1>1, <1>2, <2>1, SameCounts DEF IInv
<1>3. CASE free # 0 /\ MapFails(p) /\ free' = 1
  <2>1. PICK n \in 0 .. Len(PathOf[p]) :
          /\ Cardinality(FirstTables(p, n) \ tables[cur]) = free - 1
          /\ tables' = [tables EXCEPT ![cur] = @ \union FirstTables(p, n)]
    BY <1>3 DEF MapFails
  <2>2. FirstTables(p, n) \subseteq Table
    <3>1. PathOf[p] \in Seq(Table)
      OBVIOUS
    <3>. QED  BY <3>1 DEF FirstTables
  <2>3. TypeOK'
    BY <1>1, <1>3, <2>1, <2>2 DEF IInv, TypeOK
  <2>4. Cardinality(PageTables') = Cardinality(PageTables) + (free - 1)
    BY <1>0, <1>1, <2>1, <2>2, TablesAdded DEF IInv
  <2>5. InUse' = InUse
    BY <1>1 DEF InUse
  <2>6. FramesConserved'
    BY <1>1, <1>3, <2>4, <2>5, CountFacts DEF IInv, TypeOK, FramesConserved
  <2>. QED  BY <1>1, <2>3, <2>6 DEF IInv
<1>. QED  BY <1>2, <1>3 DEF DemandFails
-----------------------------------------------------------------------------
(* fork: the child maps what the parent maps, and neither may store.       *)
LEMMA ForkIInv ==
  ASSUME IInv, NEW m \in Mm, NEW c \in Mm, Fork(m, c)
  PROVE  IInv'
<1>. DEFINE T == TablesFor(Mapped(m))
            P(f) == {p \in Page : frame[m][p] = f}
<1>1. /\ cur = m /\ cr3 = m /\ state[m] = "ready" /\ state[c] = "none" /\ c # m
      /\ state' = [state EXCEPT ![c] = "ready"]
      /\ vma' = [vma EXCEPT ![c] = vma[m]]
      /\ frame' = [frame EXCEPT ![c] = frame[m]]
      /\ rw' = rw \ ({m} \X Mapped(m))
      /\ tables' = [tables EXCEPT ![c] = T]
      /\ ref' = [f \in Frame |-> ref[f] + Cardinality(P(f))]
      /\ 1 + Cardinality(T) <= free /\ free' = free - (1 + Cardinality(T))
      /\ tlb' = Flushed
      /\ UNCHANGED <<data, cur, cr3, put>>
  BY DEF Fork, Demoted, CopyFits, CopyCost, IInv, TlbNamesLoadedFrames, TypeOK
<1>2. T \subseteq Table /\ IsFiniteSet(T) /\ Cardinality(T) \in Nat
  BY TableFacts DEF Mapped
<1>3. ASSUME NEW f PROVE IsFiniteSet(P(f)) /\ Cardinality(P(f)) \in Nat
  BY FS_Subset, FS_CardinalityType
<1>. HIDE DEF T
<1>4. TypeOK'
  <2>1. state' \in [Mm -> {"none", "ready", "zombie", "dying"}]
    BY <1>1 DEF IInv, TypeOK
  <2>2. vma' \in [Mm -> [Page -> {"none", "ro", "rw"}]]
    BY <1>1 DEF IInv, TypeOK
  <2>3. frame' \in [Mm -> [Page -> Frame \union {None}]]
    BY <1>1 DEF IInv, TypeOK
  <2>4. rw' \subseteq Mm \X Page
    BY <1>1 DEF IInv, TypeOK
  <2>5. tables' \in [Mm -> SUBSET Table]
    BY <1>1, <1>2 DEF IInv, TypeOK
  <2>6. ref' \in [Frame -> Nat]
    <3>. HIDE DEF P
    <3>1. ASSUME NEW f \in Frame PROVE ref[f] + Cardinality(P(f)) \in Nat
      BY <1>3 DEF IInv, TypeOK
    <3>. QED  BY <1>1, <3>1
  <2>7. free' \in Nat
    BY <1>1, <1>2 DEF IInv, TypeOK
  <2>. QED  BY <1>1, <2>1, <2>2, <2>3, <2>4, <2>5, <2>6, <2>7, FlushedFacts DEF IInv, TypeOK
<1>5. /\ \A n \in Mm, q \in Page : frame'[n][q] = IF n = c THEN frame[m][q] ELSE frame[n][q]
      /\ \A q \in Page : frame[c][q] = None
      /\ \A n \in Mm : state'[n] = IF n = c THEN "ready" ELSE state[n]
  BY <1>1 DEF IInv, TypeOK, Spaces, NoPages
<1>6. /\ \A n \in Mm, q \in Page : Given(n, q)' <=> Given(n, q)
      /\ \A q \in Page : ~Given(c, q) /\ ~Given(m, q)
  BY <1>1, <1>5 DEF Given
<1>7. RefExact'
  <2>1. ASSUME NEW f \in Frame PROVE ref'[f] = Cardinality(Holders(f)')
    <3>1. Holders(f)' = Holders(f) \union ({c} \X P(f))
      <4>1. ASSUME NEW n \in Mm, NEW q \in Page
            PROVE  <<n, q>> \in Holders(f)' <=> <<n, q>> \in Holders(f) \union ({c} \X P(f))
        BY <1>5, <1>6 DEF Holders
      <4>2. Holders(f)' \subseteq Mm \X Page /\ Holders(f) \union ({c} \X P(f)) \subseteq Mm \X Page
        BY DEF Holders
      <4>. DEFINE H == Holders(f) \union ({c} \X P(f))
      <4>3. H \subseteq Mm \X Page /\ \A n \in Mm, q \in Page : <<n, q>> \in Holders(f)' <=> <<n, q>> \in H
        BY <4>1, <4>2
      <4>. HIDE DEF H
      <4>4. Holders(f)' = H
        BY <4>2, <4>3, SamePairs
      <4>. QED  BY <4>4 DEF H
    <3>2. Holders(f) \cap ({c} \X P(f)) = {}
      <4>1. \A q \in Page : <<c, q>> \notin Holders(f)
        BY <1>5, HolderFacts
      <4>. QED  BY <4>1
    <3>. HIDE DEF P
    <3>3. IsFiniteSet({c} \X P(f)) /\ Cardinality({c} \X P(f)) = Cardinality(P(f))
      BY <1>3, RowSize
    <3>4. Cardinality(Holders(f)') = Cardinality(Holders(f)) + Cardinality(P(f))
      BY <3>1, <3>2, <3>3, HolderFacts, DisjointSize
    <3>5. ref'[f] = ref[f] + Cardinality(P(f))
      BY <1>1
    <3>. QED  BY <3>4, <3>5 DEF IInv, RefExact
  <2>. QED  BY <2>1 DEF RefExact
<1>8. Alone'
  <2>1. ASSUME NEW a \in Mm, NEW q \in Page, <<a, q>> \in rw', state'[a] # "dying",
               NEW n \in Mm, NEW r \in Page, frame'[n][r] = frame'[a][q], ~Given(n, r)'
        PROVE  n = a /\ r = q
    <3>1. <<a, q>> \in rw /\ frame[a][q] # None
      BY <1>1, <2>1 DEF IInv, Rights
    <3>2. a # m /\ a # c
      BY <1>1, <1>5, <2>1, <3>1 DEF Mapped
    <3>3. Sole(frame[a][q], a, q)
      BY <1>5, <2>1, <3>1, <3>2 DEF IInv, Alone
    <3>4. frame'[a][q] = frame[a][q]
      BY <1>5, <3>2
    <3>5. CASE n = c
      BY <1>5, <1>6, <2>1, <3>2, <3>3, <3>4, <3>5 DEF Sole
    <3>6. CASE n # c
      BY <1>5, <1>6, <2>1, <3>3, <3>4, <3>6 DEF Sole
    <3>. QED  BY <3>5, <3>6
  <2>. QED  BY <1>1, <2>1, FlushedFacts DEF Alone, Sole
<1>9. TlbNamesLoadedFrames'
  BY <1>1, <1>5, FlushedFacts DEF IInv, TlbNamesLoadedFrames
<1>10. FramesConserved'
  <2>1. Cardinality(Live') = Cardinality(Live) + 1 /\ Cardinality(PageTables') = Cardinality(PageTables) + Cardinality(T)
    BY <1>1, <1>2, SpaceAdded DEF IInv
  <2>2. InUse' = InUse
    <3>1. ASSUME NEW f \in Frame PROVE ref'[f] > 0 <=> ref[f] > 0
      <4>1. ref'[f] = ref[f] + Cardinality(P(f)) /\ ref[f] \in Nat /\ Cardinality(P(f)) \in Nat
        BY <1>1, <1>3 DEF IInv, TypeOK
      <4>2. P(f) # {} => ref[f] > 0
        BY <1>6, UsedFacts DEF IInv
      <4>3. P(f) = {} => Cardinality(P(f)) = 0
        BY FS_EmptySet
      <4>. HIDE DEF P
      <4>. QED  BY <4>1, <4>2, <4>3
    <3>. QED  BY <3>1 DEF InUse
  <2>3. free \in Nat /\ free' = free - (1 + Cardinality(T))
    BY <1>1 DEF IInv, TypeOK
  <2>. QED  BY <1>2, <2>1, <2>2, <2>3, CountFacts DEF IInv, FramesConserved
<1>11. Spaces'
  <2>1. \A n \in Mm \ {c} : frame'[n] = frame[n]
    BY <1>1 DEF IInv, TypeOK
  <2>2. NoPages' = NoPages
    BY DEF NoPages
  <2>. QED  BY <1>5, <2>1, <2>2 DEF IInv, Spaces
<1>12. Rights'
  <2>1. ASSUME NEW a \in Mm, NEW q \in Page, <<a, q>> \in rw'
        PROVE  frame'[a][q] # None /\ vma'[a][q] = "rw"
    <3>1. <<a, q>> \in rw /\ frame[a][q] # None /\ vma[a][q] = "rw"
      BY <1>1, <2>1 DEF IInv, Rights
    <3>2. a # c /\ vma'[a] = vma[a]
      BY <1>1, <1>5, <3>1 DEF IInv, TypeOK
    <3>. QED  BY <1>5, <3>1, <3>2
  <2>. QED  BY <1>1, <2>1, FlushedFacts DEF Rights
<1>. QED  BY <1>4, <1>7, <1>8, <1>9, <1>10, <1>11, <1>12 DEF IInv
-----------------------------------------------------------------------------
(* exec: every page of the image gets a free frame of its own.             *)
LEMMA ExecIInv ==
  ASSUME IInv, NEW m \in Mm, NEW layout \in Layout, NEW image,
         DOMAIN image \subseteq Page, image \in [DOMAIN image -> Value],
         Exec(m, layout, image)
  PROVE  IInv'
<1>. DEFINE D == DOMAIN image
            T == TablesFor(D)
            Fresh == {f \in Frame : ref[f] = 0}
<1>0. D \subseteq Page /\ image \in [D -> Value]
  OBVIOUS
<1>1. /\ cur = Kernel /\ state[m] = "none"
      /\ \A p \in D : layout[p] # "none"
      /\ 1 + Cardinality(T) + Cardinality(D) <= free
      /\ state' = [state EXCEPT ![m] = "ready"]
      /\ vma' = [vma EXCEPT ![m] = layout]
      /\ rw' = rw \union {<<m, p>> : p \in {q \in D : layout[q] = "rw"}}
      /\ tables' = [tables EXCEPT ![m] = T]
      /\ free' = free - (1 + Cardinality(T) + Cardinality(D))
      /\ UNCHANGED <<cur, cr3, tlb, put>>
  BY DEF Exec
<1>2. PICK home \in Injection(D, Fresh) :
        LET Taken == {home[p] : p \in D} IN
        /\ frame' = [frame EXCEPT ![m] = [p \in Page |-> IF p \in D THEN home[p] ELSE None]]
        /\ ref' = [f \in Frame |-> IF f \in Taken THEN 1 ELSE ref[f]]
        /\ data' = [f \in Frame |-> IF f \in Taken THEN image[CHOOSE p \in D : home[p] = f]
                                    ELSE data[f]]
  BY Zenon DEF Exec
<1>. DEFINE Taken == {home[p] : p \in D}
<1>. HIDE DEF D
<1>3. /\ home \in [D -> Fresh] /\ \A p, q \in D : home[p] = home[q] => p = q
      /\ \A f : f \in Taken <=> \E p \in D : home[p] = f
      /\ \A f \in Fresh : f \in Frame /\ ref[f] = 0
      /\ \A f \in Frame : ref[f] = 0 => f \in Fresh
      /\ Taken \subseteq Fresh
  BY DEF Injection, IsInjective
<1>4. /\ T \subseteq Table /\ IsFiniteSet(T) /\ Cardinality(T) \in Nat
      /\ IsFiniteSet(D) /\ Cardinality(D) \in Nat
  BY <1>0, TableFacts, FS_Subset, FS_CardinalityType
<1>. HIDE DEF Fresh, T
<1>5. layout \in [Page -> {"none", "ro", "rw"}]
  OBVIOUS
<1>6. /\ frame' \in [Mm -> [Page -> Frame \union {None}]]
      /\ \A n \in Mm \ {m} : frame'[n] = frame[n]
      /\ \A n \in Mm, q \in Page : n # m => frame'[n][q] = frame[n][q]
      /\ \A q \in D : q \in Page /\ frame'[m][q] = home[q] /\ home[q] \in Fresh /\ home[q] # None
      /\ \A q \in Page : q \notin D => frame'[m][q] = None
      /\ \A q \in Page : frame[m][q] = None
      /\ \A n \in Mm : state'[n] = IF n = m THEN "ready" ELSE state[n]
  <2>1. [p \in Page |-> IF p \in D THEN home[p] ELSE None] \in [Page -> Frame \union {None}]
    BY <1>3
  <2>2. \A q \in D : q \in Page /\ home[q] \in Fresh /\ home[q] # None
    BY <1>0, <1>3
  <2>. QED  BY <1>1, <1>2, <2>1, <2>2 DEF IInv, TypeOK, Spaces, NoPages
<1>7. \A n \in Mm, q \in Page : frame[n][q] \in Fresh => Given(n, q)
  <2>1. ASSUME NEW f \in Fresh, NEW n \in Mm, NEW q \in Page, frame[n][q] = f
        PROVE  Given(n, q)
    <3>1. f \in Frame /\ ~(ref[f] > 0)
      BY <1>3
    <3>. QED  BY <2>1, <3>1, UsedFacts DEF IInv
  <2>. QED  BY <2>1
<1>8. /\ \A n \in Mm, q \in Page : Given(n, q)' <=> Given(n, q)
      /\ \A q \in Page : ~Given(m, q)
  BY <1>1, <1>6 DEF Given
<1>9. /\ ref' \in [Frame -> Nat]
      /\ \A f \in Frame : ref'[f] = IF f \in Taken THEN 1 ELSE ref[f]
  BY <1>2 DEF IInv, TypeOK
<1>. HIDE DEF Taken
<1>10. TypeOK'
  <2>1. state' \in [Mm -> {"none", "ready", "zombie", "dying"}]
        /\ vma' \in [Mm -> [Page -> {"none", "ro", "rw"}]]
    BY <1>1, <1>5 DEF IInv, TypeOK
  <2>2. rw' \subseteq Mm \X Page
    BY <1>0, <1>1 DEF IInv, TypeOK
  <2>3. tables' \in [Mm -> SUBSET Table]
    BY <1>1, <1>4 DEF IInv, TypeOK
  <2>4. data' \in [Frame -> Value]
    <3>1. ASSUME NEW f \in Taken PROVE image[CHOOSE p \in D : home[p] = f] \in Value
      <4>1. \E p \in D : home[p] = f
        BY <1>3
      <4>2. (CHOOSE p \in D : home[p] = f) \in D
        BY <4>1
      <4>. QED  BY <1>0, <4>2
    <3>. QED  BY <1>2, <3>1 DEF IInv, TypeOK, Taken
  <2>5. free' \in Nat
    BY <1>1, <1>4 DEF IInv, TypeOK
  <2>. QED  BY <1>1, <1>6, <1>9, <2>1, <2>2, <2>3, <2>4, <2>5 DEF IInv, TypeOK
<1>11. RefExact'
  <2>1. ASSUME NEW f \in Frame PROVE ref'[f] = Cardinality(Holders(f)')
    <3>0. \A n \in Mm, q \in Page :
            <<n, q>> \in Holders(f)' <=> frame'[n][q] = f /\ ~Given(n, q)
      BY <1>8 DEF Holders
    <3>1. CASE f \in Taken
      <4>1. PICK p \in D : home[p] = f
        BY <1>3, <3>1
      <4>2. \A n \in Mm, q \in Page : <<n, q>> \in Holders(f)' <=> <<n, q>> \in {<<m, p>>}
        <5>1. ASSUME NEW n \in Mm, NEW q \in Page, n # m PROVE <<n, q>> \notin Holders(f)'
          <6>1. f \in Fresh /\ frame'[n][q] = frame[n][q]
            BY <1>3, <1>6, <3>1, <5>1
          <6>. QED  BY <1>7, <3>0, <6>1
        <5>2. ASSUME NEW q \in Page PROVE <<m, q>> \in Holders(f)' <=> q = p
          BY <1>3, <1>6, <1>8, <3>0, <4>1
        <5>. QED  BY <5>1, <5>2
      <4>3. Holders(f)' \subseteq Mm \X Page /\ {<<m, p>>} \subseteq Mm \X Page
        BY <1>0 DEF Holders
      <4>4. Holders(f)' = {<<m, p>>}
        BY <4>2, <4>3, SamePairs
      <4>. QED  BY <1>9, <3>1, <4>4, FS_Singleton
    <3>2. CASE f \notin Taken
      <4>1. \A n \in Mm, q \in Page : <<n, q>> \in Holders(f)' <=> <<n, q>> \in Holders(f)
        <5>1. ASSUME NEW n \in Mm, NEW q \in Page, n # m
              PROVE  <<n, q>> \in Holders(f)' <=> <<n, q>> \in Holders(f)
          BY <1>6, <3>0, <5>1, HolderFacts
        <5>2. ASSUME NEW q \in Page PROVE <<m, q>> \notin Holders(f)' /\ <<m, q>> \notin Holders(f)
          <6>1. None # f
            OBVIOUS
          <6>2. <<m, q>> \notin Holders(f)
            <7>1. frame[m][q] # f
              BY <1>6, <6>1
            <7>. QED  BY <7>1, HolderFacts
          <6>3. frame'[m][q] # f
            <7>1. CASE q \in D
              BY <1>3, <1>6, <3>2, <7>1
            <7>2. CASE q \notin D
              BY <1>6, <6>1, <7>2
            <7>. QED  BY <7>1, <7>2
          <6>. QED  BY <3>0, <6>2, <6>3
        <5>. QED  BY <5>1, <5>2
      <4>2. Holders(f)' \subseteq Mm \X Page /\ Holders(f) \subseteq Mm \X Page
        BY DEF Holders
      <4>3. Holders(f)' = Holders(f)
        BY <4>1, <4>2, SamePairs
      <4>. QED  BY <1>9, <3>2, <4>3 DEF IInv, RefExact
    <3>. QED  BY <3>1, <3>2
  <2>. QED  BY <2>1 DEF RefExact
<1>12. Alone'
  <2>1. ASSUME NEW a \in Mm, NEW q \in Page, <<a, q>> \in rw', state'[a] # "dying",
               NEW n \in Mm, NEW r \in Page, frame'[n][r] = frame'[a][q], ~Given(n, r)'
        PROVE  n = a /\ r = q
    <3>1. CASE a = m
      <4>1. q \in D /\ frame'[m][q] = home[q] /\ home[q] \in Fresh
        <5>1. <<m, q>> \notin rw
          BY <1>6 DEF IInv, Rights
        <5>. QED  BY <1>1, <1>3, <1>6, <2>1, <3>1, <5>1
      <4>2. n = m
        <5>1. SUFFICES ASSUME n # m PROVE FALSE
          OBVIOUS
        <5>2. frame'[n][r] = frame[n][r]
          BY <1>6, <5>1
        <5>3. frame[n][r] \in Fresh
          BY <2>1, <3>1, <4>1, <5>2
        <5>4. Given(n, r)
          BY <1>7, <5>3
        <5>. QED  BY <1>8, <2>1, <5>4
      <4>3. r \in D /\ home[r] = home[q]
        <5>1. frame'[m][r] = home[q] /\ home[q] # None
          BY <1>6, <2>1, <3>1, <4>1, <4>2
        <5>. QED  BY <1>6, <5>1
      <4>. QED  BY <1>3, <3>1, <4>1, <4>2, <4>3
    <3>2. CASE a # m
      <4>1. <<a, q>> \in rw /\ state[a] # "dying" /\ frame'[a][q] = frame[a][q]
        BY <1>1, <1>6, <2>1, <3>2
      <4>2. Sole(frame[a][q], a, q) /\ frame[a][q] # None /\ ~Given(a, q)
        BY <4>1 DEF IInv, Alone, Rights, Given
      <4>3. n # m
        BY <1>3, <1>6, <1>7, <2>1, <4>1, <4>2
      <4>. QED  BY <1>6, <1>8, <2>1, <4>1, <4>2, <4>3 DEF Sole
    <3>. QED  BY <3>1, <3>2
  <2>2. ASSUME NEW q \in Page, tlb'[q].rw,
               NEW n \in Mm, NEW r \in Page, frame'[n][r] = tlb'[q].frame, ~Given(n, r)'
        PROVE  n = cr3' /\ r = q
    <3>1. /\ Sole(tlb[q].frame, cr3, q) /\ tlb[q].frame # None /\ tlb[q].frame = frame[cr3][q]
          /\ cr3 \in Mm /\ ~Given(cr3, q)
      BY <1>1, <2>2 DEF IInv, TypeOK, Alone, Rights, TlbNamesLoadedFrames, Given
    <3>2. n # m
      BY <1>1, <1>3, <1>6, <1>7, <2>2, <3>1
    <3>. QED  BY <1>1, <1>6, <1>8, <2>2, <3>1, <3>2 DEF Sole
  <2>. QED  BY <2>1, <2>2 DEF Alone, Sole
<1>13. TlbNamesLoadedFrames'
  BY <1>1, <1>6 DEF IInv, TypeOK, TlbNamesLoadedFrames
<1>14. FramesConserved'
  <2>1. Cardinality(Live') = Cardinality(Live) + 1 /\ Cardinality(PageTables') = Cardinality(PageTables) + Cardinality(T)
    BY <1>1, <1>4, SpaceAdded DEF IInv
  <2>2. IsFiniteSet(Taken) /\ Cardinality(Taken) = Cardinality(D)
    <3>1. home \in Surjection(D, Taken) /\ home \in Injection(D, Taken)
      BY <1>3 DEF Surjection, Injection, IsInjective, Taken
    <3>. QED  BY <1>4, <3>1, FS_Surjection
  <2>3. InUse' = InUse \union Taken /\ InUse \cap Taken = {}
    <3>1. \A f \in Frame : ref'[f] > 0 <=> ref[f] > 0 \/ f \in Taken
      BY <1>9
    <3>. QED  BY <1>3, <3>1 DEF InUse
  <2>4. Cardinality(InUse') = Cardinality(InUse) + Cardinality(D)
    BY <2>2, <2>3, CountFacts, DisjointSize
  <2>5. free \in Nat /\ free' = free - (1 + Cardinality(T) + Cardinality(D))
    BY <1>1 DEF IInv, TypeOK
  <2>. QED  BY <1>4, <2>1, <2>4, <2>5, CountFacts DEF IInv, FramesConserved
<1>15. Spaces'
  <2>1. NoPages' = NoPages
    BY DEF NoPages
  <2>. QED  BY <1>6, <2>1 DEF IInv, Spaces
<1>16. Rights'
  <2>1. ASSUME NEW a \in Mm, NEW q \in Page, <<a, q>> \in rw'
        PROVE  frame'[a][q] # None /\ vma'[a][q] = "rw"
    <3>1. CASE a = m
      <4>1. q \in D /\ layout[q] = "rw"
        <5>1. <<m, q>> \notin rw
          BY <1>6 DEF IInv, Rights
        <5>. QED  BY <1>1, <2>1, <3>1, <5>1
      <4>2. home[q] \in Frame
        BY <1>3, <4>1
      <4>3. vma'[m] = layout
        BY <1>1 DEF IInv, TypeOK
      <4>. QED  BY <1>6, <3>1, <4>1, <4>2, <4>3
    <3>2. CASE a # m
      <4>1. <<a, q>> \in rw /\ vma'[a] = vma[a]
        BY <1>1, <2>1, <3>2 DEF IInv, TypeOK
      <4>2. frame'[a][q] = frame[a][q]
        BY <1>6, <3>2
      <4>. QED  BY <4>1, <4>2 DEF IInv, Rights
    <3>. QED  BY <3>1, <3>2
  <2>2. ASSUME NEW q \in Page, tlb'[q].rw PROVE tlb'[q].frame # None /\ vma'[cr3'][q] = "rw"
    <3>1. tlb[q].frame # None /\ vma[cr3][q] = "rw" /\ cr3 # m
      BY <1>1, <2>2 DEF IInv, Rights, TlbNamesLoadedFrames
    <3>. QED  BY <1>1, <2>2, <3>1 DEF IInv, TypeOK, TlbNamesLoadedFrames
  <2>. QED  BY <2>1, <2>2 DEF Rights
<1>. QED  BY <1>10, <1>11, <1>12, <1>13, <1>14, <1>15, <1>16 DEF IInv
-----------------------------------------------------------------------------
(* kMmDestroy.                                                             *)
LEMMA DestroyBeginIInv ==
  ASSUME IInv, NEW m \in Mm, DestroyBegin(m)
  PROVE  IInv'
<1>0. /\ cur = Kernel /\ state[m] \in {"ready", "zombie"}
      /\ \A n \in Mm : state[n] # "dying"
      /\ state' = [state EXCEPT ![m] = "dying"]
      /\ (cr3' = cr3 /\ cr3 # m /\ tlb' = tlb) \/ (cr3' = Kernel /\ tlb' = Flushed)
      /\ put' = {}
      /\ UNCHANGED <<vma, frame, rw, tables, ref, free, data, cur>>
  BY DEF DestroyBegin
<1>1. TypeOK'
  BY <1>0, FlushedFacts DEF IInv, TypeOK
<1>2. /\ \A n \in Mm : n # m => state'[n] = state[n]
      /\ state'[m] = "dying"
  BY <1>0 DEF IInv, TypeOK
<1>3. \A n \in Mm, q \in Page : Given(n, q)' <=> Given(n, q)
  BY <1>0 DEF Given
<1>4. RefExact'
  BY <1>0, <1>3, SameRefs DEF IInv
<1>5. Alone'
  <2>1. ASSUME NEW n \in Mm, NEW q \in Page, <<n, q>> \in rw', state'[n] # "dying"
        PROVE  Sole(frame[n][q], n, q)
    BY <1>0, <2>1 DEF IInv, Alone
  <2>2. ASSUME NEW q \in Page, tlb'[q].rw PROVE Sole(tlb'[q].frame, cr3', q)
    BY <1>0, <2>2, FlushedFacts DEF IInv, Alone
  <2>. QED  BY <1>0, <1>3, <2>1, <2>2, SameAlone
<1>6. TlbNamesLoadedFrames'
  <2>1. cr3' # Kernel => cr3' \in Mm /\ cr3' # m
    BY <1>0 DEF IInv, TypeOK
  <2>2. cr3' # Kernel => state'[cr3'] \in {"ready", "zombie"}
    BY <1>0, <1>2, <2>1 DEF IInv, TlbNamesLoadedFrames
  <2>3. \A q \in Page : tlb'[q].frame # None => cr3' # Kernel /\ tlb'[q].frame = frame'[cr3'][q]
    BY <1>0, FlushedFacts DEF IInv, TlbNamesLoadedFrames
  <2>. QED  BY <1>0, <2>2, <2>3 DEF TlbNamesLoadedFrames
<1>7. FramesConserved'
  <2>1. Live' = Live
    BY <1>0, <1>2 DEF Live
  <2>. QED  BY <1>0, <2>1, SameCounts DEF IInv
<1>8. Spaces'
  <2>1. NoPages' = NoPages
    BY DEF NoPages
  <2>. QED  BY <1>0, <1>2, <2>1 DEF IInv, Spaces
<1>9. Rights'
  BY <1>0, FlushedFacts DEF IInv, Rights
<1>. QED  BY <1>1, <1>4, <1>5, <1>6, <1>7, <1>8, <1>9 DEF IInv

LEMMA DestroyPageIInv ==
  ASSUME IInv, NEW m \in Mm, NEW p \in Page, DestroyPage(m, p)
  PROVE  IInv'
<1>. DEFINE f == frame[m][p]
<1>0. /\ cur = Kernel /\ state[m] = "dying"
      /\ f \in Frame /\ p \notin put
      /\ put' = put \union {p}
      /\ ref' = [ref EXCEPT ![f] = IF @ > 0 THEN @ - 1 ELSE 0]
      /\ free' = IF ref[f] = 1 THEN free + 1 ELSE free
      /\ UNCHANGED <<state, vma, frame, rw, tables, data, cur, cr3, tlb>>
  BY DEF DestroyPage, Mapped, IInv, TypeOK
<1>1. \A n \in Mm, q \in Page : Given(n, q)' <=> Given(n, q) \/ (n = m /\ q = p)
  BY <1>0 DEF Given, IInv, Spaces
<1>2. ref[f] > 0 /\ ref[f] \in Nat
  BY <1>0, UsedFacts DEF IInv, TypeOK, Given
<1>3. /\ ref' \in [Frame -> Nat]
      /\ ref'[f] = ref[f] - 1
      /\ \A g \in Frame : g # f => ref'[g] = ref[g]
  <2>1. ref' = [ref EXCEPT ![f] = ref[f] - 1] /\ ref[f] - 1 \in Nat
    <3>. HIDE DEF f
    <3>1. (IF ref[f] > 0 THEN ref[f] - 1 ELSE 0) = ref[f] - 1 /\ ref[f] - 1 \in Nat
      BY <1>2
    <3>. QED  BY <1>0, <3>1, Zenon
  <2>2. ref \in [Frame -> Nat] /\ f \in Frame
    BY <1>0 DEF IInv, TypeOK
  <2>. QED  BY <2>1, <2>2
<1>4. TypeOK'
  BY <1>0, <1>3 DEF IInv, TypeOK
<1>5. RefExact'
  <2>1. ASSUME NEW g \in Frame PROVE ref'[g] = Cardinality(Holders(g)')
    <3>1. /\ Holders(g) \subseteq Mm \X Page /\ Holders(g)' \subseteq Mm \X Page
          /\ \A n \in Mm, q \in Page : <<n, q>> \in Holders(g)' <=>
               <<n, q>> \in Holders(g) /\ ~(n = m /\ q = p)
      BY <1>0, <1>1 DEF Holders
    <3>2. CASE g = f
      <4>. DEFINE H == Holders(g) \ {<<m, p>>}
      <4>1. H \subseteq Mm \X Page /\ \A n \in Mm, q \in Page : <<n, q>> \in Holders(g)' <=> <<n, q>> \in H
        BY <3>1
      <4>2. Holders(g)' = H
        <5>. HIDE DEF H
        <5>. QED  BY <3>1, <4>1, SamePairs
      <4>3. <<m, p>> \in Holders(g) /\ IsFiniteSet(Holders(g))
        BY <1>0, <3>2, HolderFacts DEF Given
      <4>4. Cardinality(Holders(g)') = Cardinality(Holders(g)) - 1
        BY <4>2, <4>3, FS_RemoveElement
      <4>. QED  BY <1>0, <1>3, <3>2, <4>4 DEF IInv, RefExact
    <3>3. CASE g # f
      <4>1. <<m, p>> \notin Holders(g)
        BY <3>3, HolderFacts
      <4>2. Holders(g)' = Holders(g)
        BY <3>1, <4>1, SamePairs
      <4>. QED  BY <1>3, <3>3, <4>2 DEF IInv, RefExact
    <3>. QED  BY <3>2, <3>3
  <2>. QED  BY <2>1 DEF RefExact
<1>6. Alone'
  BY <1>0, <1>1 DEF IInv, Alone, Sole
<1>7. TlbNamesLoadedFrames' /\ Rights' /\ Spaces'
  BY <1>0 DEF IInv, TlbNamesLoadedFrames, Rights, Spaces, NoPages
<1>8. FramesConserved'
  <2>1. Live' = Live /\ PageTables' = PageTables
    BY <1>0 DEF Live, PageTables
  <2>2. CASE ref[f] = 1
    <3>1. InUse' = InUse \ {f} /\ f \in InUse
      BY <1>0, <1>3, <2>2 DEF InUse
    <3>2. Cardinality(InUse') = Cardinality(InUse) - 1
      BY <3>1, CountFacts, FS_RemoveElement
    <3>3. free \in Nat /\ free' = free + 1
      BY <1>0, <2>2 DEF IInv, TypeOK
    <3>. QED  BY <2>1, <3>2, <3>3, CountFacts DEF IInv, FramesConserved
  <2>3. CASE ref[f] # 1
    <3>1. \A g \in Frame : ref'[g] > 0 <=> ref[g] > 0
      BY <1>2, <1>3, <2>3
    <3>2. InUse' = InUse
      BY <3>1 DEF InUse
    <3>. QED  BY <1>0, <2>1, <2>3, <3>2 DEF IInv, FramesConserved
  <2>. QED  BY <2>2, <2>3
<1>. QED  BY <1>4, <1>5, <1>6, <1>7, <1>8 DEF IInv

LEMMA DestroyEndIInv ==
  ASSUME IInv, NEW m \in Mm, DestroyEnd(m)
  PROVE  IInv'
<1>0. /\ cur = Kernel /\ state[m] = "dying" /\ Mapped(m) \subseteq put
      /\ state' = [state EXCEPT ![m] = "none"]
      /\ vma' = [vma EXCEPT ![m] = NoVma]
      /\ frame' = [frame EXCEPT ![m] = NoPages]
      /\ rw' = rw \ ({m} \X Page)
      /\ tables' = [tables EXCEPT ![m] = {}]
      /\ free' = free + 1 + Cardinality(tables[m])
      /\ put' = {}
      /\ UNCHANGED <<ref, data, cur, cr3, tlb>>
  BY DEF DestroyEnd
<1>1. /\ \A n \in Mm, q \in Page : n # m => frame'[n][q] = frame[n][q]
      /\ \A n \in Mm : n # m => frame'[n] = frame[n] /\ vma'[n] = vma[n] /\ state'[n] = state[n]
      /\ \A q \in Page : frame'[m][q] = None
      /\ frame'[m] = NoPages
      /\ state'[m] = "none"
      /\ \A q \in Page : frame[m][q] # None => Given(m, q)
  BY <1>0 DEF IInv, TypeOK, NoPages, Mapped, Given
<1>2. /\ \A n \in Mm : n # m => state[n] # "dying"
      /\ \A n \in Mm, q \in Page : ~Given(n, q)'
      /\ \A n \in Mm, q \in Page : n # m => ~Given(n, q)
  BY <1>0, <1>1 DEF IInv, Spaces, Given
<1>3. TypeOK'
  <2>1. free' \in Nat
    BY <1>0, FS_Subset, FS_CardinalityType DEF IInv, TypeOK
  <2>2. rw' \subseteq Mm \X Page
    BY <1>0 DEF IInv, TypeOK
  <2>3. /\ state' \in [Mm -> {"none", "ready", "zombie", "dying"}]
        /\ vma' \in [Mm -> [Page -> {"none", "ro", "rw"}]]
        /\ frame' \in [Mm -> [Page -> Frame \union {None}]]
        /\ tables' \in [Mm -> SUBSET Table]
    BY <1>0 DEF IInv, TypeOK, NoVma, NoPages
  <2>. QED  BY <1>0, <2>1, <2>2, <2>3 DEF IInv, TypeOK
<1>4. RefExact'
  <2>1. ASSUME NEW g \in Frame PROVE Holders(g)' = Holders(g)
    <3>1. Holders(g)' \subseteq Mm \X Page /\ Holders(g) \subseteq Mm \X Page
      BY DEF Holders
    <3>2. ASSUME NEW n \in Mm, NEW q \in Page, n # m
          PROVE  <<n, q>> \in Holders(g)' <=> <<n, q>> \in Holders(g)
      BY <1>1, <1>2, <3>2 DEF Holders
    <3>3. ASSUME NEW q \in Page PROVE <<m, q>> \notin Holders(g)' /\ <<m, q>> \notin Holders(g)
      <4>1. None # g
        OBVIOUS
      <4>2. <<m, q>> \notin Holders(g)'
        BY <1>1, <4>1 DEF Holders
      <4>3. <<m, q>> \notin Holders(g)
        BY <1>1, <4>1, HolderFacts
      <4>. QED  BY <4>2, <4>3
    <3>. QED  BY <3>1, <3>2, <3>3, SamePairs
  <2>. QED  BY <1>0, <2>1 DEF IInv, RefExact
<1>5. cr3 # m
  BY <1>0 DEF IInv, TlbNamesLoadedFrames
<1>6. Alone'
  <2>1. ASSUME NEW a \in Mm, NEW q \in Page, <<a, q>> \in rw', state'[a] # "dying",
               NEW n \in Mm, NEW r \in Page, frame'[n][r] = frame'[a][q], ~Given(n, r)'
        PROVE  n = a /\ r = q
    <3>1. a # m /\ <<a, q>> \in rw
      BY <1>0, <2>1
    <3>2. frame'[a][q] = frame[a][q] /\ frame[a][q] # None /\ Sole(frame[a][q], a, q)
      BY <1>1, <1>2, <3>1 DEF IInv, Alone, Rights
    <3>3. n # m
      BY <1>1, <2>1, <3>2
    <3>. QED  BY <1>1, <1>2, <2>1, <3>2, <3>3 DEF Sole
  <2>2. ASSUME NEW q \in Page, tlb'[q].rw,
               NEW n \in Mm, NEW r \in Page, frame'[n][r] = tlb'[q].frame, ~Given(n, r)'
        PROVE  n = cr3' /\ r = q
    <3>1. Sole(tlb[q].frame, cr3, q) /\ tlb[q].frame # None
      BY <1>0, <2>2 DEF IInv, Alone, Rights
    <3>2. n # m
      BY <1>0, <1>1, <2>2, <3>1
    <3>. QED  BY <1>0, <1>1, <1>2, <2>2, <3>1, <3>2 DEF Sole
  <2>. QED  BY <2>1, <2>2 DEF Alone, Sole
<1>7. TlbNamesLoadedFrames'
  <2>1. cr3 # Kernel => cr3 \in Mm
    BY DEF IInv, TypeOK
  <2>2. cr3' # Kernel => state'[cr3'] \in {"ready", "zombie"}
    BY <1>0, <1>1, <1>5, <2>1 DEF IInv, TlbNamesLoadedFrames
  <2>3. \A q \in Page : tlb'[q].frame # None => cr3' # Kernel /\ tlb'[q].frame = frame'[cr3'][q]
    BY <1>0, <1>1, <1>5, <2>1 DEF IInv, TlbNamesLoadedFrames
  <2>. QED  BY <1>0, <2>2, <2>3 DEF TlbNamesLoadedFrames
<1>8. FramesConserved'
  <2>1. /\ Cardinality(Live') = Cardinality(Live) - 1
        /\ Cardinality(PageTables') = Cardinality(PageTables) - Cardinality(tables[m])
        /\ Cardinality(tables[m]) \in Nat
    BY <1>0, SpaceRemoved DEF IInv
  <2>2. InUse' = InUse
    BY <1>0 DEF InUse
  <2>3. free \in Nat /\ free' = free + 1 + Cardinality(tables[m])
    BY <1>0 DEF IInv, TypeOK
  <2>. QED  BY <2>1, <2>2, <2>3, CountFacts DEF IInv, FramesConserved
<1>9. Spaces'
  <2>1. NoPages' = NoPages
    BY DEF NoPages
  <2>. QED  BY <1>1, <1>2, <2>1 DEF IInv, Spaces
<1>10. Rights'
  <2>1. ASSUME NEW a \in Mm, NEW q \in Page, <<a, q>> \in rw'
        PROVE  frame'[a][q] # None /\ vma'[a][q] = "rw"
    <3>1. a # m /\ <<a, q>> \in rw
      BY <1>0, <2>1
    <3>. QED  BY <1>1, <3>1 DEF IInv, Rights
  <2>2. ASSUME NEW q \in Page, tlb'[q].rw PROVE tlb'[q].frame # None /\ vma'[cr3'][q] = "rw"
    <3>1. tlb[q].frame # None /\ vma[cr3][q] = "rw" /\ cr3 \in Mm
      BY <1>0, <2>2 DEF IInv, TypeOK, Rights, TlbNamesLoadedFrames
    <3>. QED  BY <1>0, <1>1, <1>5, <3>1
  <2>. QED  BY <2>1, <2>2 DEF Rights
<1>. QED  BY <1>3, <1>4, <1>6, <1>7, <1>8, <1>9, <1>10 DEF IInv
-----------------------------------------------------------------------------
LEMMA NextIInv == IInv /\ [Next]_vars => IInv'
<1>. SUFFICES ASSUME IInv, [Next]_vars PROVE IInv'
  OBVIOUS
<1>1. CASE UNCHANGED vars
  BY <1>1 DEF vars, IInv, TypeOK, RefExact, Holders, Given, Alone, Sole, TlbNamesLoadedFrames,
             FramesConserved, Live, PageTables, InUse, Spaces, NoPages, Rights
<1>2. CASE RunKernel
  BY <1>2, RunIInv
<1>3. ASSUME NEW m \in Mm, NEW layout \in Layout, NEW D \in SUBSET Page, NEW image \in [D -> Value],
             Exec(m, layout, image)
      PROVE  IInv'
  <2>1. DOMAIN image = D
    OBVIOUS
  <2>2. DOMAIN image \subseteq Page /\ image \in [DOMAIN image -> Value]
    BY <2>1
  <2>. QED  BY <1>3, <2>2, ExecIInv
<1>4. ASSUME NEW m \in Mm, RunTask(m) PROVE IInv'
  BY <1>4, RunIInv
<1>5. ASSUME NEW m \in Mm, NEW c \in Mm, Fork(m, c) PROVE IInv'
  BY <1>5, ForkIInv
<1>6. ASSUME NEW m \in Mm, ForkFails(m) \/ ForkNoTask(m) PROVE IInv'
  BY <1>6, ForkFailsIInv
<1>7. ASSUME NEW m \in Mm, DestroyBegin(m) PROVE IInv'
  BY <1>7, DestroyBeginIInv
<1>8. ASSUME NEW m \in Mm, NEW p \in Page, DestroyPage(m, p) PROVE IInv'
  BY <1>8, DestroyPageIInv
<1>9. ASSUME NEW m \in Mm, DestroyEnd(m) PROVE IInv'
  BY <1>9, DestroyEndIInv
<1>10. ASSUME NEW p \in Page, WalkTables(p) PROVE IInv'
  BY <1>10, WalkTablesIInv
<1>11. ASSUME NEW p \in Page, NEW v \in Value, Store(p, v) PROVE IInv'
  BY <1>11, StoreIInv
<1>12. ASSUME NEW p \in Page, CowReuse(p) PROVE IInv'
  BY <1>12, CowReuseIInv
<1>13. ASSUME NEW p \in Page, CowCopy(p) PROVE IInv'
  BY <1>13, CowCopyIInv
<1>14. ASSUME NEW p \in Page, CowFails(p) \/ \E write \in BOOLEAN : Segv(p, write) PROVE IInv'
  BY <1>14, KilledIInv
<1>15. ASSUME NEW p \in Page, NEW write \in BOOLEAN, DemandPage(p, write) PROVE IInv'
  BY <1>15, DemandPageIInv
<1>16. ASSUME NEW p \in Page, NEW write \in BOOLEAN, DemandFails(p, write) PROVE IInv'
  BY <1>16, DemandFailsIInv
<1>. QED  BY <1>1, <1>2, <1>3, <1>4, <1>5, <1>6, <1>7, <1>8, <1>9, <1>10, <1>11, <1>12, <1>13,
             <1>14, <1>15, <1>16 DEF Next

(* No step of the processor, of a fault, of fork or of kMmDestroy leaves   *)
(* the inductive invariant.                                                *)
THEOREM InvariantHolds == Spec => []IInv
<1>. QED  BY InitIInv, NextIInv, PTL DEF Spec

(* Every variable keeps its type.                                          *)
THEOREM TypeCorrect == Spec => []TypeOK
<1>1. IInv => TypeOK
  BY DEF IInv
<1>. QED  BY <1>1, InvariantHolds, PTL

(* iRefCount is the number of PTEs that name the frame, and a translation  *)
(* that allows stores, also one left in the TLB, names a frame nobody else *)
(* maps: fork (mm_struct.c:215) and kCowFault (fault.c:61) never let two   *)
(* programs share a writable frame.                                        *)
THEOREM SharingStaysExact == Spec => []SharingExact
<1>1. IInv => SharingExact
  <2>. SUFFICES ASSUME IInv PROVE SharingExact
    OBVIOUS
  <2>1. ASSUME NEW f, NEW m \in Mm, NEW p \in Page, frame[m][p] = f, ~Given(m, p), Sole(f, m, p)
        PROVE  Holders(f) = {<<m, p>>}
    <3>1. \A n \in Mm, q \in Page : <<n, q>> \in Holders(f) <=> <<n, q>> \in {<<m, p>>}
      <4>1. ASSUME NEW n \in Mm, NEW q \in Page
            PROVE  <<n, q>> \in Holders(f) <=> n = m /\ q = p
        BY <2>1 DEF Sole, Holders
      <4>. QED  BY <4>1
    <3>2. Holders(f) \subseteq Mm \X Page /\ {<<m, p>>} \subseteq Mm \X Page
      BY HolderFacts
    <3>. QED  BY <3>1, <3>2, SamePairs
  <2>2. ASSUME NEW x \in rw, state[x[1]] # "dying" PROVE Holders(frame[x[1]][x[2]]) = {x}
    <3>1. x = <<x[1], x[2]>> /\ x[1] \in Mm /\ x[2] \in Page
      BY DEF IInv, TypeOK
    <3>2. Sole(frame[x[1]][x[2]], x[1], x[2]) /\ ~Given(x[1], x[2])
      BY <2>2, <3>1 DEF IInv, Alone, Given
    <3>. QED  BY <2>1, <3>1, <3>2
  <2>3. ASSUME NEW p \in Page, tlb[p].rw PROVE Holders(tlb[p].frame) = {<<cr3, p>>}
    <3>1. cr3 \in Mm /\ tlb[p].frame = frame[cr3][p] /\ Sole(tlb[p].frame, cr3, p) /\ ~Given(cr3, p)
      BY <2>3 DEF IInv, TypeOK, Rights, Alone, TlbNamesLoadedFrames, Given
    <3>. QED  BY <2>1, <3>1
  <2>. QED  BY <2>2, <2>3 DEF IInv, SharingExact, StoresArePrivate
<1>. QED  BY <1>1, InvariantHolds, PTL

(* A translation in the TLB is one of the loaded PML4, and the loaded PML4 *)
(* is never one that kMmDestroy takes apart (kSwitchAddressSpace,          *)
(* mm_struct.c's kMmDestroy).                                              *)
THEOREM TlbStaysTrue == Spec => []TlbNamesLoadedFrames
<1>1. IInv => TlbNamesLoadedFrames
  BY DEF IInv
<1>. QED  BY <1>1, InvariantHolds, PTL

(* g_qwFreePages and the frames in use add up to the frames there are: no  *)
(* path of a fault, of fork or of kMmDestroy, failing ones included, loses *)
(* a frame.                                                                *)
THEOREM NoFrameIsLost == Spec => []FramesConserved
<1>1. IInv => FramesConserved
  BY DEF IInv
<1>. QED  BY <1>1, InvariantHolds, PTL

(* kMmDestroy gives back no frame that is free already, as long as nobody  *)
(* frees a mapped frame behind its back: kUserTest does (console_shell.c:  *)
(* 1154), and is not a step of this specification.                         *)
THEOREM NoFrameFreedTwice == Spec => []NoDoubleFree
<1>1. IInv => NoDoubleFree
  <2>. SUFFICES ASSUME IInv, NEW m \in Live, NEW p \in Page, p \in Mapped(m), ~Given(m, p)
                PROVE  ref[frame[m][p]] > 0
    BY DEF NoDoubleFree
  <2>1. m \in Mm /\ frame[m][p] \in Frame
    BY DEF IInv, TypeOK, Live, Mapped
  <2>. QED  BY <2>1, UsedFacts DEF IInv
<1>. QED  BY <1>1, InvariantHolds, PTL
-----------------------------------------------------------------------------
(* The private memories that the address spaces implement.                 *)
Alive(m) == state[m] \in {"ready", "zombie"}
Cell(m, p) == IF frame[m][p] = None THEN Zero ELSE data[frame[m][p]]
MemoryOf == [m \in Mm |-> IF state[m] \in {"ready", "zombie"} THEN Contents(m) ELSE None]
AccessOf == [m \in Mm |-> IF state[m] \in {"ready", "zombie"} THEN vma[m] ELSE None]

(* What a step leaves of the address space n as its program sees it.       *)
Kept(n) == MemoryOf'[n] = MemoryOf[n] /\ AccessOf'[n] = AccessOf[n]

LEMMA ContentsFacts ==
  ASSUME TypeOK, NEW m \in Mm
  PROVE  /\ Contents(m) \in [Page -> Value] /\ Contents(m) # None
         /\ \A p \in Page : Contents(m)[p] = Cell(m, p)
         /\ MemoryOf[m] = IF Alive(m) THEN Contents(m) ELSE None
         /\ AccessOf[m] = IF Alive(m) THEN vma[m] ELSE None
<1>1. Contents(m) \in [Page -> Value]
  BY DEF TypeOK, Contents
<1>2. \A p \in Page : Contents(m)[p] = Cell(m, p)
  BY DEF Contents, Cell
<1>. QED  BY <1>1, <1>2 DEF MemoryOf, AccessOf, Alive

LEMMA SameContents ==
  ASSUME TypeOK, TypeOK', NEW m \in Mm, NEW n \in Mm,
         \A p \in Page : Cell(n, p)' = Cell(m, p)
  PROVE  Contents(n)' = Contents(m)
BY DEF Contents, Cell

LEMMA KeptFacts ==
  ASSUME TypeOK, TypeOK', NEW n \in Mm,
         Alive(n)' <=> Alive(n),
         Alive(n) => vma'[n] = vma[n] /\ \A p \in Page : Cell(n, p)' = Cell(n, p)
  PROVE  Kept(n)
<1>1. Alive(n) => Contents(n)' = Contents(n)
  BY SameContents
<1>. QED  BY <1>1 DEF Kept, MemoryOf, AccessOf, Alive

LEMMA AllKept ==
  ASSUME \A n \in Mm : Kept(n)
  PROVE  UNCHANGED <<MemoryOf, AccessOf>>
BY DEF Kept, MemoryOf, AccessOf

(* A step that changes one address space only.                             *)
LEMMA OneChanged ==
  ASSUME NEW m \in Mm, \A n \in Mm : n # m => Kept(n)
  PROVE  /\ MemoryOf' = [MemoryOf EXCEPT ![m] = MemoryOf'[m]]
         /\ AccessOf' = [AccessOf EXCEPT ![m] = AccessOf'[m]]
BY DEF Kept, MemoryOf, AccessOf

(* A free frame is mapped by nobody who runs.                              *)
LEMMA FreeFrames ==
  ASSUME IInv, NEW f \in Frame, ref[f] = 0, NEW n \in Mm, Alive(n), NEW p \in Page
  PROVE  frame[n][p] # f
<1>1. ~Given(n, p) /\ ~(ref[f] > 0)
  BY DEF Given, Alive
<1>. QED  BY <1>1, UsedFacts DEF IInv

(* The steps that change nothing a program sees.                           *)
LEMMA StutterSteps ==
  ASSUME IInv, IInv',
         \/ RunKernel
         \/ \E m \in Mm : \/ RunTask(m) \/ ForkFails(m) \/ ForkNoTask(m)
                          \/ \E p \in Page : DestroyPage(m, p)
         \/ \E p \in Page : \/ WalkTables(p) \/ CowReuse(p) \/ CowFails(p)
                            \/ \E write \in BOOLEAN : Segv(p, write) \/ DemandFails(p, write)
  PROVE  UNCHANGED <<MemoryOf, AccessOf>>
<1>1. UNCHANGED <<vma, frame, data>>
  BY DEF RunKernel, RunTask, ForkFails, ForkNoTask, DestroyPage, WalkTables, CowReuse, CowFails,
         Segv, DemandFails, Kill
<1>2. ASSUME NEW n \in Mm PROVE Alive(n)' <=> Alive(n)
  <2>1. CASE state' = state
    BY <2>1 DEF Alive
  <2>2. CASE \E p \in Page, write \in BOOLEAN : Faults(p, write) /\ Kill
    <3>1. cur \in Mm /\ state[cur] = "ready" /\ state' = [state EXCEPT ![cur] = "zombie"]
      BY <2>2, FaultFacts DEF Kill
    <3>. QED  BY <3>1 DEF IInv, TypeOK, Alive
  <2>. QED  BY <2>1, <2>2 DEF RunKernel, RunTask, ForkFails, ForkNoTask, DestroyPage, WalkTables,
                              CowReuse, CowFails, Segv, DemandFails
<1>3. ASSUME NEW n \in Mm PROVE Kept(n)
  BY <1>1, <1>2, KeptFacts DEF IInv, Cell
<1>. QED  BY <1>3, AllKept

(* A fault that maps a frame shows the program what it saw before: zeroes, *)
(* or the copy of what it shared.                                          *)
LEMMA MapSteps ==
  ASSUME IInv, IInv', NEW p \in Page,
         CowCopy(p) \/ \E write \in BOOLEAN : DemandPage(p, write)
  PROVE  UNCHANGED <<MemoryOf, AccessOf>>
<1>1. PICK write \in BOOLEAN : Faults(p, write)
  BY DEF CowCopy, DemandPage
<1>2. cur \in Mm /\ UNCHANGED <<state, vma>>
  BY <1>1, FaultFacts DEF CowCopy, DemandPage
<1>3. PICK f \in Frame : /\ ref[f] = 0
                         /\ frame' = [frame EXCEPT ![cur][p] = f]
                         /\ data' = [data EXCEPT ![f] = Cell(cur, p)]
  BY DEF CowCopy, DemandPage, Cell
<1>4. /\ \A n \in Mm, q \in Page : ~(n = cur /\ q = p) => frame'[n][q] = frame[n][q]
      /\ frame'[cur][p] = f /\ f # None
      /\ data'[f] = Cell(cur, p)
      /\ \A g \in Frame : g # f => data'[g] = data[g]
  BY <1>2, <1>3 DEF IInv, TypeOK
<1>5. ASSUME NEW n \in Mm PROVE Kept(n)
  <2>1. ASSUME Alive(n), NEW q \in Page PROVE Cell(n, q)' = Cell(n, q)
    <3>1. CASE n = cur /\ q = p
      BY <1>4, <3>1 DEF Cell
    <3>2. CASE ~(n = cur /\ q = p)
      <4>1. frame'[n][q] = frame[n][q] /\ frame[n][q] # f /\ frame[n][q] \in Frame \union {None}
        BY <1>3, <1>4, <2>1, <3>2, FreeFrames DEF IInv, TypeOK
      <4>. QED  BY <1>4, <4>1 DEF Cell
    <3>. QED  BY <3>1, <3>2
  <2>. QED  BY <1>2, <2>1, KeptFacts DEF IInv, Alive
<1>. QED  BY <1>5, AllKept

LEMMA DestroyEndStep ==
  ASSUME IInv, IInv', NEW m \in Mm, DestroyEnd(m)
  PROVE  UNCHANGED <<MemoryOf, AccessOf>>
<1>1. ASSUME NEW n \in Mm PROVE Kept(n)
  <2>1. CASE n = m
    <3>1. ~Alive(n) /\ ~Alive(n)'
      BY <2>1 DEF DestroyEnd, Alive, IInv, TypeOK
    <3>. QED  BY <3>1, KeptFacts DEF IInv
  <2>2. CASE n # m
    <3>1. state'[n] = state[n] /\ vma'[n] = vma[n] /\ frame'[n] = frame[n] /\ data' = data
      BY <2>2 DEF DestroyEnd, IInv, TypeOK
    <3>. QED  BY <3>1, KeptFacts DEF IInv, Alive, Cell
  <2>. QED  BY <2>1, <2>2
<1>. QED  BY <1>1, AllKept

(* A store goes to the page it names, and to nobody else's.                *)
LEMMA StoreStep ==
  ASSUME IInv, IInv', NEW m \in Mm, cur = m, NEW p \in Page, NEW v \in Value, Store(p, v)
  PROVE  Memory!Next
<1>1. /\ cr3 = m /\ state[m] = "ready"
      /\ UNCHANGED <<state, vma, frame>>
      /\ tlb[p].rw /\ tlb[p].frame = frame[m][p] /\ frame[m][p] \in Frame
      /\ data' = [data EXCEPT ![tlb[p].frame] = v]
  BY DEF Store, IInv, TypeOK, TlbNamesLoadedFrames, Rights
<1>2. /\ data'[frame[m][p]] = v
      /\ \A g \in Frame : g # frame[m][p] => data'[g] = data[g]
  BY <1>1 DEF IInv, TypeOK
<1>3. ASSUME NEW n \in Mm, NEW q \in Page, Alive(n), ~(n = m /\ q = p)
      PROVE  Cell(n, q)' = Cell(n, q)
  <2>1. frame[n][q] # frame[m][p]
    <3>1. Sole(frame[m][p], m, p)
      BY <1>1 DEF IInv, Alone
    <3>2. ~Given(n, q)
      BY <1>3 DEF Given, Alive
    <3>. QED  BY <1>3, <3>1, <3>2 DEF Sole
  <2>2. frame[n][q] = None \/ frame[n][q] \in Frame
    BY DEF IInv, TypeOK
  <2>. QED  BY <1>1, <1>2, <2>1, <2>2 DEF Cell
<1>4. ASSUME NEW n \in Mm, n # m PROVE Kept(n)
  BY <1>1, <1>3, <1>4, KeptFacts DEF IInv, Alive
<1>5. MemoryOf'[m] = [MemoryOf[m] EXCEPT ![p] = v] /\ MemoryOf[m] # None
  <2>1. MemoryOf[m] = Contents(m) /\ MemoryOf'[m] = Contents(m)' /\ Contents(m) # None
    BY <1>1, ContentsFacts DEF IInv, MemoryOf, Alive
  <2>2. Contents(m)' = [q \in Page |-> IF q = p THEN v ELSE Cell(m, q)]
    <3>1. Cell(m, p)' = v
      BY <1>1, <1>2 DEF Cell
    <3>2. \A q \in Page : q # p => Cell(m, q)' = Cell(m, q)
      BY <1>1, <1>3 DEF Alive
    <3>. QED  BY <3>1, <3>2 DEF Contents, Cell
  <2>3. Contents(m) = [q \in Page |-> Cell(m, q)]
    BY DEF Contents, Cell
  <2>4. Contents(m)' = [Contents(m) EXCEPT ![p] = v]
    <3>1. [[q \in Page |-> Cell(m, q)] EXCEPT ![p] = v]
            = [q \in Page |-> IF q = p THEN v ELSE Cell(m, q)]
      OBVIOUS
    <3>. QED  BY <2>2, <2>3, <3>1, Zenon
  <2>. QED  BY <2>1, <2>4, Zenon
<1>6. AccessOf'[m] = AccessOf[m] /\ AccessOf[m][p] = "rw"
  BY <1>1 DEF AccessOf, IInv, Rights
<1>7. MemoryOf' = [MemoryOf EXCEPT ![m][p] = v]
  BY <1>1, <1>4, <1>5, OneChanged
<1>8. AccessOf' = AccessOf
  <2>1. \A n \in Mm : AccessOf'[n] = AccessOf[n]
    BY <1>4, <1>6 DEF Kept
  <2>. QED  BY <2>1 DEF AccessOf
<1>9. Memory!Store(m)
  <2>1. \E q \in Page, w \in Value :
          AccessOf[m][q] = "rw" /\ MemoryOf' = [MemoryOf EXCEPT ![m][q] = w]
    BY <1>6, <1>7
  <2>. QED  BY <1>5, <1>8, <2>1, Zenon DEF Memory!Store, MemoryOf, AccessOf
<1>. QED  BY <1>9 DEF Memory!Next

(* A forked child starts with the memory of its parent.                    *)
LEMMA ForkStep ==
  ASSUME IInv, IInv', NEW m \in Mm, NEW c \in Mm, Fork(m, c)
  PROVE  Memory!Next
<1>1. /\ state[m] = "ready" /\ state[c] = "none" /\ c # m
      /\ state' = [state EXCEPT ![c] = "ready"]
      /\ vma' = [vma EXCEPT ![c] = vma[m]]
      /\ frame' = [frame EXCEPT ![c] = frame[m]]
      /\ data' = data
  BY DEF Fork, IInv, TypeOK, TlbNamesLoadedFrames
<1>2. /\ \A n \in Mm : n # c => state'[n] = state[n] /\ vma'[n] = vma[n] /\ frame'[n] = frame[n]
      /\ state'[c] = "ready" /\ vma'[c] = vma[m] /\ frame'[c] = frame[m]
  BY <1>1 DEF IInv, TypeOK
<1>3. ASSUME NEW n \in Mm, n # c PROVE Kept(n)
  <2>1. TypeOK /\ TypeOK'
    BY DEF IInv
  <2>2. Alive(n)' <=> Alive(n)
    BY <1>2, <1>3 DEF Alive
  <2>3. vma'[n] = vma[n] /\ \A p \in Page : Cell(n, p)' = Cell(n, p)
    BY <1>1, <1>2, <1>3 DEF Cell
  <2>. QED  BY <2>1, <2>2, <2>3, KeptFacts
<1>4. Contents(c)' = Contents(m)
  BY <1>1, <1>2, SameContents DEF IInv, Cell
<1>5. /\ MemoryOf[m] # None /\ MemoryOf[c] = None
      /\ MemoryOf'[c] = MemoryOf[m] /\ AccessOf'[c] = AccessOf[m]
  BY <1>1, <1>2, <1>4, ContentsFacts DEF IInv, MemoryOf, AccessOf
<1>6. /\ MemoryOf' = [MemoryOf EXCEPT ![c] = MemoryOf[m]]
      /\ AccessOf' = [AccessOf EXCEPT ![c] = AccessOf[m]]
  BY <1>3, <1>5, OneChanged
<1>7. Memory!Fork(m, c)
  BY <1>5, <1>6 DEF Memory!Fork, MemoryOf, AccessOf
<1>. QED  BY <1>7 DEF Memory!Next

(* A program starts with its image, and zeroes where it has none.          *)
LEMMA ExecStep ==
  ASSUME IInv, IInv', NEW m \in Mm, NEW layout \in Layout, NEW image,
         DOMAIN image \subseteq Page, image \in [DOMAIN image -> Value],
         Exec(m, layout, image)
  PROVE  Memory!Next
<1>. DEFINE D == DOMAIN image
            start == [p \in Page |-> IF p \in D THEN image[p] ELSE Zero]
<1>0. D \subseteq Page /\ image \in [D -> Value]
  OBVIOUS
<1>1. /\ state[m] = "none" /\ \A p \in D : layout[p] # "none"
      /\ state' = [state EXCEPT ![m] = "ready"] /\ vma' = [vma EXCEPT ![m] = layout]
  BY DEF Exec
<1>2. PICK home \in Injection(D, {f \in Frame : ref[f] = 0}) :
        /\ frame' = [frame EXCEPT ![m] = [p \in Page |-> IF p \in D THEN home[p] ELSE None]]
        /\ data' = [f \in Frame |-> IF f \in {home[p] : p \in D}
                                    THEN image[CHOOSE p \in D : home[p] = f] ELSE data[f]]
  BY Zenon DEF Exec
<1>. HIDE DEF D
<1>3. /\ \A p \in D : home[p] \in Frame /\ ref[home[p]] = 0 /\ home[p] # None
      /\ \A p, q \in D : home[p] = home[q] => p = q
  BY DEF Injection, IsInjective
<1>4. /\ \A n \in Mm : n # m => state'[n] = state[n] /\ vma'[n] = vma[n] /\ frame'[n] = frame[n]
      /\ state'[m] = "ready" /\ vma'[m] = layout
      /\ frame'[m] = [p \in Page |-> IF p \in D THEN home[p] ELSE None]
  BY <1>1, <1>2 DEF IInv, TypeOK
<1>5. ASSUME NEW n \in Mm, n # m PROVE Kept(n)
  <2>1. ASSUME Alive(n), NEW q \in Page PROVE Cell(n, q)' = Cell(n, q)
    <3>1. frame[n][q] \notin {home[p] : p \in D} /\ frame[n][q] \in Frame \union {None}
      BY <1>3, <2>1, FreeFrames DEF IInv, TypeOK
    <3>2. frame[n][q] # None => data'[frame[n][q]] = data[frame[n][q]]
      BY <1>2, <3>1
    <3>. QED  BY <1>4, <1>5, <3>2 DEF Cell
  <2>. QED  BY <1>4, <1>5, <2>1, KeptFacts DEF IInv, Alive
<1>6. Contents(m)' = start
  <2>1. ASSUME NEW q \in D PROVE data'[home[q]] = image[q]
    <3>1. (CHOOSE p \in D : home[p] = home[q]) = q
      BY <1>3
    <3>. QED  BY <1>2, <1>3, <3>1
  <2>2. ASSUME NEW q \in Page PROVE Cell(m, q)' = start[q]
    <3>1. CASE q \in D
      BY <1>3, <1>4, <2>1, <3>1 DEF Cell
    <3>2. CASE q \notin D
      BY <1>4, <3>2 DEF Cell
    <3>. QED  BY <3>1, <3>2
  <2>. QED  BY <2>2 DEF Contents, Cell
<1>7. /\ MemoryOf[m] = None /\ MemoryOf'[m] = start /\ AccessOf'[m] = layout
  BY <1>1, <1>4, <1>6 DEF MemoryOf, AccessOf
<1>8. start \in [Page -> Value] /\ \A p \in Page : layout[p] = "none" => start[p] = Zero
  BY <1>0, <1>1
<1>. HIDE DEF start
<1>9. /\ MemoryOf' = [MemoryOf EXCEPT ![m] = start]
      /\ AccessOf' = [AccessOf EXCEPT ![m] = layout]
  BY <1>5, <1>7, OneChanged
<1>10. Memory!Exec(m)
  <2>1. \E l \in Layout, i \in [Page -> Value] :
          /\ \A p \in Page : l[p] = "none" => i[p] = Zero
          /\ MemoryOf' = [MemoryOf EXCEPT ![m] = i]
          /\ AccessOf' = [AccessOf EXCEPT ![m] = l]
    BY <1>8, <1>9
  <2>. QED  BY <1>7, <2>1, Zenon DEF Memory!Exec, MemoryOf, AccessOf
<1>. QED  BY <1>10 DEF Memory!Next

(* A program's memory is gone as soon as kMmDestroy begins.                *)
LEMMA EndStep ==
  ASSUME IInv, IInv', NEW m \in Mm, DestroyBegin(m)
  PROVE  Memory!Next
<1>1. /\ state[m] \in {"ready", "zombie"} /\ state' = [state EXCEPT ![m] = "dying"]
      /\ UNCHANGED <<vma, frame, data>>
  BY DEF DestroyBegin
<1>2. /\ \A n \in Mm : n # m => state'[n] = state[n]
      /\ state'[m] = "dying"
  BY <1>1 DEF IInv, TypeOK
<1>3. ASSUME NEW n \in Mm, n # m PROVE Kept(n)
  BY <1>1, <1>2, <1>3, KeptFacts DEF IInv, Alive, Cell
<1>4. MemoryOf[m] # None
  BY <1>1, ContentsFacts DEF IInv, Alive
<1>5. MemoryOf'[m] = None /\ AccessOf'[m] = None
  BY <1>2 DEF MemoryOf, AccessOf
<1>6. /\ MemoryOf' = [MemoryOf EXCEPT ![m] = None]
      /\ AccessOf' = [AccessOf EXCEPT ![m] = None]
  BY <1>3, <1>5, OneChanged
<1>7. Memory!End(m)
  BY <1>4, <1>6 DEF Memory!End, MemoryOf, AccessOf
<1>. QED  BY <1>7 DEF Memory!Next

LEMMA MemoryStep == IInv /\ IInv' /\ [Next]_vars => [Memory!Next]_<<MemoryOf, AccessOf>>
<1>. SUFFICES ASSUME IInv, IInv', [Next]_vars
              PROVE  Memory!Next \/ UNCHANGED <<MemoryOf, AccessOf>>
  OBVIOUS
<1>1. CASE UNCHANGED vars
  BY <1>1 DEF vars, MemoryOf, AccessOf, Contents
<1>2. CASE RunKernel
  BY <1>2, StutterSteps
<1>3. ASSUME NEW m \in Mm, \E layout \in Layout, D \in SUBSET Page :
                             \E image \in [D -> Value] : Exec(m, layout, image)
      PROVE  Memory!Next
  <2>1. PICK layout \in Layout, D \in SUBSET Page :
          \E image \in [D -> Value] : Exec(m, layout, image)
    BY <1>3
  <2>2. PICK image \in [D -> Value] : Exec(m, layout, image)
    BY <2>1
  <2>3. DOMAIN image = D
    OBVIOUS
  <2>4. DOMAIN image \subseteq Page /\ image \in [DOMAIN image -> Value]
    BY <2>3
  <2>. QED  BY <2>2, <2>4, ExecStep
<1>4. ASSUME NEW m \in Mm, NEW c \in Mm, Fork(m, c) PROVE Memory!Next
  BY <1>4, ForkStep
<1>5. ASSUME NEW m \in Mm, RunTask(m) \/ ForkFails(m) \/ ForkNoTask(m)
                             \/ \E p \in Page : DestroyPage(m, p)
      PROVE  UNCHANGED <<MemoryOf, AccessOf>>
  BY <1>5, StutterSteps
<1>6. ASSUME NEW m \in Mm, DestroyBegin(m) PROVE Memory!Next
  BY <1>6, EndStep
<1>7. ASSUME NEW m \in Mm, DestroyEnd(m) PROVE UNCHANGED <<MemoryOf, AccessOf>>
  BY <1>7, DestroyEndStep
<1>8. ASSUME NEW p \in Page, NEW v \in Value, Store(p, v) PROVE Memory!Next
  <2>1. cur \in Mm
    BY <1>8 DEF Store, IInv, TypeOK
  <2>. QED  BY <1>8, <2>1, StoreStep
<1>9. ASSUME NEW p \in Page,
             WalkTables(p) \/ CowReuse(p) \/ CowFails(p)
               \/ \E write \in BOOLEAN : Segv(p, write) \/ DemandFails(p, write)
      PROVE  UNCHANGED <<MemoryOf, AccessOf>>
  BY <1>9, StutterSteps
<1>10. ASSUME NEW p \in Page, CowCopy(p) \/ \E write \in BOOLEAN : DemandPage(p, write)
       PROVE  UNCHANGED <<MemoryOf, AccessOf>>
  BY <1>10, MapSteps
<1>. QED  BY <1>1, <1>2, <1>3, <1>4, <1>5, <1>6, <1>7, <1>8, <1>9, <1>10 DEF Next

(* The address spaces implement private memories: a store (through a       *)
(* translation of the TLB) changes one page of its own program, fork       *)
(* copies the parent's memory although it copies no frame, and page        *)
(* faults, copy-on-write, failed forks and kMmDestroy change nothing any   *)
(* program reads.                                                          *)
THEOREM SpacesArePrivate == Spec => PrivateMemory
<1>1. Init => Memory!Init
  BY DEF Init, Memory!Init
<1>2. IInv /\ IInv' /\ [Next]_vars
        => [Memory!Next]_<<[m \in Mm |-> IF state[m] \in {"ready", "zombie"} THEN Contents(m) ELSE None],
                           [m \in Mm |-> IF state[m] \in {"ready", "zombie"} THEN vma[m] ELSE None]>>
  BY MemoryStep DEF MemoryOf, AccessOf
<1>. QED  BY <1>1, <1>2, InvariantHolds, PTL DEF Spec, PrivateMemory, Memory!Spec
=============================================================================
