--------------------------- MODULE Vmalloc_proofs ---------------------------
(***************************************************************************)
(* Proofs about module Vmalloc, for any number of callers, pages, frames   *)
(* and descriptors: as long as no call of kVmapPages begins inside         *)
(* another, areas and their guard pages are apart, every page of an area   *)
(* has a frame of its own, a guard page has none, and no frame, page or    *)
(* descriptor is lost count of.                                            *)
(***************************************************************************)
EXTENDS Vmalloc, FiniteSetTheorems, TLAPS

USE VmallocAssumption

-----------------------------------------------------------------------------
Maps(c) == call[c].op \in {"map", "undo"}
Frees(c) == call[c].op = "free"
End(a) == a.va + a.count + a.after

(* TypeOK but for the counters and the tables, which nothing here needs.   *)
Typed ==
  /\ nextFree \in 0 .. Window
  /\ area \in [Desc -> Area] /\ listed \subseteq Desc
  /\ spare \subseteq Desc \ listed /\ slabs \in Nat
  /\ pte \in [Page -> Frames \union {None}] /\ tlb \in [Page -> Frames \union {None}]
  /\ free \subseteq Frames /\ lost \subseteq Frames
  /\ call \in [Callers -> Calls]

(* Descriptors come from the slabs there are.                              *)
FromSlabs == \A d \in spare \union listed : d <= slabs * PerSlab

(* One context at most is in kVmapPages; its descriptor is nobody else's,  *)
(* and its area begins where the next one is to begin.                     *)
OneMaps == \A c, e \in Callers : Maps(c) /\ Maps(e) => c = e

MapsAtEnd ==
  \A c \in Callers : Maps(c) =>
    /\ call[c].desc \notin spare \union listed /\ call[c].desc <= slabs * PerSlab
    /\ call[c].new.start = nextFree
    /\ call[c].new.start + call[c].new.before = call[c].new.va
    /\ End(call[c].new) < Window
    /\ call[c].i <= call[c].new.count

(* Who frees an area holds its descriptor alone, and it is still listed.   *)
FreesListed ==
  \A c \in Callers : Frees(c) =>
    /\ call[c].desc \in listed /\ call[c].new = area[call[c].desc]
    /\ call[c].i <= call[c].new.count
    /\ \A e \in Callers : Frees(e) /\ call[e].desc = call[c].desc => e = c

(* Listed areas lie below nextFree, one after the other.                   *)
AreasApart ==
  /\ \A d \in listed : area[d].start + area[d].before = area[d].va /\ End(area[d]) <= nextFree
  /\ \A d, e \in listed : d # e => \/ End(area[d]) <= area[e].start
                                   \/ End(area[e]) <= area[d].start

(* Whose page it is: one that kVmapPages has mapped, or has still to take  *)
(* back, or one of a listed area that kVfree has not come to yet.          *)
MapperHas(c, p) ==
  \/ call[c].op = "map" /\ call[c].new.va <= p /\ p < call[c].new.va + call[c].i
  \/ call[c].op = "undo" /\ call[c].new.va + call[c].i <= p /\ p < call[c].new.va + call[c].new.count

AreaHas(d, p) ==
  /\ d \in listed /\ area[d].va <= p /\ p < area[d].va + area[d].count
  /\ \A c \in Callers : Frees(c) /\ call[c].desc = d => area[d].va + call[c].i <= p

Has(p) == (\E c \in Callers : MapperHas(c, p)) \/ (\E d \in Desc : AreaHas(d, p))

Backed ==
  /\ \A p \in Page : /\ tlb[p] \in {None, pte[p]} \union lost
                     /\ pte[p] # None => Has(p) \/ pte[p] \in lost
                     /\ Has(p) => pte[p] # None /\ pte[p] \notin free
  /\ \A p, q \in Page : Has(p) /\ Has(q) /\ pte[p] = pte[q] => p = q

Good ==
  Typed /\ FromSlabs /\ OneMaps /\ MapsAtEnd /\ FreesListed /\ AreasApart /\ Backed
IInv == ~raced => Good

(* The frames that are not free, one by one: behind a page that somebody   *)
(* has, a page table, a slab, or lost; no frame is two of these.           *)
Owners == {p \in Page : Has(p)}
AllTables == {Table(p) : p \in Page}

FramesTally ==
  /\ Tables0 \subseteq tables /\ tables \subseteq AllTables
  /\ IsFiniteSet(Frames \ free) /\ IsFiniteSet(lost) /\ lost \cap free = {}
  /\ \A p \in Owners : pte[p] \notin lost
  /\ Cardinality(Frames \ free)
       = Cardinality(Owners) + Cardinality(tables \ Tables0) + slabs + Cardinality(lost)

(* g_qwMappedPages counts the pages of the listed areas.                   *)
ListedPages == UNION {Body(area[d]) : d \in listed}
PagesTally == mappedPages \in Nat /\ mappedPages = Cardinality(ListedPages)

(* Every descriptor of the slabs is spare, listed, or held by kVmapPages.  *)
Held == {call[c].desc : c \in {e \in Callers : Maps(e)}}
DescTally == spare \union listed \union Held = {d \in Desc : d <= slabs * PerSlab}

Tally == FramesTally /\ PagesTally /\ DescTally
Tallied == ~raced => Tally

(* A step that moves no page from one to another; the frames behind the    *)
(* pages that a call has mapped so far.                                    *)
SameOwners == \A q \in Page : Has(q)' <=> Has(q)
LeftBy(c) == {pte[call[c].new.va + j] : j \in 0 .. call[c].i - 1}
-----------------------------------------------------------------------------
(* The fields of a call and of an area.                                    *)
LEMMA CallFacts ==
  ASSUME Typed, NEW c \in Callers, Maps(c) \/ Frees(c)
  PROVE  /\ call[c] \in [op : {"map", "undo", "free"}, desc : Desc, i : Nat, new : Area]
         /\ call[c].desc \in Desc /\ call[c].i \in Nat /\ call[c].new \in Area
         /\ call[c].new.start \in Nat /\ call[c].new.va \in Nat /\ call[c].new.count \in Nat
         /\ call[c].new.before \in Nat /\ call[c].new.after \in Nat
         /\ End(call[c].new) \in Nat
<1>1. call[c] \in Calls /\ call[c] # Idle
  BY DEF Typed, Maps, Frees, Idle
<1>2. call[c] \in [op : {"map", "undo", "free"}, desc : Desc, i : Nat, new : Area]
  BY <1>1 DEF Calls
<1>. QED  BY <1>2 DEF Area, End

LEMMA AreaFacts ==
  ASSUME Typed, NEW d \in Desc
  PROVE  /\ area[d] \in Area
         /\ area[d].start \in Nat /\ area[d].va \in Nat /\ area[d].count \in Nat
         /\ area[d].before \in Nat /\ area[d].after \in Nat
         /\ End(area[d]) \in Nat
<1>1. area[d] \in Area
  BY DEF Typed
<1>. QED  BY <1>1 DEF Area, End

(* A page belongs to one context or area: whose it is can be told from     *)
(* where it is.                                                            *)
LEMMA HasOne ==
  ASSUME Good, NEW p \in Page
  PROVE  /\ \A c \in Callers : MapperHas(c, p) => nextFree <= p
         /\ \A d \in Desc : AreaHas(d, p) => p < nextFree
         /\ \A d, e \in Desc : AreaHas(d, p) /\ AreaHas(e, p) => d = e
         /\ \A c, e \in Callers : MapperHas(c, p) /\ MapperHas(e, p) => c = e
<1>0. p \in Nat /\ nextFree \in Nat
  BY DEF Page, Good, Typed
<1>1. ASSUME NEW c \in Callers, MapperHas(c, p) PROVE nextFree <= p /\ Maps(c)
  <2>1. Maps(c)
    BY <1>1 DEF MapperHas, Maps
  <2>2. /\ call[c].i \in Nat /\ call[c].new.start \in Nat /\ call[c].new.va \in Nat
        /\ call[c].new.before \in Nat
    BY <2>1, CallFacts DEF Good
  <2>3. call[c].new.start = nextFree /\ call[c].new.start + call[c].new.before = call[c].new.va
    BY <2>1 DEF Good, MapsAtEnd
  <2>. QED  BY <1>0, <1>1, <2>1, <2>2, <2>3 DEF MapperHas
<1>2. ASSUME NEW d \in Desc, AreaHas(d, p)
      PROVE  d \in listed /\ p < nextFree /\ area[d].start <= p /\ p < End(area[d])
  <2>1. d \in listed /\ area[d].va <= p /\ p < area[d].va + area[d].count
    BY <1>2 DEF AreaHas
  <2>2. area[d].start + area[d].before = area[d].va /\ End(area[d]) <= nextFree
    BY <2>1 DEF Good, AreasApart
  <2>. QED  BY <1>0, <2>1, <2>2, AreaFacts DEF Good, End
<1>3. ASSUME NEW d \in Desc, NEW e \in Desc, AreaHas(d, p), AreaHas(e, p), d # e PROVE FALSE
  <2>1. /\ area[d].start \in Nat /\ area[e].start \in Nat /\ End(area[d]) \in Nat
        /\ End(area[e]) \in Nat
    BY AreaFacts DEF Good
  <2>2. End(area[d]) <= area[e].start \/ End(area[e]) <= area[d].start
    BY <1>2, <1>3 DEF Good, AreasApart
  <2>. QED  BY <1>0, <1>2, <1>3, <2>1, <2>2
<1>. QED  BY <1>1, <1>2, <1>3 DEF Good, OneMaps

(* A step that moves no page from one to another.                          *)
LEMMA SameBacked ==
  ASSUME Backed, UNCHANGED <<pte, tlb>>, free' \subseteq free, lost' = lost,
         \A p \in Page : Has(p)' <=> Has(p)
  PROVE  Backed'
BY DEF Backed

(* What a step of context c leaves of the calls of the others.             *)
LEMMA OthersCalls ==
  ASSUME Typed, NEW c \in Callers, NEW r \in Calls, call' = [call EXCEPT ![c] = r]
  PROVE  /\ call' \in [Callers -> Calls] /\ call'[c] = r
         /\ \A e \in Callers : e # c => /\ call'[e] = call[e]
                                        /\ Maps(e)' = Maps(e) /\ Frees(e)' = Frees(e)
<1>1. call \in [Callers -> Calls]
  BY DEF Typed
<1>2. call' \in [Callers -> Calls] /\ call'[c] = r /\ \A e \in Callers : e # c => call'[e] = call[e]
  BY <1>1
<1>. QED  BY <1>2 DEF Maps, Frees
-----------------------------------------------------------------------------
LEMMA InitGood == Init => IInv
<1>. SUFFICES ASSUME Init PROVE Good
  BY DEF IInv
<1>1. call \in [Callers -> Calls] /\ \A c \in Callers : call[c].op = "none"
  BY DEF Init, Calls, Idle
<1>2. \A c \in Callers : ~Maps(c) /\ ~Frees(c)
  BY <1>1 DEF Maps, Frees
<1>3. \A p : ~Has(p)
  BY <1>1 DEF Has, MapperHas, AreaHas, Init
<1>4. Typed
  BY <1>1 DEF Init, Typed, Area, NoArea
<1>5. Backed
  BY <1>3 DEF Init, Backed
<1>. QED  BY <1>2, <1>4, <1>5 DEF Init, Good, FromSlabs, OneMaps, MapsAtEnd, FreesListed, AreasApart

LEMMA SlabFacts ==
  ASSUME slabs \in Nat
  PROVE  /\ slabs * PerSlab \in Nat /\ (slabs + 1) * PerSlab \in Nat
         /\ slabs * PerSlab <= (slabs + 1) * PerSlab
<1>1. slabs * PerSlab \in Nat
  OBVIOUS
<1>2. (slabs + 1) * PerSlab = slabs * PerSlab + PerSlab
  OBVIOUS
<1>. QED  BY <1>1, <1>2

LEMMA VmapStartGood ==
  ASSUME Good, ~raced', NEW c \in Callers, NEW n \in Counts, NEW g \in Guards, NEW d \in Desc,
         VmapStart(c, n, g, d)
  PROVE  Good' /\ SameOwners
<1>. DEFINE new == [start |-> nextFree, va |-> Begins(g), count |-> n,
                    before |-> g[1], after |-> g[2]]
            r == [op |-> "map", desc |-> d, i |-> 0, new |-> new]
<1>1. /\ call[c] = Idle /\ Fits(n, g) /\ CacheAlloc(d)
      /\ call' = [call EXCEPT ![c] = r]
      /\ InCall("map") \union InCall("undo") = {}
      /\ UNCHANGED <<nextFree, area, listed, pte, tlb, lost>>
  BY DEF VmapStart
<1>2. /\ n \in Nat /\ g[1] \in Nat /\ g[2] \in Nat /\ nextFree \in Nat
      /\ nextFree + g[1] + n + g[2] < Window
  BY <1>1 DEF Fits, Good, Typed
<1>3. new \in Area /\ r \in Calls
  BY <1>2 DEF Begins, Area, Calls
<1>4. /\ new.start = nextFree /\ new.start + new.before = new.va /\ End(new) < Window
      /\ new.count = n /\ r.op = "map" /\ r.desc = d /\ r.i = 0 /\ r.new = new
  BY <1>2 DEF Begins, End
<1>. HIDE DEF new, r
<1>5. /\ call' \in [Callers -> Calls] /\ call'[c] = r
      /\ \A e \in Callers : e # c => /\ call'[e] = call[e]
                                     /\ Maps(e)' = Maps(e) /\ Frees(e)' = Frees(e)
  BY <1>1, <1>3, OthersCalls DEF Good
<1>6. \A e \in Callers : ~Maps(e)
  BY <1>1 DEF InCall, Maps
<1>7. ~Frees(c) /\ ~Frees(c)'
  BY <1>1, <1>4, <1>5 DEF Frees, Idle
<1>8. /\ d \notin spare' \union listed /\ d <= slabs' * PerSlab
      /\ spare' \subseteq Desc \ listed /\ slabs' \in Nat /\ free' \subseteq free
      /\ \A e \in spare' \union listed : e <= slabs' * PerSlab
  <2>1. CASE spare # {} /\ d \in spare /\ spare' = spare \ {d} /\ UNCHANGED <<slabs, free>>
    BY <2>1 DEF Good, Typed, FromSlabs
  <2>2. CASE spare = {} /\ d \in NewSlab /\ spare' = NewSlab \ {d} /\ slabs' = slabs + 1
             /\ \E f \in free : free' = free \ {f}
    <3>1. slabs \in Nat /\ listed \subseteq Desc
      BY DEF Good, Typed
    <3>2. \A e \in NewSlab : e \in Desc /\ slabs * PerSlab < e /\ e <= (slabs + 1) * PerSlab
      BY DEF NewSlab
    <3>3. \A e \in listed : e \in Nat /\ e <= slabs * PerSlab
      BY <3>1 DEF Good, FromSlabs
    <3>4. \A e \in NewSlab : e \in Nat /\ e \notin listed
      <4>. DEFINE k == slabs * PerSlab
      <4>1. k \in Nat /\ (\A e \in NewSlab : e \in Nat /\ k < e) /\ (\A e \in listed : e <= k)
        BY <3>1, <3>2, <3>3, SlabFacts
      <4>. HIDE DEF k
      <4>. QED  BY <4>1
    <3>5. \A e \in listed : e <= (slabs + 1) * PerSlab
      BY <3>1, <3>3, SlabFacts
    <3>. QED  BY <2>2, <3>1, <3>2, <3>4, <3>5
  <2>. QED  BY <1>1, <2>1, <2>2 DEF CacheAlloc
<1>9. Typed' /\ FromSlabs'
  BY <1>1, <1>5, <1>8 DEF Good, Typed, FromSlabs
<1>10. OneMaps'
  BY <1>5, <1>6 DEF OneMaps
<1>11. MapsAtEnd'
  <2>1. ASSUME NEW e \in Callers, Maps(e)' PROVE e = c
    BY <1>5, <1>6, <2>1
  <2>2. call'[c].desc = d /\ call'[c].new = new /\ call'[c].i <= new.count
    BY <1>2, <1>4, <1>5
  <2>. QED  BY <1>1, <1>4, <1>8, <2>1, <2>2 DEF MapsAtEnd, End
<1>12. FreesListed'
  BY <1>1, <1>5, <1>7 DEF Good, FreesListed
<1>13. AreasApart'
  BY <1>1 DEF Good, AreasApart
<1>14. ASSUME NEW p \in Page PROVE Has(p)' <=> Has(p)
  <2>1. ~MapperHas(c, p) /\ ~MapperHas(c, p)'
    <3>1. new.va \in Nat /\ p \in Nat
      BY <1>3 DEF Area, Page
    <3>. QED  BY <1>1, <1>4, <1>5, <3>1 DEF MapperHas, Idle
  <2>2. ASSUME NEW e \in Callers, e # c PROVE MapperHas(e, p)' <=> MapperHas(e, p)
    BY <1>5, <2>2 DEF MapperHas
  <2>3. ASSUME NEW e \in Desc PROVE AreaHas(e, p)' <=> AreaHas(e, p)
    BY <1>1, <1>5, <1>7 DEF AreaHas
  <2>. QED  BY <2>1, <2>2, <2>3 DEF Has
<1>15. Backed'
  BY <1>1, <1>8, <1>14, SameBacked DEF Good
<1>. QED  BY <1>9, <1>10, <1>11, <1>12, <1>13, <1>14, <1>15 DEF Good, SameOwners

LEMMA VmapPageGood ==
  ASSUME Good, NEW c \in Callers, VmapPage(c)
  PROVE  /\ Good' /\ At(c) \in Page /\ ~Has(At(c))
         /\ \A q \in Page : Has(q)' <=> Has(q) \/ q = At(c)
<1>. DEFINE p == At(c)
            r == [call[c] EXCEPT !.i = @ + 1]
<1>1. /\ call[c].op = "map" /\ call[c].i < call[c].new.count
      /\ call' = [call EXCEPT ![c] = r]
      /\ UNCHANGED <<nextFree, area, listed, spare, slabs, lost>>
  BY DEF VmapPage, Mapping
<1>2. PICK f \in free : /\ free' \subseteq free \ {f}
                        /\ pte' = [pte EXCEPT ![p] = f]
                        /\ tlb' = [tlb EXCEPT ![p] = IF @ = None THEN f ELSE @]
  BY DEF VmapPage, Mapped
<1>3. Maps(c) /\ ~Frees(c)
  BY <1>1 DEF Maps, Frees
<1>4. /\ call[c] \in [op : {"map", "undo", "free"}, desc : Desc, i : Nat, new : Area]
      /\ call[c].i \in Nat /\ call[c].new.start \in Nat /\ call[c].new.va \in Nat
      /\ call[c].new.count \in Nat /\ call[c].new.before \in Nat /\ call[c].new.after \in Nat
  BY <1>3, CallFacts DEF Good
<1>5. r \in Calls /\ r.op = "map" /\ r.desc = call[c].desc /\ r.i = call[c].i + 1 /\ r.new = call[c].new
  BY <1>1, <1>4 DEF Calls
<1>6. /\ call[c].new.start = nextFree /\ call[c].new.start + call[c].new.before = call[c].new.va
      /\ End(call[c].new) < Window
  BY <1>3 DEF Good, MapsAtEnd
<1>7. p = call[c].new.va + call[c].i /\ p \in Nat /\ p \in Page /\ nextFree <= p /\ nextFree \in Nat
  <2>1. p = call[c].new.va + call[c].i
    BY DEF At
  <2>2. nextFree \in Nat
    BY DEF Good, Typed
  <2>3. p \in Nat /\ p < Window /\ nextFree <= p
    BY <1>1, <1>4, <1>6, <2>1, <2>2 DEF End
  <2>. QED  BY <2>1, <2>2, <2>3 DEF Page
<1>. HIDE DEF p, r
<1>8. /\ call' \in [Callers -> Calls] /\ call'[c] = r
      /\ \A e \in Callers : e # c => /\ call'[e] = call[e]
                                     /\ Maps(e)' = Maps(e) /\ Frees(e)' = Frees(e)
  BY <1>1, <1>5, OthersCalls DEF Good
<1>9. Maps(c)' /\ ~Frees(c)'
  BY <1>5, <1>8 DEF Maps, Frees
<1>10. /\ pte' \in [Page -> Frames \union {None}] /\ tlb' \in [Page -> Frames \union {None}]
       /\ pte'[p] = f /\ tlb'[p] = IF tlb[p] = None THEN f ELSE tlb[p]
       /\ \A q \in Page : q # p => pte'[q] = pte[q] /\ tlb'[q] = tlb[q]
       /\ f # None /\ f \in free
  BY <1>2, <1>7 DEF Good, Typed
<1>11. Typed'
  BY <1>1, <1>2, <1>8, <1>10 DEF Good, Typed
<1>12. FromSlabs' /\ AreasApart'
  BY <1>1 DEF Good, FromSlabs, AreasApart
<1>13. OneMaps' /\ MapsAtEnd'
  <2>1. OneMaps'
    BY <1>3, <1>8, <1>9 DEF Good, OneMaps
  <2>2. ASSUME NEW e \in Callers, Maps(e)' PROVE e = c
    BY <1>3, <1>8, <2>2 DEF Good, OneMaps
  <2>. QED  BY <1>1, <1>3, <1>4, <1>5, <1>6, <1>8, <2>1, <2>2 DEF Good, MapsAtEnd
<1>14. FreesListed'
  BY <1>1, <1>8, <1>9 DEF Good, FreesListed
<1>15. ~Has(p)
  <2>1. ASSUME NEW e \in Callers, MapperHas(e, p) PROVE FALSE
    <3>1. e = c
      BY <1>3, <2>1 DEF Good, OneMaps, MapperHas, Maps
    <3>. QED  BY <1>1, <1>4, <1>7, <2>1, <3>1 DEF MapperHas
  <2>2. ASSUME NEW d \in Desc, AreaHas(d, p) PROVE FALSE
    BY <1>7, <2>2, HasOne
  <2>. QED  BY <2>1, <2>2 DEF Has
<1>16. ASSUME NEW q \in Page PROVE Has(q)' <=> Has(q) \/ q = p
  <2>1. q \in Nat
    BY DEF Page
  <2>2. MapperHas(c, q)' <=> MapperHas(c, q) \/ q = p
    BY <1>1, <1>4, <1>5, <1>7, <1>8, <2>1 DEF MapperHas
  <2>3. ASSUME NEW e \in Callers, e # c PROVE MapperHas(e, q)' <=> MapperHas(e, q)
    BY <1>8, <2>3 DEF MapperHas
  <2>4. ASSUME NEW d \in Desc PROVE AreaHas(d, q)' <=> AreaHas(d, q)
    BY <1>1, <1>3, <1>8, <1>9 DEF AreaHas
  <2>. QED  BY <2>2, <2>3, <2>4 DEF Has
<1>17. Backed'
  <2>1. ASSUME NEW q \in Page
        PROVE  /\ tlb'[q] \in {None, pte'[q]} \union lost'
               /\ pte'[q] # None => Has(q)' \/ pte'[q] \in lost'
               /\ Has(q)' => pte'[q] # None /\ pte'[q] \notin free'
    <3>1. CASE q = p
      BY <1>1, <1>2, <1>10, <1>15, <1>16, <3>1 DEF Good, Backed
    <3>2. CASE q # p
      BY <1>1, <1>2, <1>10, <1>16, <3>2 DEF Good, Backed
    <3>. QED  BY <3>1, <3>2
  <2>2. ASSUME NEW q \in Page, NEW s \in Page, Has(q)', Has(s)', pte'[q] = pte'[s] PROVE q = s
    <3>1. \A x \in Page : x # p /\ Has(x)' => Has(x) /\ pte'[x] = pte[x] /\ pte[x] # f
      BY <1>10, <1>16 DEF Good, Backed
    <3>. QED  BY <1>10, <2>2, <3>1 DEF Good, Backed
  <2>. QED  BY <2>1, <2>2 DEF Backed
<1>18. Good'
  BY <1>11, <1>12, <1>13, <1>14, <1>17 DEF Good
<1>. QED  BY <1>7, <1>15, <1>16, <1>18 DEF p

LEMMA VmapNoFrameGood ==
  ASSUME Good, NEW c \in Callers, VmapNoFrame(c)
  PROVE  Good' /\ SameOwners
<1>. DEFINE new == [call[c].new EXCEPT !.count = call[c].i]
            r == [op |-> "undo", desc |-> call[c].desc, i |-> 0, new |-> new]
<1>1. /\ call[c].op = "map" /\ call[c].i < call[c].new.count
      /\ call' = [call EXCEPT ![c] = r]
      /\ UNCHANGED <<nextFree, area, listed, spare, slabs, pte, tlb, free, lost>>
  BY DEF VmapNoFrame, Mapping, memory
<1>2. Maps(c) /\ ~Frees(c)
  BY <1>1 DEF Maps, Frees
<1>3. /\ call[c].desc \in Desc /\ call[c].i \in Nat /\ call[c].new \in Area
      /\ call[c].new.start \in Nat /\ call[c].new.va \in Nat
      /\ call[c].new.count \in Nat /\ call[c].new.before \in Nat /\ call[c].new.after \in Nat
  BY <1>2, CallFacts DEF Good
<1>4. /\ new \in Area /\ new.start = call[c].new.start /\ new.va = call[c].new.va
      /\ new.before = call[c].new.before /\ new.after = call[c].new.after /\ new.count = call[c].i
  BY <1>3 DEF Area
<1>. HIDE DEF new
<1>5. /\ r \in Calls /\ r.op = "undo" /\ r.desc = call[c].desc /\ r.i = 0 /\ r.new = new
  BY <1>3, <1>4 DEF Calls
<1>. HIDE DEF r
<1>6. /\ call[c].new.start = nextFree /\ call[c].new.start + call[c].new.before = call[c].new.va
      /\ End(call[c].new) < Window /\ nextFree \in Nat
      /\ call[c].desc \notin spare \union listed /\ call[c].desc <= slabs * PerSlab
  BY <1>2 DEF Good, MapsAtEnd, Typed
<1>7. End(new) < Window
  BY <1>1, <1>3, <1>4, <1>6 DEF End
<1>8. /\ call' \in [Callers -> Calls] /\ call'[c] = r
      /\ \A e \in Callers : e # c => /\ call'[e] = call[e]
                                     /\ Maps(e)' = Maps(e) /\ Frees(e)' = Frees(e)
  BY <1>1, <1>5, OthersCalls DEF Good
<1>9. Maps(c)' /\ ~Frees(c)'
  BY <1>5, <1>8 DEF Maps, Frees
<1>10. Typed' /\ FromSlabs' /\ AreasApart'
  BY <1>1, <1>8 DEF Good, Typed, FromSlabs, AreasApart
<1>11. OneMaps'
  BY <1>2, <1>8, <1>9 DEF Good, OneMaps
<1>12. MapsAtEnd'
  <2>1. ASSUME NEW e \in Callers, Maps(e)' PROVE e = c
    BY <1>2, <1>8, <2>1 DEF Good, OneMaps
  <2>. QED  BY <1>1, <1>3, <1>4, <1>5, <1>6, <1>7, <1>8, <2>1 DEF MapsAtEnd
<1>13. FreesListed'
  BY <1>1, <1>8, <1>9 DEF Good, FreesListed
<1>14. ASSUME NEW q \in Page PROVE Has(q)' <=> Has(q)
  <2>1. q \in Nat
    BY DEF Page
  <2>2. MapperHas(c, q)' <=> MapperHas(c, q)
    BY <1>1, <1>3, <1>4, <1>5, <1>8, <2>1 DEF MapperHas
  <2>3. ASSUME NEW e \in Callers, e # c PROVE MapperHas(e, q)' <=> MapperHas(e, q)
    BY <1>8, <2>3 DEF MapperHas
  <2>4. ASSUME NEW d \in Desc PROVE AreaHas(d, q)' <=> AreaHas(d, q)
    BY <1>1, <1>2, <1>8, <1>9 DEF AreaHas
  <2>. QED  BY <2>2, <2>3, <2>4 DEF Has
<1>15. Backed'
  BY <1>1, <1>14, SameBacked DEF Good
<1>. QED  BY <1>10, <1>11, <1>12, <1>13, <1>14, <1>15 DEF Good, SameOwners

LEMMA IdleFacts == Idle \in Calls /\ Idle.op = "none"
BY DEF Idle, Calls

(* The descriptor that a call gives back, or lists, is nobody else's.      *)
LEMMA MapperDesc ==
  ASSUME Good, NEW c \in Callers, Maps(c)
  PROVE  /\ call[c].desc \in Desc /\ call[c].desc \notin spare \union listed
         /\ call[c].desc <= slabs * PerSlab
         /\ \A e \in Callers : Maps(e) => e = c
         /\ \A e \in Callers : Frees(e) => call[e].desc # call[c].desc
BY CallFacts DEF Good, MapsAtEnd, OneMaps, FreesListed

LEMMA VmapNoTableGood ==
  ASSUME Good, NEW c \in Callers, VmapNoTable(c)
  PROVE  /\ Good'
         /\ \A q \in Page : Has(q)' <=> Has(q) /\ ~MapperHas(c, q)
         /\ \A q \in Page : MapperHas(c, q) => pte[q] \in LeftBy(c)
         /\ lost' = lost \union LeftBy(c)
         /\ \A f \in LeftBy(c) : \E q \in Page : MapperHas(c, q) /\ pte[q] = f
<1>1. /\ call[c].op = "map" /\ call[c].i < call[c].new.count
      /\ call' = [call EXCEPT ![c] = Idle] /\ spare' = spare \union {call[c].desc}
      /\ lost' = lost \union LeftBy(c)
      /\ UNCHANGED <<nextFree, area, listed, slabs, pte, tlb, free>>
  BY DEF VmapNoTable, Mapping, memory, LeftBy
<1>2. Maps(c) /\ ~Frees(c)
  BY <1>1 DEF Maps, Frees
<1>3. /\ call[c].i \in Nat /\ call[c].new.va \in Nat /\ call[c].new.count \in Nat
      /\ call[c].new.after \in Nat /\ End(call[c].new) < Window
  BY <1>2, CallFacts DEF Good, MapsAtEnd
<1>4. /\ call' \in [Callers -> Calls] /\ call'[c] = Idle
      /\ \A e \in Callers : e # c => /\ call'[e] = call[e]
                                     /\ Maps(e)' = Maps(e) /\ Frees(e)' = Frees(e)
  BY <1>1, OthersCalls, IdleFacts DEF Good
<1>5. ~Maps(c)' /\ ~Frees(c)'
  BY <1>4, IdleFacts DEF Maps, Frees
<1>6. \A q \in Page : MapperHas(c, q) => pte[q] \in LeftBy(c)
  <2>. SUFFICES ASSUME NEW q \in Page, MapperHas(c, q) PROVE pte[q] \in LeftBy(c)
    OBVIOUS
  <2>1. q \in Nat /\ call[c].new.va <= q /\ q < call[c].new.va + call[c].i
    BY <1>1 DEF MapperHas, Page
  <2>2. q - call[c].new.va \in 0 .. call[c].i - 1 /\ q = call[c].new.va + (q - call[c].new.va)
    BY <1>3, <2>1
  <2>. QED  BY <2>2 DEF LeftBy
<1>7. ASSUME NEW f \in LeftBy(c) PROVE f \in Frames /\ \E q \in Page : MapperHas(c, q) /\ pte[q] = f
  <2>1. PICK j \in 0 .. call[c].i - 1 : f = pte[call[c].new.va + j]
    BY DEF LeftBy
  <2>2. PICK q : q = call[c].new.va + j
    OBVIOUS
  <2>3. q \in Nat /\ q < Window /\ call[c].new.va <= q /\ q < call[c].new.va + call[c].i
    BY <1>1, <1>3, <2>2 DEF End
  <2>4. q \in Page /\ MapperHas(c, q) /\ pte[q] = f
    BY <1>1, <2>1, <2>2, <2>3 DEF Page, MapperHas
  <2>5. pte[q] # None
    BY <2>4 DEF Good, Backed, Has
  <2>6. pte[q] \in Frames
    BY <2>4, <2>5 DEF Good, Typed
  <2>. QED  BY <2>4, <2>6
<1>8. Typed' /\ FromSlabs' /\ AreasApart'
  <2>1. call[c].desc \in Desc \ listed /\ call[c].desc <= slabs * PerSlab
    BY <1>2, MapperDesc
  <2>2. Typed'
    BY <1>1, <1>4, <1>7, <2>1 DEF Good, Typed
  <2>3. FromSlabs'
    BY <1>1, <2>1 DEF Good, FromSlabs
  <2>4. AreasApart'
    BY <1>1 DEF Good, AreasApart
  <2>. QED  BY <2>2, <2>3, <2>4
<1>9. OneMaps' /\ MapsAtEnd'
  BY <1>2, <1>4, <1>5, MapperDesc DEF OneMaps, MapsAtEnd
<1>10. FreesListed'
  BY <1>1, <1>4, <1>5 DEF Good, FreesListed
<1>11. ASSUME NEW q \in Page PROVE Has(q)' <=> Has(q) /\ ~MapperHas(c, q)
  <2>1. ~MapperHas(c, q)'
    BY <1>4, IdleFacts DEF MapperHas
  <2>2. ASSUME NEW e \in Callers, e # c PROVE MapperHas(e, q)' <=> MapperHas(e, q)
    BY <1>4, <2>2 DEF MapperHas
  <2>3. ASSUME NEW d \in Desc PROVE AreaHas(d, q)' <=> AreaHas(d, q)
    BY <1>1, <1>2, <1>4, <1>5 DEF AreaHas
  <2>4. \A e \in Callers : MapperHas(c, q) /\ MapperHas(e, q) => e = c
    BY HasOne
  <2>5. \A d \in Desc : ~(MapperHas(c, q) /\ AreaHas(d, q))
    <3>1. q \in Nat /\ nextFree \in Nat
      BY DEF Page, Good, Typed
    <3>2. (MapperHas(c, q) => nextFree <= q) /\ (\A d \in Desc : AreaHas(d, q) => q < nextFree)
      BY HasOne
    <3>. QED  BY <3>1, <3>2
  <2>. QED  BY <2>1, <2>2, <2>3, <2>4, <2>5 DEF Has
<1>12. Backed'
  <2>1. \A q \in Page : Has(q) => Has(q)' \/ pte[q] \in LeftBy(c)
    BY <1>6, <1>11
  <2>2. \A q \in Page : Has(q)' => Has(q)
    BY <1>11
  <2>. QED  BY <1>1, <2>1, <2>2 DEF Good, Backed
<1>13. Good'
  BY <1>8, <1>9, <1>10, <1>12 DEF Good
<1>. QED  BY <1>1, <1>6, <1>7, <1>11, <1>13

LEMMA UndoEndGood ==
  ASSUME Good, NEW c \in Callers, UndoEnd(c)
  PROVE  Good' /\ SameOwners
<1>1. /\ call[c].op = "undo" /\ call[c].i = call[c].new.count
      /\ call' = [call EXCEPT ![c] = Idle] /\ spare' = spare \union {call[c].desc}
      /\ UNCHANGED <<nextFree, area, listed, slabs, pte, tlb, free, lost>>
  BY DEF UndoEnd, memory
<1>2. Maps(c) /\ ~Frees(c)
  BY <1>1 DEF Maps, Frees
<1>3. call[c].i \in Nat /\ call[c].new.va \in Nat /\ call[c].new.count \in Nat
  BY <1>2, CallFacts DEF Good
<1>4. /\ call' \in [Callers -> Calls] /\ call'[c] = Idle
      /\ \A e \in Callers : e # c => /\ call'[e] = call[e]
                                     /\ Maps(e)' = Maps(e) /\ Frees(e)' = Frees(e)
  BY <1>1, OthersCalls, IdleFacts DEF Good
<1>5. ~Maps(c)' /\ ~Frees(c)'
  BY <1>4, IdleFacts DEF Maps, Frees
<1>6. Typed' /\ FromSlabs' /\ AreasApart'
  <2>1. call[c].desc \in Desc \ listed /\ call[c].desc <= slabs * PerSlab
    BY <1>2, MapperDesc
  <2>2. Typed'
    BY <1>1, <1>4, <2>1 DEF Good, Typed
  <2>3. FromSlabs'
    BY <1>1, <2>1 DEF Good, FromSlabs
  <2>4. AreasApart'
    BY <1>1 DEF Good, AreasApart
  <2>. QED  BY <2>2, <2>3, <2>4
<1>7. OneMaps' /\ MapsAtEnd'
  BY <1>2, <1>4, <1>5, MapperDesc DEF OneMaps, MapsAtEnd
<1>8. FreesListed'
  BY <1>1, <1>4, <1>5 DEF Good, FreesListed
<1>9. ASSUME NEW q \in Page PROVE Has(q)' <=> Has(q)
  <2>1. ~MapperHas(c, q)' /\ ~MapperHas(c, q)
    <3>1. q \in Nat
      BY DEF Page
    <3>. QED  BY <1>1, <1>3, <1>4, <3>1, IdleFacts DEF MapperHas
  <2>2. ASSUME NEW e \in Callers, e # c PROVE MapperHas(e, q)' <=> MapperHas(e, q)
    BY <1>4, <2>2 DEF MapperHas
  <2>3. ASSUME NEW d \in Desc PROVE AreaHas(d, q)' <=> AreaHas(d, q)
    BY <1>1, <1>2, <1>4, <1>5 DEF AreaHas
  <2>. QED  BY <2>1, <2>2, <2>3 DEF Has
<1>10. Backed'
  BY <1>1, <1>9, SameBacked DEF Good
<1>. QED  BY <1>6, <1>7, <1>8, <1>9, <1>10 DEF Good, SameOwners

LEMMA VmapEndGood ==
  ASSUME Good, NEW c \in Callers, VmapEnd(c)
  PROVE  Good' /\ SameOwners
<1>0. PICK d, a : d = call[c].desc /\ a = call[c].new
  OBVIOUS
<1>1. /\ call[c].op = "map" /\ call[c].i = a.count
      /\ area' = [area EXCEPT ![d] = a] /\ listed' = listed \union {d}
      /\ nextFree' = End(a)
      /\ call' = [call EXCEPT ![c] = Idle]
      /\ UNCHANGED <<spare, slabs, pte, tlb, free, lost>>
  BY <1>0 DEF VmapEnd, memory, End
<1>2. Maps(c) /\ ~Frees(c)
  BY <1>1 DEF Maps, Frees
<1>3. /\ a \in Area /\ a.start \in Nat /\ a.va \in Nat /\ a.count \in Nat /\ End(a) \in Nat
      /\ a.before \in Nat /\ a.after \in Nat
      /\ End(a) < Window /\ a.start = nextFree /\ a.start + a.before = a.va
  BY <1>0, <1>2, CallFacts DEF Good, MapsAtEnd
<1>4. /\ call' \in [Callers -> Calls] /\ call'[c] = Idle
      /\ \A e \in Callers : e # c => /\ call'[e] = call[e]
                                     /\ Maps(e)' = Maps(e) /\ Frees(e)' = Frees(e)
  BY <1>1, OthersCalls, IdleFacts DEF Good
<1>5. ~Maps(c)' /\ ~Frees(c)'
  BY <1>4, IdleFacts DEF Maps, Frees
<1>6. /\ d \in Desc /\ d \notin spare \union listed /\ d <= slabs * PerSlab
      /\ \A e \in Callers : Maps(e) => e = c
      /\ \A e \in Callers : Frees(e) => call[e].desc # d
  BY <1>0, <1>2, MapperDesc
<1>7. area' \in [Desc -> Area] /\ area'[d] = a /\ \A e \in Desc : e # d => area'[e] = area[e]
  BY <1>1, <1>3, <1>6 DEF Good, Typed
<1>8. Typed'
  <2>1. nextFree' \in 0 .. Window
    BY <1>1, <1>3
  <2>. QED  BY <1>1, <1>4, <1>6, <1>7, <2>1 DEF Good, Typed
<1>9. FromSlabs'
  BY <1>1, <1>6 DEF Good, FromSlabs
<1>10. AreasApart'
  <2>1. \A e \in listed : /\ area'[e] = area[e] /\ e # d /\ e \in Desc
                          /\ area[e].start \in Nat /\ End(area[e]) \in Nat /\ End(area[e]) <= nextFree
                          /\ area[e].start + area[e].before = area[e].va
    BY <1>6, <1>7, AreaFacts DEF Good, Typed, AreasApart
  <2>2. nextFree \in Nat /\ nextFree <= End(a)
    BY <1>3 DEF Good, Typed, End
  <2>3. \A e \in listed' : /\ area'[e].start + area'[e].before = area'[e].va
                           /\ End(area'[e]) <= nextFree'
    BY <1>1, <1>3, <1>7, <2>1, <2>2
  <2>4. ASSUME NEW e \in listed', NEW b \in listed', e # b
        PROVE  End(area'[e]) <= area'[b].start \/ End(area'[b]) <= area'[e].start
    <3>1. CASE e # d /\ b # d
      BY <1>1, <2>1, <2>4, <3>1 DEF Good, AreasApart
    <3>2. CASE e = d
      BY <1>1, <1>3, <1>7, <2>1, <2>4, <3>2
    <3>3. CASE b = d
      BY <1>1, <1>3, <1>7, <2>1, <2>4, <3>3
    <3>. QED  BY <3>1, <3>2, <3>3
  <2>. QED  BY <2>3, <2>4 DEF AreasApart, End
<1>11. OneMaps' /\ MapsAtEnd'
  BY <1>4, <1>5, <1>6 DEF OneMaps, MapsAtEnd
<1>12. FreesListed'
  <2>1. ASSUME NEW e \in Callers, Frees(e)'
        PROVE  /\ e # c /\ Frees(e) /\ call'[e] = call[e] /\ call[e].desc \in listed
               /\ area'[call[e].desc] = area[call[e].desc]
    BY <1>4, <1>5, <1>6, <1>7, <2>1 DEF Good, FreesListed, Typed
  <2>. QED  BY <1>1, <2>1 DEF Good, FreesListed
<1>13. ASSUME NEW q \in Page PROVE Has(q)' <=> Has(q)
  <2>1. ~MapperHas(c, q)' /\ ~AreaHas(d, q)
    BY <1>4, <1>6, IdleFacts DEF MapperHas, AreaHas
  <2>2. MapperHas(c, q) <=> AreaHas(d, q)'
    <3>1. MapperHas(c, q) <=> a.va <= q /\ q < a.va + a.count
      BY <1>0, <1>1 DEF MapperHas
    <3>2. AreaHas(d, q)' <=> a.va <= q /\ q < a.va + a.count
      BY <1>1, <1>4, <1>5, <1>6, <1>7 DEF AreaHas
    <3>. QED  BY <3>1, <3>2
  <2>3. ASSUME NEW e \in Callers, e # c PROVE MapperHas(e, q)' <=> MapperHas(e, q)
    BY <1>4, <2>3 DEF MapperHas
  <2>4. ASSUME NEW e \in Desc, e # d PROVE AreaHas(e, q)' <=> AreaHas(e, q)
    BY <1>1, <1>2, <1>4, <1>5, <1>7, <2>4 DEF AreaHas
  <2>. QED  BY <1>6, <2>1, <2>2, <2>3, <2>4 DEF Has
<1>14. Backed'
  BY <1>1, <1>13, SameBacked DEF Good
<1>. QED  BY <1>8, <1>9, <1>10, <1>11, <1>12, <1>13, <1>14 DEF Good, SameOwners
LEMMA VfreeStartGood ==
  ASSUME Good, NEW c \in Callers, NEW d \in Desc, VfreeStart(c, d)
  PROVE  Good' /\ SameOwners
<1>. DEFINE r == [op |-> "free", desc |-> d, i |-> 0, new |-> area[d]]
<1>1. /\ call[c] = Idle /\ d \in listed
      /\ \A e \in Callers : call[e].op = "free" => call[e].desc # d
      /\ call' = [call EXCEPT ![c] = r]
      /\ UNCHANGED <<nextFree, area, listed, spare, slabs, pte, tlb, free, lost>>
  BY DEF VfreeStart, memory
<1>2. area[d] \in Area /\ area[d].va \in Nat /\ area[d].count \in Nat
  BY AreaFacts DEF Good
<1>3. r \in Calls /\ r.op = "free" /\ r.desc = d /\ r.i = 0 /\ r.new = area[d]
  BY <1>2 DEF Calls
<1>. HIDE DEF r
<1>4. /\ call' \in [Callers -> Calls] /\ call'[c] = r
      /\ \A e \in Callers : e # c => /\ call'[e] = call[e]
                                     /\ Maps(e)' = Maps(e) /\ Frees(e)' = Frees(e)
  BY <1>1, <1>3, OthersCalls DEF Good
<1>5. ~Maps(c) /\ ~Frees(c) /\ ~Maps(c)' /\ Frees(c)'
  BY <1>1, <1>3, <1>4, IdleFacts DEF Maps, Frees
<1>6. \A e \in Callers : Frees(e) => call[e].desc # d
  BY <1>1 DEF Frees
<1>7. Typed'
  BY <1>1, <1>4 DEF Good, Typed
<1>8. FromSlabs' /\ AreasApart'
  BY <1>1 DEF Good, FromSlabs, AreasApart
<1>9. OneMaps' /\ MapsAtEnd'
  <2>1. OneMaps'
    BY <1>4, <1>5 DEF Good, OneMaps
  <2>2. ASSUME NEW e \in Callers, Maps(e)' PROVE Maps(e) /\ call'[e] = call[e]
    BY <1>4, <1>5, <2>2
  <2>. QED  BY <1>1, <2>1, <2>2 DEF Good, MapsAtEnd
<1>10. FreesListed'
  <2>1. ASSUME NEW e \in Callers, e # c, Frees(e)'
        PROVE  Frees(e) /\ call'[e] = call[e] /\ call[e].desc # d
    BY <1>4, <1>6, <2>1
  <2>. QED  BY <1>1, <1>2, <1>3, <1>4, <2>1 DEF Good, FreesListed
<1>11. ASSUME NEW q \in Page PROVE Has(q)' <=> Has(q)
  <2>0. q \in Nat
    BY DEF Page
  <2>1. ~MapperHas(c, q) /\ ~MapperHas(c, q)'
    BY <1>1, <1>3, <1>4, IdleFacts DEF MapperHas
  <2>2. ASSUME NEW e \in Callers, e # c PROVE MapperHas(e, q)' <=> MapperHas(e, q)
    BY <1>4, <2>2 DEF MapperHas
  <2>3. AreaHas(d, q)' <=> AreaHas(d, q)
    <3>1. \A e \in Callers : Frees(e)' /\ call'[e].desc = d => e = c
      BY <1>4, <1>6
    <3>2. area[d].va <= q => area[d].va + r.i <= q
      BY <1>2, <1>3, <2>0
    <3>. QED  BY <1>1, <1>4, <1>6, <3>1, <3>2 DEF AreaHas
  <2>4. ASSUME NEW e \in Desc, e # d PROVE AreaHas(e, q)' <=> AreaHas(e, q)
    BY <1>1, <1>3, <1>4, <1>5, <2>4 DEF AreaHas
  <2>. QED  BY <2>1, <2>2, <2>3, <2>4 DEF Has
<1>12. Backed'
  BY <1>1, <1>11, SameBacked DEF Good
<1>. QED  BY <1>7, <1>8, <1>9, <1>10, <1>11, <1>12 DEF Good, SameOwners
(* What TakeBackPage and VfreeEnd need to know of the call.                *)
LEMMA TakesBack ==
  ASSUME Good, NEW c \in Callers, call[c].op \in {"undo", "free"}
  PROVE  /\ call[c] \in [op : {"map", "undo", "free"}, desc : Desc, i : Nat, new : Area]
         /\ call[c].desc \in Desc /\ call[c].i \in Nat /\ call[c].new \in Area
         /\ call[c].new.va \in Nat /\ call[c].new.count \in Nat
         /\ call[c].new.va + call[c].new.count <= Window
         /\ call[c].i <= call[c].new.count
         /\ call[c].op = "undo" <=> Maps(c)
         /\ call[c].op = "free" <=> Frees(c)
<1>1. (call[c].op = "undo" <=> Maps(c)) /\ (call[c].op = "free" <=> Frees(c))
  BY DEF Maps, Frees
<1>2. /\ call[c] \in [op : {"map", "undo", "free"}, desc : Desc, i : Nat, new : Area]
      /\ call[c].desc \in Desc /\ call[c].i \in Nat /\ call[c].new \in Area
      /\ call[c].new.va \in Nat /\ call[c].new.count \in Nat /\ call[c].new.after \in Nat
      /\ nextFree \in 0 .. Window
  BY <1>1, CallFacts DEF Good, Typed
<1>3. CASE Maps(c)
  BY <1>1, <1>2, <1>3 DEF Good, MapsAtEnd, End
<1>4. CASE Frees(c)
  BY <1>1, <1>2, <1>4 DEF Good, FreesListed, AreasApart, End
<1>. QED  BY <1>1, <1>3, <1>4

(* The page whose turn it is belongs to the call, and no other page        *)
(* changes hands.                                                          *)
LEMMA TakeBackHas ==
  ASSUME Good, NEW c \in Callers, TakeBackPage(c), NEW p, p = At(c)
  PROVE  /\ p \in Page /\ Has(p)
         /\ \A q \in Page : Has(q)' <=> Has(q) /\ q # p
<1>. DEFINE r == [call[c] EXCEPT !.i = @ + 1]
<1>. PICK a, i : a = call[c].new /\ i = call[c].i
  OBVIOUS
<1>1. /\ call[c].op \in {"undo", "free"} /\ i < a.count /\ p = a.va + i
      /\ call' = [call EXCEPT ![c] = r] /\ UNCHANGED <<area, listed>>
  BY DEF TakeBackPage, At
<1>2. /\ call[c] \in [op : {"map", "undo", "free"}, desc : Desc, i : Nat, new : Area]
      /\ i \in Nat /\ a.va \in Nat /\ a.count \in Nat /\ a.va + a.count <= Window
  BY <1>1, TakesBack
<1>3. /\ r \in Calls /\ r.op = call[c].op /\ r.desc = call[c].desc /\ r.new = a /\ r.i = i + 1
  BY <1>2 DEF Calls
<1>. HIDE DEF r
<1>4. /\ call'[c] = r
      /\ \A e \in Callers : e # c => /\ call'[e] = call[e]
                                     /\ Maps(e)' = Maps(e) /\ Frees(e)' = Frees(e)
  BY <1>1, <1>3, OthersCalls DEF Good
<1>5. p \in Page /\ p \in Nat /\ nextFree \in Nat
  BY <1>1, <1>2 DEF Page, Good, Typed
<1>6. ASSUME NEW q \in Page, NEW e \in Callers, e # c PROVE MapperHas(e, q)' <=> MapperHas(e, q)
  BY <1>4, <1>6 DEF MapperHas
<1>7. CASE Maps(c)
  <2>1. call[c].op = "undo" /\ ~Frees(c) /\ ~Frees(c)'
    BY <1>1, <1>3, <1>4, <1>7 DEF Maps, Frees
  <2>2. MapperHas(c, p)
    BY <1>1, <1>2, <2>1 DEF MapperHas
  <2>3. ASSUME NEW q \in Page
        PROVE  MapperHas(c, q)' <=> MapperHas(c, q) /\ q # p
    <3>1. q \in Nat
      BY DEF Page
    <3>. QED  BY <1>1, <1>2, <1>3, <1>4, <2>1, <3>1 DEF MapperHas
  <2>4. ASSUME NEW q \in Page, NEW d \in Desc PROVE AreaHas(d, q)' <=> AreaHas(d, q)
    BY <1>1, <1>4, <2>1 DEF AreaHas
  <2>5. \A d \in Desc : ~AreaHas(d, p)
    <3>1. nextFree <= p
      BY <1>5, <2>2, HasOne
    <3>. QED  BY <1>5, <3>1, HasOne
  <2>6. \A e \in Callers : MapperHas(e, p) => e = c
    BY <1>5, <2>2, HasOne
  <2>. QED  BY <1>5, <1>6, <2>2, <2>3, <2>4, <2>5, <2>6 DEF Has
<1>8. CASE Frees(c)
  <2>0. PICK d : d = call[c].desc
    OBVIOUS
  <2>1. /\ call[c].op = "free" /\ Frees(c)' /\ d \in listed /\ d \in Desc /\ a = area[d]
        /\ \A e \in Callers : Frees(e) /\ call[e].desc = d => e = c
    BY <1>1, <1>3, <1>4, <1>8, <2>0, TakesBack DEF Frees, Good, FreesListed
  <2>2. AreaHas(d, p)
    BY <1>1, <1>2, <2>1 DEF AreaHas
  <2>3. ASSUME NEW q \in Page
        PROVE  AreaHas(d, q)' <=> AreaHas(d, q) /\ q # p
    <3>1. q \in Nat
      BY DEF Page
    <3>2. AreaHas(d, q) <=> a.va <= q /\ q < a.va + a.count /\ a.va + i <= q
      BY <1>8, <2>0, <2>1 DEF AreaHas
    <3>3. \A e \in Callers : Frees(e)' /\ call'[e].desc = d <=> e = c
      BY <1>3, <1>4, <2>0, <2>1
    <3>4. AreaHas(d, q)' <=> a.va <= q /\ q < a.va + a.count /\ a.va + (i + 1) <= q
      BY <1>1, <1>3, <1>4, <2>1, <3>3 DEF AreaHas
    <3>. QED  BY <1>1, <1>2, <3>1, <3>2, <3>4
  <2>4. ASSUME NEW q \in Page, NEW e \in Desc, e # d PROVE AreaHas(e, q)' <=> AreaHas(e, q)
    BY <1>1, <1>3, <1>4, <2>0, <2>4 DEF AreaHas
  <2>5. \A e \in Desc : AreaHas(e, p) => e = d
    BY <1>5, <2>1, <2>2, HasOne
  <2>6. ASSUME NEW q \in Page PROVE MapperHas(c, q)' <=> MapperHas(c, q)
    BY <1>3, <1>4, <2>1 DEF MapperHas
  <2>7. \A e \in Callers : ~MapperHas(e, p)
    <3>1. p < nextFree
      BY <1>5, <2>1, <2>2, HasOne
    <3>. QED  BY <1>5, <3>1, HasOne
  <2>. QED  BY <1>5, <1>6, <2>1, <2>2, <2>3, <2>4, <2>5, <2>6, <2>7 DEF Has
<1>. QED  BY <1>1, <1>7, <1>8, TakesBack
LEMMA TakeBackPageGood ==
  ASSUME Good, NEW c \in Callers, TakeBackPage(c)
  PROVE  Good'
<1>. DEFINE r == [call[c] EXCEPT !.i = @ + 1]
<1>. PICK p : p = At(c)
  OBVIOUS
<1>1. /\ call[c].op \in {"undo", "free"} /\ call[c].i < call[c].new.count
      /\ pte' = [pte EXCEPT ![p] = None] /\ tlb' = [tlb EXCEPT ![p] = None]
      /\ free' = free \union ({pte[p]} \ {None})
      /\ call' = [call EXCEPT ![c] = r]
      /\ UNCHANGED <<nextFree, area, listed, spare, slabs, lost>>
  BY DEF TakeBackPage, Unmapped
<1>2. p \in Page /\ Has(p) /\ \A q \in Page : Has(q)' <=> Has(q) /\ q # p
  BY TakeBackHas
<1>3. /\ call[c] \in [op : {"map", "undo", "free"}, desc : Desc, i : Nat, new : Area]
      /\ call[c].i \in Nat /\ call[c].new.count \in Nat
  BY <1>1, TakesBack
<1>4. /\ r \in Calls /\ r.op = call[c].op /\ r.desc = call[c].desc /\ r.new = call[c].new
      /\ r.i \in Nat /\ r.i <= r.new.count
  BY <1>1, <1>3 DEF Calls
<1>. HIDE DEF r
<1>5. /\ call' \in [Callers -> Calls] /\ call'[c] = r
      /\ \A e \in Callers : e # c => /\ call'[e] = call[e]
                                     /\ Maps(e)' = Maps(e) /\ Frees(e)' = Frees(e)
  BY <1>1, <1>4, OthersCalls DEF Good
<1>6. Maps(c)' = Maps(c) /\ Frees(c)' = Frees(c)
  BY <1>4, <1>5 DEF Maps, Frees
<1>7. \A e \in Callers : /\ Maps(e)' = Maps(e) /\ Frees(e)' = Frees(e)
                         /\ call'[e].desc = call[e].desc /\ call'[e].new = call[e].new
  BY <1>4, <1>5, <1>6
<1>8. /\ pte' \in [Page -> Frames \union {None}] /\ tlb' \in [Page -> Frames \union {None}]
      /\ pte'[p] = None /\ tlb'[p] = None
      /\ \A q \in Page : q # p => pte'[q] = pte[q] /\ tlb'[q] = tlb[q]
      /\ free' \subseteq Frames
  BY <1>1, <1>2 DEF Good, Typed
<1>9. Typed'
  BY <1>1, <1>5, <1>8 DEF Good, Typed
<1>10. FromSlabs' /\ AreasApart'
  BY <1>1 DEF Good, FromSlabs, AreasApart
<1>11. OneMaps'
  BY <1>7 DEF Good, OneMaps
<1>12. MapsAtEnd'
  BY <1>1, <1>4, <1>5, <1>7 DEF Good, MapsAtEnd, End
<1>13. FreesListed'
  <2>1. ASSUME NEW e \in Callers, Frees(e)'
        PROVE  /\ call'[e].desc \in listed /\ call'[e].new = area[call'[e].desc]
               /\ call'[e].i <= call'[e].new.count
    BY <1>4, <1>5, <1>7, <2>1 DEF Good, FreesListed
  <2>2. ASSUME NEW e \in Callers, NEW b \in Callers, Frees(e)', Frees(b)',
               call'[b].desc = call'[e].desc
        PROVE  b = e
    BY <1>7, <2>2 DEF Good, FreesListed
  <2>. QED  BY <1>1, <2>1, <2>2 DEF FreesListed
<1>14. Backed'
  <2>1. ASSUME NEW q \in Page
        PROVE  /\ tlb'[q] \in {None, pte'[q]} \union lost'
               /\ pte'[q] # None => Has(q)' \/ pte'[q] \in lost'
    BY <1>1, <1>2, <1>8 DEF Good, Backed
  <2>2. ASSUME NEW q \in Page, Has(q)' PROVE pte'[q] # None /\ pte'[q] \notin free'
    <3>1. Has(q) /\ q # p /\ pte'[q] = pte[q]
      BY <1>2, <1>8, <2>2
    <3>2. pte[q] # None /\ pte[q] \notin free /\ pte[q] # pte[p]
      BY <1>2, <3>1 DEF Good, Backed
    <3>. QED  BY <1>1, <3>1, <3>2
  <2>3. ASSUME NEW q \in Page, NEW s \in Page, Has(q)', Has(s)', pte'[q] = pte'[s] PROVE q = s
    BY <1>2, <1>8, <2>3 DEF Good, Backed
  <2>. QED  BY <2>1, <2>2, <2>3 DEF Backed
<1>. QED  BY <1>9, <1>10, <1>11, <1>12, <1>13, <1>14 DEF Good

LEMMA VfreeEndGood ==
  ASSUME Good, NEW c \in Callers, VfreeEnd(c)
  PROVE  Good' /\ SameOwners
<1>0. PICK d : d = call[c].desc
  OBVIOUS
<1>1. /\ call[c].op = "free" /\ call[c].i = call[c].new.count
      /\ listed' = listed \ {d} /\ spare' = spare \union {d}
      /\ area' = [area EXCEPT ![d] = NoArea]
      /\ call' = [call EXCEPT ![c] = Idle]
      /\ UNCHANGED <<nextFree, slabs, pte, tlb, free, lost>>
  BY <1>0 DEF VfreeEnd, memory
<1>2. Frees(c) /\ ~Maps(c)
  BY <1>1 DEF Frees, Maps
<1>3. /\ d \in Desc /\ d \in listed /\ call[c].new = area[d]
      /\ \A e \in Callers : Frees(e) /\ call[e].desc = d => e = c
  BY <1>0, <1>1, <1>2, TakesBack DEF Good, FreesListed
<1>4. /\ call' \in [Callers -> Calls] /\ call'[c] = Idle
      /\ \A e \in Callers : e # c => /\ call'[e] = call[e]
                                     /\ Maps(e)' = Maps(e) /\ Frees(e)' = Frees(e)
  BY <1>1, OthersCalls, IdleFacts DEF Good
<1>5. ~Maps(c)' /\ ~Frees(c)'
  BY <1>4, IdleFacts DEF Maps, Frees
<1>6. area' \in [Desc -> Area] /\ \A e \in Desc : e # d => area'[e] = area[e]
  <2>1. NoArea \in Area
    BY DEF NoArea, Area
  <2>. QED  BY <1>1, <2>1 DEF Good, Typed
<1>7. Typed'
  BY <1>1, <1>3, <1>4, <1>6 DEF Good, Typed
<1>8. FromSlabs'
  BY <1>1, <1>3 DEF Good, FromSlabs
<1>9. AreasApart'
  <2>1. \A e \in listed' : e \in listed /\ area'[e] = area[e]
    BY <1>1, <1>6 DEF Good, Typed
  <2>. QED  BY <1>1, <2>1 DEF Good, AreasApart, End
<1>10. OneMaps'
  BY <1>4, <1>5 DEF Good, OneMaps
<1>11. MapsAtEnd'
  <2>1. ASSUME NEW e \in Callers, Maps(e)'
        PROVE  Maps(e) /\ call'[e] = call[e] /\ call[e].desc # d
    BY <1>3, <1>4, <1>5, <2>1, MapperDesc
  <2>. QED  BY <1>1, <2>1 DEF Good, MapsAtEnd
<1>12. FreesListed'
  <2>1. ASSUME NEW e \in Callers, Frees(e)'
        PROVE  /\ Frees(e) /\ call'[e] = call[e] /\ call[e].desc \in listed'
               /\ area'[call[e].desc] = area[call[e].desc]
    <3>1. e # c /\ Frees(e) /\ call'[e] = call[e] /\ call[e].desc # d /\ call[e].desc \in listed
      BY <1>3, <1>4, <1>5, <2>1 DEF Good, FreesListed
    <3>. QED  BY <1>1, <1>6, <3>1 DEF Good, Typed
  <2>. QED  BY <2>1 DEF Good, FreesListed
<1>13. ASSUME NEW q \in Page PROVE Has(q)' <=> Has(q)
  <2>1. ~MapperHas(c, q) /\ ~MapperHas(c, q)'
    BY <1>1, <1>4, IdleFacts DEF MapperHas
  <2>2. ASSUME NEW e \in Callers, e # c PROVE MapperHas(e, q)' <=> MapperHas(e, q)
    BY <1>4, <2>2 DEF MapperHas
  <2>3. ~AreaHas(d, q) /\ ~AreaHas(d, q)'
    <3>1. area[d].va \in Nat /\ area[d].count \in Nat /\ q \in Nat
      BY <1>3, AreaFacts DEF Good, Page
    <3>2. AreaHas(d, q) => q < area[d].va + area[d].count /\ area[d].va + area[d].count <= q
      BY <1>0, <1>1, <1>2, <1>3 DEF AreaHas
    <3>3. ~AreaHas(d, q)'
      BY <1>1 DEF AreaHas
    <3>. QED  BY <3>1, <3>2, <3>3
  <2>4. ASSUME NEW e \in Desc, e # d PROVE AreaHas(e, q)' <=> AreaHas(e, q)
    <3>1. \A b \in Callers : Frees(b)' /\ call'[b].desc = e <=> Frees(b) /\ call[b].desc = e
      BY <1>0, <1>4, <1>5, <2>4
    <3>2. \A b \in Callers : Frees(b)' => call'[b] = call[b]
      BY <1>4, <1>5
    <3>. QED  BY <1>1, <1>6, <2>4, <3>1, <3>2 DEF AreaHas
  <2>. QED  BY <1>3, <2>1, <2>2, <2>3, <2>4 DEF Has
<1>14. Backed'
  BY <1>1, <1>13, SameBacked DEF Good
<1>. QED  BY <1>7, <1>8, <1>9, <1>10, <1>11, <1>12, <1>13, <1>14 DEF Good, SameOwners

(* A step that only fills or empties the TLB.                              *)
LEMMA TlbGood ==
  ASSUME Good, tlb' \in [Page -> Frames \union {None}],
         \A p \in Page : tlb'[p] \in {None, pte[p], tlb[p]},
         UNCHANGED <<nextFree, area, listed, spare, slabs, pte, free, call, lost>>
  PROVE  Good' /\ SameOwners
<1>1. \A p : Has(p)' <=> Has(p)
  BY DEF Has, MapperHas, AreaHas, Frees
<1>2. Backed'
  BY <1>1 DEF Good, Backed
<1>3. Typed'
  BY DEF Good, Typed
<1>4. FromSlabs' /\ AreasApart'
  BY DEF Good, FromSlabs, AreasApart
<1>5. OneMaps' /\ MapsAtEnd'
  BY DEF Good, OneMaps, MapsAtEnd, Maps
<1>6. FreesListed'
  BY DEF Good, FreesListed, Frees
<1>. QED  BY <1>1, <1>2, <1>3, <1>4, <1>5, <1>6 DEF Good, SameOwners

LEMMA NextGood == IInv /\ [Next]_vars => IInv'
<1>. SUFFICES ASSUME IInv, [Next]_vars, ~raced' PROVE Good'
  BY DEF IInv
<1>1. ~raced
  BY DEF Next, vars, memory, VmapStart, VmapPage, VmapNoFrame, VmapNoTable, VmapEnd, VfreeStart,
         TakeBackPage, UndoEnd, VfreeEnd, Use, LoadCr3
<1>2. Good
  BY <1>1 DEF IInv
<1>3. ASSUME NEW c \in Callers, NEW n \in Counts, NEW g \in Guards, NEW d \in Desc,
             VmapStart(c, n, g, d)
      PROVE  Good'
  BY <1>2, <1>3, VmapStartGood
<1>4. ASSUME NEW c \in Callers, VmapPage(c) PROVE Good'
  BY <1>2, <1>4, VmapPageGood
<1>5. ASSUME NEW c \in Callers, VmapNoFrame(c) PROVE Good'
  BY <1>2, <1>5, VmapNoFrameGood
<1>6. ASSUME NEW c \in Callers, VmapNoTable(c) PROVE Good'
  BY <1>2, <1>6, VmapNoTableGood
<1>7. ASSUME NEW c \in Callers, VmapEnd(c) PROVE Good'
  BY <1>2, <1>7, VmapEndGood
<1>8. ASSUME NEW c \in Callers, NEW d \in Desc, VfreeStart(c, d) PROVE Good'
  BY <1>2, <1>8, VfreeStartGood
<1>9. ASSUME NEW c \in Callers, TakeBackPage(c) PROVE Good'
  BY <1>2, <1>9, TakeBackPageGood
<1>10. ASSUME NEW c \in Callers, UndoEnd(c) PROVE Good'
  BY <1>2, <1>10, UndoEndGood
<1>11. ASSUME NEW c \in Callers, VfreeEnd(c) PROVE Good'
  BY <1>2, <1>11, VfreeEndGood
<1>12. ASSUME NEW p \in Page, Use(p) PROVE Good'
  <2>1. /\ tlb' = [tlb EXCEPT ![p] = pte[p]]
        /\ UNCHANGED <<nextFree, area, listed, spare, slabs, pte, free, call, lost>>
    BY <1>12 DEF Use
  <2>2. /\ pte \in [Page -> Frames \union {None}]
        /\ tlb \in [Page -> Frames \union {None}]
    BY <1>2 DEF Good, Typed
  <2>. QED  BY <1>2, <2>1, <2>2, TlbGood
<1>13. CASE LoadCr3
  BY <1>2, <1>13, TlbGood DEF LoadCr3
<1>14. CASE UNCHANGED vars
  <2>1. UNCHANGED <<nextFree, area, listed, spare, slabs, pte, tlb, free, call, lost>>
    BY <1>14 DEF vars, memory
  <2>2. tlb \in [Page -> Frames \union {None}]
    BY <1>2 DEF Good, Typed
  <2>. QED  BY <1>2, <2>1, <2>2, TlbGood
<1>. QED  BY <1>3, <1>4, <1>5, <1>6, <1>7, <1>8, <1>9, <1>10, <1>11, <1>12, <1>13, <1>14 DEF Next

(* The inductive invariant holds in every reachable state.                 *)
THEOREM InvariantHolds == Spec => []IInv
<1>. QED  BY InitGood, NextGood, PTL DEF Spec
-----------------------------------------------------------------------------
(* A page of a listed area, guard pages included, is no page of another.   *)
LEMMA InOneArea ==
  ASSUME Good, NEW p \in Nat, NEW d \in listed, NEW e \in listed,
         area[d].start <= p, p < End(area[d]), area[e].start <= p, p < End(area[e])
  PROVE  d = e
<1>1. /\ area[d].start \in Nat /\ area[e].start \in Nat /\ End(area[d]) \in Nat
      /\ End(area[e]) \in Nat
  BY AreaFacts DEF Good, Typed
<1>2. d # e => End(area[d]) <= area[e].start \/ End(area[e]) <= area[d].start
  BY DEF Good, AreasApart
<1>. QED  BY <1>1, <1>2

(* What the spans of the areas are made of.                                *)
LEMMA SpanFacts ==
  ASSUME Good, NEW d \in listed
  PROVE  /\ d \in Desc /\ area[d].start \in Nat /\ area[d].va \in Nat /\ area[d].count \in Nat
         /\ area[d].before \in Nat /\ area[d].after \in Nat /\ nextFree \in Nat
         /\ End(area[d]) = area[d].va + area[d].count + area[d].after
         /\ area[d].start + area[d].before = area[d].va /\ End(area[d]) <= nextFree
         /\ nextFree <= Window
BY AreaFacts DEF Good, Typed, AreasApart, End

(* Areas, guard pages included, are apart from each other and from the     *)
(* area of a call of kVmapPages that is under way, for any window and any  *)
(* number of callers: kVmapPages, kVfree.                                  *)
THEOREM StacksStayApart == Spec => []StacksApart
<1>1. ASSUME IInv PROVE StacksApart
  <2>. SUFFICES ASSUME ~raced, Good
                PROVE  /\ \A d \in listed : Span(area[d]) \subseteq 0 .. nextFree - 1
                       /\ \A d, e \in listed : d # e => Span(area[d]) \cap Span(area[e]) = {}
                       /\ \A d \in listed, a \in Pending : Span(area[d]) \cap Span(a) = {}
    BY <1>1 DEF IInv, StacksApart
  <2>1. ASSUME NEW d \in listed, NEW p \in Span(area[d])
        PROVE  p \in Nat /\ area[d].start <= p /\ p < End(area[d]) /\ p \in 0 .. nextFree - 1
    BY SpanFacts DEF Span
  <2>2. ASSUME NEW d \in listed, NEW e \in listed, d # e
        PROVE  Span(area[d]) \cap Span(area[e]) = {}
    BY <2>1, <2>2, InOneArea
  <2>3. ASSUME NEW d \in listed, NEW a \in Pending, NEW p \in Span(area[d]), p \in Span(a)
        PROVE  FALSE
    <3>1. PICK c \in Callers : call[c].op = "map" /\ a = call[c].new
      BY DEF Pending, InCall
    <3>2. Maps(c)
      BY <3>1 DEF Maps
    <3>3. a.start = nextFree
      BY <3>1, <3>2 DEF Good, MapsAtEnd
    <3>4. p \in nextFree .. a.va + a.count + a.after - 1
      BY <2>3, <3>3 DEF Span
    <3>5. p \in 0 .. nextFree - 1 /\ nextFree \in Nat
      BY <2>1, SpanFacts
    <3>. QED  BY <3>4, <3>5
  <2>. QED  BY <2>1, <2>2, <2>3
<1>. QED  BY <1>1, InvariantHolds, PTL

(* The guard pages of an area are those kIsVmallocGuardPage takes for      *)
(* guard pages; none has a frame, but for one that kMapPage's failure left *)
(* there, and no page of an area is taken for one.                         *)
THEOREM OverflowsStayDiagnosed == Spec => []OverflowIsDiagnosed
<1>1. ASSUME IInv PROVE OverflowIsDiagnosed
  <2>. SUFFICES ASSUME ~raced, Good
                PROVE  /\ \A d \in listed : \A p \in GuardPages(area[d]) :
                            {pte[p], tlb[p]} \subseteq {None} \union lost /\ IsVmallocGuardPage(p)
                       /\ \A d \in listed : \A p \in Body(area[d]) : ~IsVmallocGuardPage(p)
    BY <1>1 DEF IInv, OverflowIsDiagnosed
  <2>1. ASSUME NEW d \in listed, NEW p \in GuardPages(area[d])
        PROVE  /\ p \in Page /\ p \in Nat /\ area[d].start <= p /\ p < End(area[d])
               /\ p < area[d].va \/ area[d].va + area[d].count <= p
    <3>1. /\ p \in Page /\ p \in Nat
          /\ \/ p < area[d].va /\ area[d].va <= p + area[d].before
             \/ area[d].va + area[d].count <= p /\ p < area[d].va + area[d].count + area[d].after
      BY DEF GuardPages, Page
    <3>. QED  BY <3>1, SpanFacts
  <2>2. ASSUME NEW d \in listed, NEW p \in GuardPages(area[d]) PROVE IsVmallocGuardPage(p)
    <3>1. End(area[d]) = area[d].va + area[d].count + area[d].after
      BY SpanFacts
    <3>. QED  BY <2>1, <3>1 DEF IsVmallocGuardPage
  <2>3. ASSUME NEW d \in listed, NEW p \in GuardPages(area[d]) PROVE ~Has(p)
    <3>1. ASSUME NEW c \in Callers, MapperHas(c, p) PROVE FALSE
      <4>1. nextFree <= p
        BY <2>1, <3>1, HasOne
      <4>. QED  BY <2>1, <4>1, SpanFacts
    <3>2. ASSUME NEW e \in Desc, AreaHas(e, p) PROVE FALSE
      <4>1. e \in listed /\ area[e].va <= p /\ p < area[e].va + area[e].count
        BY <3>2 DEF AreaHas
      <4>2. area[e].start <= p /\ p < End(area[e])
        BY <2>1, <4>1, SpanFacts
      <4>3. e = d
        BY <2>1, <4>1, <4>2, InOneArea
      <4>4. area[d].va \in Nat /\ area[d].count \in Nat
        BY SpanFacts
      <4>. QED  BY <2>1, <4>1, <4>3, <4>4
    <3>. QED  BY <3>1, <3>2 DEF Has
  <2>4. ASSUME NEW d \in listed, NEW p \in GuardPages(area[d])
        PROVE  {pte[p], tlb[p]} \subseteq {None} \union lost
    <3>1. p \in Page /\ ~Has(p)
      BY <2>1, <2>3
    <3>2. pte[p] \in {None} \union lost /\ tlb[p] \in {None, pte[p]} \union lost
      BY <3>1 DEF Good, Backed
    <3>. QED  BY <3>2
  <2>5. ASSUME NEW d \in listed, NEW p \in Body(area[d]), IsVmallocGuardPage(p) PROVE FALSE
    <3>1. p \in Nat /\ area[d].va <= p /\ p < area[d].va + area[d].count
      BY SpanFacts DEF Body
    <3>2. area[d].start <= p /\ p < End(area[d])
      BY <3>1, SpanFacts
    <3>3. PICK e \in listed : \/ area[e].start <= p /\ p < area[e].va
                              \/ /\ area[e].va + area[e].count <= p
                                 /\ p < area[e].va + area[e].count + area[e].after
      BY <2>5 DEF IsVmallocGuardPage
    <3>4. area[e].start <= p /\ p < End(area[e])
      BY <3>1, <3>3, SpanFacts
    <3>5. d = e
      BY <3>1, <3>2, <3>4, InOneArea
    <3>. QED  BY <3>1, <3>3, <3>5, SpanFacts
  <2>. QED  BY <2>2, <2>4, <2>5
<1>. QED  BY <1>1, InvariantHolds, PTL

(* The pages of areas and of calls, as the property AreasBacked names      *)
(* them, are pages that somebody has.                                      *)
LEMMA OwnedHas ==
  ASSUME Good, NEW p \in OwnedPages
  PROVE  p \in Page /\ Has(p)
<1>1. (\E c \in Callers : p \in Owned(c)) \/ (\E d \in Settled : p \in Body(area[d]))
  BY DEF OwnedPages
<1>2. ASSUME NEW c \in Callers, p \in Owned(c) PROVE p \in Page /\ Has(p)
  <2>1. Maps(c) \/ Frees(c)
    BY <1>2 DEF Owned, Maps, Frees
  <2>2. PICK a, i : a = call[c].new /\ i = call[c].i
    OBVIOUS
  <2>3. /\ a.start \in Nat /\ a.va \in Nat /\ a.count \in Nat /\ a.before \in Nat /\ a.after \in Nat
        /\ i \in Nat /\ i <= a.count /\ a.va + a.count <= Window
    <3>1. /\ a.start \in Nat /\ a.va \in Nat /\ a.count \in Nat /\ a.before \in Nat /\ a.after \in Nat
          /\ i \in Nat
      BY <2>1, <2>2, CallFacts DEF Good
    <3>2. CASE Maps(c)
      BY <2>2, <3>1, <3>2 DEF Good, MapsAtEnd, End
    <3>3. CASE Frees(c)
      <4>1. call[c].desc \in listed /\ a = area[call[c].desc] /\ i <= a.count
        BY <2>2, <3>3 DEF Good, FreesListed
      <4>. QED  BY <3>1, <4>1, SpanFacts
    <3>. QED  BY <2>1, <3>1, <3>2, <3>3
  <2>4. CASE call[c].op = "map"
    <3>1. p \in {a.va + j : j \in 0 .. i - 1}
      BY <1>2, <2>2, <2>4 DEF Owned
    <3>2. p \in Nat /\ a.va <= p /\ p < a.va + i /\ p < Window
      BY <2>3, <3>1
    <3>. QED  BY <2>2, <2>4, <3>2 DEF Page, Has, MapperHas
  <2>5. CASE call[c].op \in {"undo", "free"}
    <3>1. p \in {a.va + j : j \in i .. a.count - 1}
      BY <1>2, <2>2, <2>5 DEF Owned
    <3>2. p \in Nat /\ a.va + i <= p /\ p < a.va + a.count /\ p < Window /\ a.va <= p
      BY <2>3, <3>1
    <3>3. CASE call[c].op = "undo"
      BY <2>2, <3>2, <3>3 DEF Page, Has, MapperHas
    <3>4. CASE call[c].op = "free"
      <4>1. Frees(c)
        BY <3>4 DEF Frees
      <4>2. PICK d \in Desc : d = call[c].desc
        BY <4>1, CallFacts DEF Good
      <4>3. /\ d \in listed /\ a = area[d]
            /\ \A e \in Callers : Frees(e) /\ call[e].desc = d => e = c
        BY <2>2, <4>1, <4>2 DEF Good, FreesListed
      <4>4. AreaHas(d, p)
        BY <2>2, <3>2, <4>3 DEF AreaHas
      <4>. QED  BY <3>2, <4>4 DEF Page, Has
    <3>. QED  BY <2>5, <3>3, <3>4
  <2>. QED  BY <2>1, <2>4, <2>5 DEF Maps, Frees
<1>3. ASSUME NEW d \in Settled, p \in Body(area[d]) PROVE p \in Page /\ Has(p)
  <2>1. d \in listed /\ \A c \in Callers : Frees(c) => call[c].desc # d
    BY DEF Settled, InCall, Frees
  <2>2. p \in Nat /\ area[d].va <= p /\ p < area[d].va + area[d].count /\ p < Window
    BY <1>3, <2>1, SpanFacts DEF Body
  <2>3. AreaHas(d, p)
    BY <2>1, <2>2 DEF AreaHas
  <2>4. d \in Desc
    BY <2>1, SpanFacts
  <2>. QED  BY <2>2, <2>3, <2>4 DEF Page, Has
<1>. QED  BY <1>1, <1>2, <1>3
-----------------------------------------------------------------------------
(* Steps that move no frame, no page of an area, and no descriptor.        *)
LEMMA SameFramesTally ==
  ASSUME FramesTally, SameOwners, UNCHANGED <<pte, tables, free, slabs, lost>>
  PROVE  FramesTally'
<1>1. Owners' = Owners
  BY DEF Owners, SameOwners
<1>. QED  BY <1>1 DEF FramesTally

LEMMA SamePagesTally ==
  ASSUME PagesTally, UNCHANGED <<mappedPages, area, listed>>
  PROVE  PagesTally'
BY DEF PagesTally, ListedPages

LEMMA SameDescTally ==
  ASSUME DescTally, UNCHANGED <<spare, listed, slabs>>,
         \A e \in Callers : Maps(e)' = Maps(e) /\ (Maps(e) => call'[e].desc = call[e].desc)
  PROVE  DescTally'
<1>1. Held' = Held
  BY DEF Held
<1>. QED  BY <1>1 DEF DescTally

(* A call of kVmapPages ends, and its descriptor is spare or listed.       *)
LEMMA GivesDescBack ==
  ASSUME Good, DescTally, NEW c \in Callers, Maps(c), call' = [call EXCEPT ![c] = Idle],
         slabs' = slabs, spare' \union listed' = spare \union listed \union {call[c].desc}
  PROVE  DescTally'
<1>1. /\ call'[c] = Idle
      /\ \A e \in Callers : e # c => /\ call'[e] = call[e]
                                     /\ Maps(e)' = Maps(e) /\ Frees(e)' = Frees(e)
  BY OthersCalls, IdleFacts DEF Good
<1>2. \A e \in Callers : ~Maps(e)'
  BY <1>1, IdleFacts, MapperDesc DEF Maps
<1>3. Held' = {}
  BY <1>2 DEF Held
<1>4. Held = {call[c].desc}
  BY MapperDesc DEF Held
<1>. QED  BY <1>3, <1>4 DEF DescTally
(* One frame fewer is free.                                                *)
LEMMA TakeFrame ==
  ASSUME NEW F, F \subseteq Frames, IsFiniteSet(Frames \ F), NEW f \in F
  PROVE  /\ IsFiniteSet(Frames \ (F \ {f}))
         /\ Cardinality(Frames \ (F \ {f})) = Cardinality(Frames \ F) + 1
         /\ Cardinality(Frames \ F) \in Nat
<1>1. PICK S : S = Frames \ F
  OBVIOUS
<1>2. Frames \ (F \ {f}) = S \union {f} /\ f \notin S
  BY <1>1
<1>3. IsFiniteSet(S) /\ Cardinality(S) \in Nat
  BY <1>1, FS_CardinalityType
<1>4. IsFiniteSet(S \union {f}) /\ Cardinality(S \union {f}) = Cardinality(S) + 1
  BY <1>2, <1>3, FS_AddElement
<1>. QED  BY <1>1, <1>2, <1>3, <1>4

(* What the sizes in FramesTally are.                                      *)
LEMMA TallySizes ==
  ASSUME Good, FramesTally
  PROVE  /\ IsFiniteSet(Owners) /\ Cardinality(Owners) \in Nat
         /\ IsFiniteSet(tables \ Tables0) /\ Cardinality(tables \ Tables0) \in Nat
         /\ IsFiniteSet(lost) /\ Cardinality(lost) \in Nat
         /\ IsFiniteSet(Frames \ free) /\ Cardinality(Frames \ free) \in Nat
         /\ slabs \in Nat
<1>1. IsFiniteSet(Owners)
  <2>1. 0 \in Int /\ Window - 1 \in Int
    OBVIOUS
  <2>2. IsFiniteSet(Page)
    BY <2>1, FS_Interval DEF Page
  <2>3. Owners \subseteq Page
    BY DEF Owners
  <2>. QED  BY <2>2, <2>3, FS_Subset
<1>2. IsFiniteSet(AllTables)
  <2>1. IsFiniteSet(0 .. Window)
    BY FS_Interval
  <2>2. AllTables \subseteq 0 .. Window
    BY DEF AllTables, Table, Page
  <2>. QED  BY <2>1, <2>2, FS_Subset
<1>3. IsFiniteSet(tables \ Tables0)
  BY <1>2, FS_Subset DEF FramesTally
<1>. QED  BY <1>1, <1>3, FS_CardinalityType DEF FramesTally, Good, Typed

LEMMA VmapStartTally ==
  ASSUME Good, ~raced', Tally, NEW c \in Callers, NEW n \in Counts, NEW g \in Guards,
         NEW d \in Desc, VmapStart(c, n, g, d)
  PROVE  Tally'
<1>1. /\ call[c] = Idle /\ CacheAlloc(d)
      /\ \E x : call' = [call EXCEPT ![c] = [op |-> "map", desc |-> d, i |-> 0, new |-> x]]
      /\ InCall("map") \union InCall("undo") = {}
      /\ UNCHANGED <<mappedPages, area, listed, pte, tables, lost>>
  BY DEF VmapStart
<1>2. Good' /\ SameOwners
  BY VmapStartGood
<1>3. PagesTally'
  BY <1>1, SamePagesTally DEF Tally
<1>4. Held = {} /\ Held' = {d}
  <2>1. call \in [Callers -> Calls]
    BY DEF Good, Typed
  <2>2. call'[c].op = "map" /\ call'[c].desc = d /\ \A e \in Callers : e # c => call'[e] = call[e]
    BY <1>1, <2>1
  <2>3. \A e \in Callers : ~Maps(e)
    BY <1>1 DEF InCall, Maps
  <2>4. \A e \in Callers : Maps(e)' <=> e = c
    BY <2>2, <2>3 DEF Maps
  <2>. QED  BY <2>2, <2>3, <2>4 DEF Held
<1>5. CASE spare # {} /\ d \in spare /\ spare' = spare \ {d} /\ UNCHANGED <<slabs, free>>
  <2>1. FramesTally'
    BY <1>1, <1>2, <1>5, SameFramesTally DEF Tally
  <2>2. DescTally'
    BY <1>1, <1>4, <1>5 DEF Tally, DescTally
  <2>. QED  BY <1>3, <2>1, <2>2 DEF Tally
<1>6. CASE spare = {} /\ d \in NewSlab /\ spare' = NewSlab \ {d} /\ slabs' = slabs + 1
           /\ \E f \in free : free' = free \ {f}
  <2>1. FramesTally'
    <3>1. PICK f \in free : free' = free \ {f}
      BY <1>6
    <3>2. Owners' = Owners
      BY <1>2 DEF Owners, SameOwners
    <3>3. free \subseteq Frames
      BY DEF Good, Typed
    <3>4. Cardinality(Frames \ free') = Cardinality(Frames \ free) + 1 /\ IsFiniteSet(Frames \ free')
      BY <3>1, <3>3, TakeFrame DEF Tally, FramesTally
    <3>5. Cardinality(Frames \ free')
            = Cardinality(Owners) + Cardinality(tables \ Tables0) + slabs' + Cardinality(lost)
      BY <1>6, <3>4, TallySizes DEF Tally, FramesTally
    <3>. QED  BY <1>1, <3>1, <3>2, <3>4, <3>5 DEF Tally, FramesTally
  <2>2. DescTally'
    <3>1. listed = {e \in Desc : e <= slabs * PerSlab}
      BY <1>4, <1>6 DEF Tally, DescTally
    <3>2. \A e \in Desc : e <= (slabs + 1) * PerSlab <=> e <= slabs * PerSlab \/ e \in NewSlab
      <4>1. slabs \in Nat
        BY DEF Good, Typed
      <4>. DEFINE k == slabs * PerSlab
                  m == (slabs + 1) * PerSlab
      <4>2. k \in Nat /\ m \in Nat /\ k <= m
        BY <4>1, SlabFacts
      <4>3. \A e \in Desc : e \in NewSlab <=> k < e /\ e <= m
        BY DEF NewSlab
      <4>. HIDE DEF k, m
      <4>4. \A e \in Desc : e <= m <=> e <= k \/ e \in NewSlab
        BY <4>2, <4>3
      <4>. QED  BY <4>4 DEF k, m
    <3>3. NewSlab \subseteq Desc
      BY DEF NewSlab
    <3>4. spare' \union listed' \union Held' = NewSlab \union listed
      BY <1>1, <1>4, <1>6
    <3>5. NewSlab \union listed = {e \in Desc : e <= (slabs + 1) * PerSlab}
      BY <3>1, <3>2, <3>3
    <3>. QED  BY <1>6, <3>4, <3>5 DEF DescTally
  <2>. QED  BY <1>3, <2>1, <2>2 DEF Tally
<1>. QED  BY <1>1, <1>5, <1>6 DEF CacheAlloc
(* kVmapPages has mapped one page more, perhaps with a new page table.     *)
LEMMA VmapPageTally ==
  ASSUME Good, Tally, NEW c \in Callers, VmapPage(c)
  PROVE  Tally'
<1>. PICK p : p = At(c)
  OBVIOUS
<1>1. /\ Mapping(c) /\ call' = [call EXCEPT ![c].i = @ + 1]
      /\ UNCHANGED <<mappedPages, area, listed, spare, slabs, lost>>
  BY DEF VmapPage
<1>2. PICK f \in free : /\ \/ Table(p) \in tables /\ free' = free \ {f} /\ tables' = tables
                           \/ /\ Table(p) \notin tables /\ tables' = tables \union {Table(p)}
                              /\ \E t \in free \ {f} : free' = free \ {f, t}
                        /\ pte' = [pte EXCEPT ![p] = f]
  BY DEF VmapPage, Mapped
<1>3. p \in Page /\ ~Has(p) /\ \A q \in Page : Has(q)' <=> Has(q) \/ q = p
  BY VmapPageGood
<1>4. PagesTally'
  BY <1>1, SamePagesTally DEF Tally
<1>5. DescTally'
  <2>1. call[c].op = "map"
    BY <1>1 DEF Mapping
  <2>2. call[c] \in [op : {"map", "undo", "free"}, desc : Desc, i : Nat, new : Area]
    BY <2>1, CallFacts DEF Good, Maps
  <2>3. call \in [Callers -> Calls]
    BY DEF Good, Typed
  <2>4. \A e \in Callers : call'[e].op = call[e].op /\ call'[e].desc = call[e].desc
    BY <1>1, <2>2, <2>3
  <2>. QED  BY <1>1, <2>4, SameDescTally DEF Tally, Maps
<1>6. Owners' = Owners \union {p} /\ Cardinality(Owners') = Cardinality(Owners) + 1
  <2>1. Owners' = Owners \union {p} /\ p \notin Owners
    BY <1>3 DEF Owners
  <2>. QED  BY <2>1, TallySizes, FS_AddElement DEF Tally
<1>7. \A q \in Owners' : pte'[q] \notin lost'
  <2>1. \A q \in Owners : q # p /\ pte'[q] = pte[q] /\ pte[q] \notin lost
    BY <1>2, <1>3 DEF Tally, FramesTally, Owners, Good, Typed
  <2>2. pte'[p] = f /\ f \notin lost
    BY <1>2, <1>3 DEF Tally, FramesTally, Good, Typed
  <2>. QED  BY <1>1, <1>6, <2>1, <2>2
<1>8. /\ IsFiniteSet(Frames \ (free \ {f}))
      /\ Cardinality(Frames \ (free \ {f})) = Cardinality(Frames \ free) + 1
  BY TakeFrame DEF Tally, FramesTally, Good, Typed
<1>9. CASE free' = free \ {f} /\ tables' = tables
  <2>1. Cardinality(Frames \ free')
          = Cardinality(Owners') + Cardinality(tables' \ Tables0) + slabs' + Cardinality(lost')
    BY <1>1, <1>6, <1>8, <1>9, TallySizes DEF Tally, FramesTally
  <2>2. FramesTally'
    BY <1>1, <1>7, <1>8, <1>9, <2>1 DEF Tally, FramesTally
  <2>. QED  BY <1>4, <1>5, <2>2 DEF Tally
<1>10. CASE /\ Table(p) \notin tables /\ tables' = tables \union {Table(p)}
            /\ \E t \in free \ {f} : free' = free \ {f, t}
  <2>1. PICK t \in free \ {f} : free' = (free \ {f}) \ {t}
    BY <1>10
  <2>2. free \ {f} \subseteq Frames
    BY DEF Good, Typed
  <2>3. /\ IsFiniteSet(Frames \ free')
        /\ Cardinality(Frames \ free') = Cardinality(Frames \ (free \ {f})) + 1
    BY <1>8, <2>1, <2>2, TakeFrame
  <2>4. /\ tables' \ Tables0 = (tables \ Tables0) \union {Table(p)}
        /\ Table(p) \notin tables \ Tables0
    BY <1>10 DEF Tally, FramesTally
  <2>5. Cardinality(tables' \ Tables0) = Cardinality(tables \ Tables0) + 1
    BY <2>4, TallySizes, FS_AddElement DEF Tally
  <2>6. Cardinality(Frames \ free')
          = Cardinality(Owners') + Cardinality(tables' \ Tables0) + slabs' + Cardinality(lost')
    BY <1>1, <1>6, <1>8, <2>3, <2>5, TallySizes DEF Tally, FramesTally
  <2>7. Table(p) \in AllTables
    BY <1>3 DEF AllTables
  <2>8. FramesTally'
    BY <1>1, <1>7, <1>10, <2>1, <2>3, <2>6, <2>7 DEF Tally, FramesTally, AllTables
  <2>. QED  BY <1>4, <1>5, <2>8 DEF Tally
<1>. QED  BY <1>2, <1>9, <1>10

(* As many images as there are members, when no two share one.             *)
LEMMA ImageSize ==
  ASSUME NEW M, IsFiniteSet(M), NEW L, NEW h \in [M -> L],
         \A l \in L : \E m \in M : h[m] = l,
         \A x, y \in M : h[x] = h[y] => x = y
  PROVE  IsFiniteSet(L) /\ Cardinality(L) = Cardinality(M)
<1>1. h \in Bijection(M, L)
  BY DEF Bijection, Injection, Surjection, IsInjective
<1>. QED  BY <1>1, FS_Bijection DEF ExistsBijection

(* A page table could not be had: the pages mapped so far are left behind, *)
(* and their frames are lost.                                              *)
LEMMA VmapNoTableTally ==
  ASSUME Good, Tally, NEW c \in Callers, VmapNoTable(c)
  PROVE  Tally'
<1>. DEFINE M == {q \in Page : MapperHas(c, q)}
            L == LeftBy(c)
<1>1. /\ call[c].op = "map"
      /\ call' = [call EXCEPT ![c] = Idle] /\ spare' = spare \union {call[c].desc}
      /\ UNCHANGED <<mappedPages, area, listed, slabs, pte, tables, free>>
  BY DEF VmapNoTable, Mapping, memory
<1>2. /\ \A q \in Page : Has(q)' <=> Has(q) /\ ~MapperHas(c, q)
      /\ \A q \in Page : MapperHas(c, q) => pte[q] \in L
      /\ lost' = lost \union L
      /\ \A f \in L : \E q \in Page : MapperHas(c, q) /\ pte[q] = f
  BY VmapNoTableGood
<1>. HIDE DEF L
<1>3. PagesTally'
  BY <1>1, SamePagesTally DEF Tally
<1>4. DescTally'
  BY <1>1, GivesDescBack DEF Tally, Maps
<1>5. M \subseteq Owners /\ Owners' = Owners \ M
  BY <1>2 DEF Owners, Has
<1>6. \A q \in Owners : q \in Page /\ pte[q] \notin free /\ pte[q] \notin lost
  BY DEF Owners, Good, Backed, Tally, FramesTally
<1>7. \A q, s \in Owners : pte[q] = pte[s] => q = s
  BY DEF Owners, Good, Backed
<1>8. \A f \in L : \E q \in M : pte[q] = f
  BY <1>2
<1>9. \A q \in M : pte[q] \in L
  BY <1>2
<1>10. L \cap free = {} /\ L \cap lost = {}
  BY <1>5, <1>6, <1>8
<1>. HIDE DEF M
<1>11. IsFiniteSet(M) /\ Cardinality(M) \in Nat
  BY <1>5, TallySizes, FS_Subset, FS_CardinalityType DEF Tally
<1>12. IsFiniteSet(L) /\ Cardinality(L) = Cardinality(M)
  <2>. DEFINE h == [q \in M |-> pte[q]]
  <2>1. h \in [M -> L] /\ (\A f \in L : \E q \in M : h[q] = f)
    BY <1>8, <1>9
  <2>2. \A x, y \in M : h[x] = h[y] => x = y
    BY <1>5, <1>7
  <2>. HIDE DEF h
  <2>. QED  BY <1>11, <2>1, <2>2, ImageSize
<1>13. Cardinality(Owners') = Cardinality(Owners) - Cardinality(M) /\ Cardinality(Owners') \in Nat
  <2>1. IsFiniteSet(Owners') /\ Owners = Owners' \union M /\ Owners' \cap M = {}
    BY <1>5, TallySizes, FS_Subset DEF Tally
  <2>2. Cardinality(Owners) = Cardinality(Owners') + Cardinality(M) - Cardinality({})
    BY <1>11, <2>1, FS_Union
  <2>. QED  BY <1>11, <2>1, <2>2, FS_EmptySet, FS_CardinalityType
<1>14. IsFiniteSet(lost') /\ Cardinality(lost') = Cardinality(lost) + Cardinality(L)
  <2>1. lost \cap L = {} /\ IsFiniteSet(lost)
    BY <1>10, TallySizes DEF Tally
  <2>2. Cardinality(lost') = Cardinality(lost) + Cardinality(L) - Cardinality({})
    BY <1>2, <1>12, <2>1, FS_Union
  <2>. QED  BY <1>2, <1>11, <1>12, <2>1, <2>2, FS_Union, FS_EmptySet, FS_CardinalityType
<1>15. \A q \in Owners' : pte'[q] \notin lost'
  BY <1>1, <1>2, <1>5, <1>6, <1>7, <1>8
<1>16. Cardinality(Frames \ free')
         = Cardinality(Owners') + Cardinality(tables' \ Tables0) + slabs' + Cardinality(lost')
  BY <1>1, <1>11, <1>12, <1>13, <1>14, TallySizes DEF Tally, FramesTally
<1>17. FramesTally'
  BY <1>1, <1>2, <1>10, <1>14, <1>15, <1>16 DEF Tally, FramesTally, AllTables
<1>. QED  BY <1>3, <1>4, <1>17 DEF Tally
(* kVfree, or a call that gives up, gives the frame of one page back.      *)
LEMMA TakeBackPageTally ==
  ASSUME Good, Tally, NEW c \in Callers, TakeBackPage(c)
  PROVE  Tally'
<1>. PICK p : p = At(c)
  OBVIOUS
<1>1. /\ call[c].op \in {"undo", "free"} /\ call' = [call EXCEPT ![c].i = @ + 1]
      /\ pte' = [pte EXCEPT ![p] = None] /\ free' = free \union ({pte[p]} \ {None})
      /\ UNCHANGED <<mappedPages, area, listed, spare, slabs, tables, lost>>
  BY DEF TakeBackPage, Unmapped
<1>2. p \in Page /\ Has(p) /\ \A q \in Page : Has(q)' <=> Has(q) /\ q # p
  BY TakeBackHas
<1>3. PagesTally'
  BY <1>1, SamePagesTally DEF Tally
<1>4. DescTally'
  <2>1. call[c] \in [op : {"map", "undo", "free"}, desc : Desc, i : Nat, new : Area]
    BY <1>1, TakesBack
  <2>2. call \in [Callers -> Calls]
    BY DEF Good, Typed
  <2>3. \A e \in Callers : call'[e].op = call[e].op /\ call'[e].desc = call[e].desc
    BY <1>1, <2>1, <2>2
  <2>. QED  BY <1>1, <2>3, SameDescTally DEF Tally, Maps
<1>5. Owners' = Owners \ {p} /\ p \in Owners
  BY <1>2 DEF Owners
<1>6. Cardinality(Owners') = Cardinality(Owners) - 1
  BY <1>5, TallySizes, FS_RemoveElement DEF Tally
<1>7. pte[p] # None /\ pte[p] \in Frames \ free /\ pte[p] \notin lost
  BY <1>2, <1>5 DEF Good, Typed, Backed, Tally, FramesTally
<1>8. free' = free \union {pte[p]}
  BY <1>1, <1>7
<1>9. IsFiniteSet(Frames \ free') /\ Cardinality(Frames \ free') = Cardinality(Frames \ free) - 1
  <2>1. PICK S : S = Frames \ free
    OBVIOUS
  <2>2. Frames \ free' = S \ {pte[p]} /\ pte[p] \in S
    BY <1>7, <1>8, <2>1
  <2>3. IsFiniteSet(S)
    BY <2>1, TallySizes DEF Tally
  <2>. QED  BY <2>1, <2>2, <2>3, FS_RemoveElement
<1>10. \A q \in Owners' : pte'[q] \notin lost'
  <2>1. \A q \in Owners' : q \in Owners /\ pte'[q] = pte[q]
    BY <1>1, <1>5 DEF Owners, Good, Typed
  <2>. QED  BY <1>1, <2>1 DEF Tally, FramesTally
<1>11. Cardinality(Frames \ free')
         = Cardinality(Owners') + Cardinality(tables' \ Tables0) + slabs' + Cardinality(lost')
  BY <1>1, <1>6, <1>9, TallySizes DEF Tally, FramesTally
<1>12. FramesTally'
  BY <1>1, <1>7, <1>8, <1>9, <1>10, <1>11 DEF Tally, FramesTally, AllTables
<1>. QED  BY <1>3, <1>4, <1>12 DEF Tally

(* How many pages an area has, and how many the listed ones have.          *)
LEMMA BodySize ==
  ASSUME NEW a \in Area
  PROVE  IsFiniteSet(Body(a)) /\ Cardinality(Body(a)) = a.count /\ a.count \in Nat
<1>1. a.va \in Nat /\ a.count \in Nat
  BY DEF Area
<1>2. PICK x, y : x = a.va /\ y = a.va + a.count - 1
  OBVIOUS
<1>3. x \in Int /\ y \in Int
  BY <1>1, <1>2
<1>4. IsFiniteSet(x .. y) /\ Cardinality(x .. y) = IF x > y THEN 0 ELSE y - x + 1
  BY <1>3, FS_Interval
<1>. QED  BY <1>1, <1>2, <1>4 DEF Body

LEMMA ListedFacts ==
  ASSUME Good
  PROVE  /\ IsFiniteSet(ListedPages) /\ Cardinality(ListedPages) \in Nat
         /\ \A p \in ListedPages : p \in Nat /\ p < nextFree
         /\ \A d, e \in listed : d # e => Body(area[d]) \cap Body(area[e]) = {}
<1>1. ASSUME NEW d \in listed, NEW p \in Body(area[d])
      PROVE  p \in Nat /\ area[d].start <= p /\ p < End(area[d]) /\ p < nextFree
  BY SpanFacts DEF Body
<1>2. \A p \in ListedPages : p \in Nat /\ p < nextFree
  BY <1>1 DEF ListedPages
<1>3. IsFiniteSet(ListedPages)
  <2>1. nextFree \in Nat
    BY DEF Good, Typed
  <2>2. ListedPages \in SUBSET Nat /\ \A p \in ListedPages : p <= nextFree
    BY <1>2, <2>1
  <2>. QED  BY <2>1, <2>2, FS_BoundedSetOfNaturals
<1>4. ASSUME NEW d \in listed, NEW e \in listed, d # e
      PROVE  Body(area[d]) \cap Body(area[e]) = {}
  BY <1>1, <1>4, InOneArea
<1>. QED  BY <1>2, <1>3, <1>4, FS_CardinalityType

(* kVmapPages lists an area of as many pages as it adds to the count.      *)
LEMMA VmapEndTally ==
  ASSUME Good, Tally, NEW c \in Callers, VmapEnd(c)
  PROVE  Tally'
<1>. PICK d, a : d = call[c].desc /\ a = call[c].new
  OBVIOUS
<1>1. /\ call[c].op = "map" /\ area' = [area EXCEPT ![d] = a] /\ listed' = listed \union {d}
      /\ mappedPages' = mappedPages + a.count /\ call' = [call EXCEPT ![c] = Idle]
      /\ UNCHANGED <<spare, slabs, pte, tables, free, lost>>
  BY DEF VmapEnd, memory
<1>2. Maps(c)
  BY <1>1 DEF Maps
<1>3. FramesTally'
  BY <1>1, VmapEndGood, SameFramesTally DEF Tally
<1>4. DescTally'
  BY <1>1, <1>2, GivesDescBack DEF Tally
<1>5. d \in Desc /\ d \notin listed /\ a \in Area /\ a.va \in Nat /\ a.start \in Nat
      /\ a.before \in Nat /\ a.count \in Nat /\ a.start = nextFree /\ a.start + a.before = a.va
  BY <1>2, CallFacts, MapperDesc DEF Good, MapsAtEnd
<1>6. ListedPages' = ListedPages \union Body(a)
  <2>1. area'[d] = a /\ \A e \in listed : e # d /\ area'[e] = area[e]
    BY <1>1, <1>5 DEF Good, Typed
  <2>. QED  BY <1>1, <2>1 DEF ListedPages, Body
<1>7. ListedPages \cap Body(a) = {}
  BY <1>5, ListedFacts DEF Body
<1>8. Cardinality(ListedPages') = Cardinality(ListedPages) + a.count
  <2>1. Cardinality(ListedPages \union Body(a))
          = Cardinality(ListedPages) + Cardinality(Body(a)) - Cardinality({})
    BY <1>5, <1>7, ListedFacts, BodySize, FS_Union
  <2>. QED  BY <1>5, <1>6, <2>1, ListedFacts, BodySize, FS_EmptySet
<1>9. PagesTally'
  BY <1>1, <1>5, <1>8 DEF Tally, PagesTally
<1>. QED  BY <1>3, <1>4, <1>9 DEF Tally

(* kVfree takes an area off the list and its pages off the count.          *)
LEMMA VfreeEndTally ==
  ASSUME Good, Tally, NEW c \in Callers, VfreeEnd(c)
  PROVE  Tally'
<1>. PICK d : d = call[c].desc
  OBVIOUS
<1>1. /\ call[c].op = "free" /\ area' = [area EXCEPT ![d] = NoArea] /\ listed' = listed \ {d}
      /\ spare' = spare \union {d}
      /\ mappedPages' = mappedPages - call[c].new.count /\ call' = [call EXCEPT ![c] = Idle]
      /\ UNCHANGED <<slabs, pte, tables, free, lost>>
  BY DEF VfreeEnd, memory
<1>2. Frees(c) /\ ~Maps(c)
  BY <1>1 DEF Frees, Maps
<1>3. FramesTally'
  BY <1>1, VfreeEndGood, SameFramesTally DEF Tally
<1>4. d \in listed /\ d \in Desc /\ call[c].new = area[d] /\ area[d] \in Area
  BY <1>2, AreaFacts DEF Good, FreesListed, Typed
<1>5. DescTally'
  <2>1. call'[c] = Idle /\ \A e \in Callers : e # c => call'[e] = call[e] /\ Maps(e)' = Maps(e)
    BY <1>1, OthersCalls, IdleFacts DEF Good
  <2>2. ~Maps(c)'
    BY <2>1, IdleFacts DEF Maps
  <2>3. \A e \in Callers : (Maps(e)' <=> Maps(e)) /\ (Maps(e) => call'[e].desc = call[e].desc)
    BY <1>2, <2>1, <2>2
  <2>4. Held' = Held
    BY <2>3 DEF Held
  <2>. QED  BY <1>1, <1>4, <2>4 DEF Tally, DescTally
<1>6. ListedPages = ListedPages' \union Body(area[d]) /\ ListedPages' \cap Body(area[d]) = {}
  <2>1. \A e \in listed' : e \in listed /\ e # d /\ area'[e] = area[e]
    BY <1>1 DEF Good, Typed
  <2>2. \A e \in listed' : Body(area[e]) \cap Body(area[d]) = {}
    BY <1>4, <2>1, ListedFacts
  <2>3. ListedPages' = UNION {Body(area[e]) : e \in listed \ {d}}
    BY <1>1, <2>1 DEF ListedPages, Body
  <2>4. ListedPages = (UNION {Body(area[e]) : e \in listed \ {d}}) \union Body(area[d])
    BY <1>4 DEF ListedPages
  <2>. QED  BY <1>1, <2>2, <2>3, <2>4
<1>7. Cardinality(ListedPages) = Cardinality(ListedPages') + call[c].new.count
      /\ Cardinality(ListedPages') \in Nat /\ call[c].new.count \in Nat
  <2>1. IsFiniteSet(ListedPages')
    BY <1>6, ListedFacts, FS_Subset
  <2>2. Cardinality(ListedPages' \union Body(area[d]))
          = Cardinality(ListedPages') + Cardinality(Body(area[d])) - Cardinality({})
    BY <1>4, <1>6, <2>1, BodySize, FS_Union
  <2>. QED  BY <1>4, <1>6, <2>1, <2>2, BodySize, FS_EmptySet, FS_CardinalityType
<1>8. PagesTally'
  BY <1>1, <1>7 DEF Tally, PagesTally
<1>. QED  BY <1>3, <1>5, <1>8 DEF Tally
(* The other steps move no frame and list no area.                         *)
LEMMA VmapNoFrameTally ==
  ASSUME Good, Tally, NEW c \in Callers, VmapNoFrame(c)
  PROVE  Tally'
<1>1. /\ call[c].op = "map"
      /\ \E x : call' = [call EXCEPT ![c] = [op |-> "undo", desc |-> call[c].desc, i |-> 0, new |-> x]]
      /\ UNCHANGED <<mappedPages, area, listed, spare, slabs, pte, tables, free, lost>>
  BY DEF VmapNoFrame, Mapping, memory
<1>2. \A e \in Callers : (Maps(e)' <=> Maps(e)) /\ (Maps(e) => call'[e].desc = call[e].desc)
  <2>1. call \in [Callers -> Calls]
    BY DEF Good, Typed
  <2>2. call'[c].op = "undo" /\ call'[c].desc = call[c].desc /\ \A e \in Callers : e # c => call'[e] = call[e]
    BY <1>1, <2>1
  <2>. QED  BY <1>1, <2>2 DEF Maps
<1>3. Held' = Held
  BY <1>2 DEF Held
<1>4. DescTally'
  BY <1>1, <1>3 DEF Tally, DescTally
<1>. QED  BY <1>1, <1>4, VmapNoFrameGood, SameFramesTally, SamePagesTally DEF Tally

LEMMA VfreeStartTally ==
  ASSUME Good, Tally, NEW c \in Callers, NEW d \in Desc, VfreeStart(c, d)
  PROVE  Tally'
<1>1. /\ call[c] = Idle
      /\ \E x : call' = [call EXCEPT ![c] = [op |-> "free", desc |-> d, i |-> 0, new |-> x]]
      /\ UNCHANGED <<mappedPages, area, listed, spare, slabs, pte, tables, free, lost>>
  BY DEF VfreeStart, memory
<1>2. \A e \in Callers : (Maps(e)' <=> Maps(e)) /\ (Maps(e) => call'[e].desc = call[e].desc)
  <2>1. call \in [Callers -> Calls]
    BY DEF Good, Typed
  <2>2. call'[c].op = "free" /\ \A e \in Callers : e # c => call'[e] = call[e]
    BY <1>1, <2>1
  <2>. QED  BY <1>1, <2>2, IdleFacts DEF Maps
<1>3. Held' = Held
  BY <1>2 DEF Held
<1>4. DescTally'
  BY <1>1, <1>3 DEF Tally, DescTally
<1>. QED  BY <1>1, <1>4, VfreeStartGood, SameFramesTally, SamePagesTally DEF Tally

LEMMA UndoEndTally ==
  ASSUME Good, Tally, NEW c \in Callers, UndoEnd(c)
  PROVE  Tally'
<1>1. /\ call[c].op = "undo"
      /\ call' = [call EXCEPT ![c] = Idle] /\ spare' = spare \union {call[c].desc}
      /\ UNCHANGED <<mappedPages, area, listed, slabs, pte, tables, free, lost>>
  BY DEF UndoEnd, memory
<1>2. DescTally'
  BY <1>1, GivesDescBack DEF Tally, Maps
<1>. QED  BY <1>1, <1>2, UndoEndGood, SameFramesTally, SamePagesTally DEF Tally

LEMMA TlbTally ==
  ASSUME Tally, UNCHANGED <<mappedPages, area, listed, spare, slabs, pte, tables, free, call, lost>>
  PROVE  Tally'
<1>1. SameOwners
  BY DEF SameOwners, Has, MapperHas, AreaHas, Frees
<1>2. Held' = Held
  BY DEF Held, Maps
<1>3. DescTally'
  BY <1>2 DEF Tally, DescTally
<1>. QED  BY <1>1, <1>3, SameFramesTally, SamePagesTally DEF Tally

LEMMA InitTally == Init => Tallied
<1>. SUFFICES ASSUME Init PROVE Tally
  BY DEF Tallied
<1>1. \A c \in Callers : call[c].op = "none"
  BY DEF Init, Idle
<1>2. Owners = {} /\ Held = {} /\ ListedPages = {}
  BY <1>1 DEF Owners, Has, MapperHas, AreaHas, Held, Maps, ListedPages, Init
<1>3. Frames \ free = {} /\ tables \ Tables0 = {} /\ lost = {} /\ slabs = 0 /\ mappedPages = 0
      /\ spare = {} /\ listed = {} /\ tables = Tables0
  BY DEF Init
<1>4. FramesTally
  <2>1. Tables0 \subseteq tables /\ tables \subseteq AllTables
    BY <1>3, TablesAssumption DEF AllTables
  <2>2. Cardinality(Frames \ free)
          = Cardinality(Owners) + Cardinality(tables \ Tables0) + slabs + Cardinality(lost)
    <3>1. Cardinality({}) = 0 /\ 0 = 0 + 0 + 0 + 0
      BY FS_EmptySet
    <3>. QED  BY <1>2, <1>3, <3>1
  <2>. QED  BY <1>2, <1>3, <2>1, <2>2, FS_EmptySet DEF FramesTally
<1>5. PagesTally
  BY <1>2, <1>3, FS_EmptySet DEF PagesTally
<1>6. DescTally
  <2>1. \A d \in Desc : ~(d <= 0)
    OBVIOUS
  <2>2. slabs * PerSlab = 0
    BY <1>3
  <2>. QED  BY <1>2, <1>3, <2>1, <2>2 DEF DescTally
<1>. QED  BY <1>4, <1>5, <1>6 DEF Tally
LEMMA NextTally == IInv /\ Tallied /\ [Next]_vars => Tallied'
<1>. SUFFICES ASSUME IInv, Tallied, [Next]_vars, ~raced' PROVE Tally'
  BY DEF Tallied
<1>1. ~raced
  BY DEF Next, vars, memory, VmapStart, VmapPage, VmapNoFrame, VmapNoTable, VmapEnd, VfreeStart,
         TakeBackPage, UndoEnd, VfreeEnd, Use, LoadCr3
<1>2. Good /\ Tally
  BY <1>1 DEF IInv, Tallied
<1>3. ASSUME NEW c \in Callers, NEW n \in Counts, NEW g \in Guards, NEW d \in Desc,
             VmapStart(c, n, g, d)
      PROVE  Tally'
  BY <1>2, <1>3, VmapStartTally
<1>4. ASSUME NEW c \in Callers, VmapPage(c) PROVE Tally'
  BY <1>2, <1>4, VmapPageTally
<1>5. ASSUME NEW c \in Callers, VmapNoFrame(c) PROVE Tally'
  BY <1>2, <1>5, VmapNoFrameTally
<1>6. ASSUME NEW c \in Callers, VmapNoTable(c) PROVE Tally'
  BY <1>2, <1>6, VmapNoTableTally
<1>7. ASSUME NEW c \in Callers, VmapEnd(c) PROVE Tally'
  BY <1>2, <1>7, VmapEndTally
<1>8. ASSUME NEW c \in Callers, NEW d \in Desc, VfreeStart(c, d) PROVE Tally'
  BY <1>2, <1>8, VfreeStartTally
<1>9. ASSUME NEW c \in Callers, TakeBackPage(c) PROVE Tally'
  BY <1>2, <1>9, TakeBackPageTally
<1>10. ASSUME NEW c \in Callers, UndoEnd(c) PROVE Tally'
  BY <1>2, <1>10, UndoEndTally
<1>11. ASSUME NEW c \in Callers, VfreeEnd(c) PROVE Tally'
  BY <1>2, <1>11, VfreeEndTally
<1>12. ASSUME NEW p \in Page, Use(p) PROVE Tally'
  BY <1>2, <1>12, TlbTally DEF Use
<1>13. CASE LoadCr3
  BY <1>2, <1>13, TlbTally DEF LoadCr3
<1>14. CASE UNCHANGED vars
  BY <1>2, <1>14, TlbTally DEF vars, memory
<1>. QED  BY <1>3, <1>4, <1>5, <1>6, <1>7, <1>8, <1>9, <1>10, <1>11, <1>12, <1>13, <1>14 DEF Next

(* The counts agree with what is mapped, listed and held in every          *)
(* reachable state.                                                        *)
THEOREM TallyHolds == Spec => []Tallied
<1>. QED  BY InitTally, NextTally, InvariantHolds, PTL DEF Spec
-----------------------------------------------------------------------------
(* The pages that somebody has are those the property names.               *)
LEMMA HasOwned ==
  ASSUME Good
  PROVE  OwnedPages = Owners
<1>1. ASSUME NEW c \in Callers, NEW p \in Page, MapperHas(c, p) PROVE p \in Owned(c)
  <2>1. Maps(c) /\ p \in Nat
    BY <1>1 DEF MapperHas, Maps, Page
  <2>2. PICK a, i : a = call[c].new /\ i = call[c].i
    OBVIOUS
  <2>3. a.va \in Nat /\ a.count \in Nat /\ i \in Nat
    BY <2>1, <2>2, CallFacts DEF Good
  <2>4. CASE call[c].op = "map"
    <3>1. a.va <= p /\ p < a.va + i
      BY <1>1, <2>2, <2>4 DEF MapperHas
    <3>2. p - a.va \in 0 .. i - 1 /\ p = a.va + (p - a.va)
      BY <2>1, <2>3, <3>1
    <3>. QED  BY <2>2, <2>4, <3>2 DEF Owned
  <2>5. CASE call[c].op = "undo"
    <3>1. a.va + i <= p /\ p < a.va + a.count
      BY <1>1, <2>2, <2>5 DEF MapperHas
    <3>2. p - a.va \in i .. a.count - 1 /\ p = a.va + (p - a.va)
      BY <2>1, <2>3, <3>1
    <3>. QED  BY <2>2, <2>5, <3>2 DEF Owned
  <2>. QED  BY <2>1, <2>4, <2>5 DEF Maps
<1>2. ASSUME NEW d \in Desc, NEW p \in Page, AreaHas(d, p)
      PROVE  (\E c \in Callers : p \in Owned(c)) \/ (d \in Settled /\ p \in Body(area[d]))
  <2>1. /\ d \in listed /\ area[d].va <= p /\ p < area[d].va + area[d].count
        /\ area[d].va \in Nat /\ area[d].count \in Nat /\ p \in Nat
    <3>1. d \in listed /\ area[d].va <= p /\ p < area[d].va + area[d].count
      BY <1>2 DEF AreaHas
    <3>. QED  BY <3>1, AreaFacts DEF Good, Page
  <2>2. CASE \E c \in Callers : Frees(c) /\ call[c].desc = d
    <3>1. PICK c \in Callers : Frees(c) /\ call[c].desc = d
      BY <2>2
    <3>2. PICK a, i : a = call[c].new /\ i = call[c].i
      OBVIOUS
    <3>3. a = area[d] /\ i \in Nat /\ a.va + i <= p
      BY <1>2, <3>1, <3>2, CallFacts DEF Good, FreesListed, AreaHas
    <3>4. p - a.va \in i .. a.count - 1 /\ p = a.va + (p - a.va)
      BY <2>1, <3>3
    <3>5. call[c].op = "free"
      BY <3>1 DEF Frees
    <3>. QED  BY <3>2, <3>4, <3>5 DEF Owned
  <2>3. CASE ~\E c \in Callers : Frees(c) /\ call[c].desc = d
    <3>1. d \in Settled
      BY <2>1, <2>3 DEF Settled, InCall, Frees
    <3>2. p \in Body(area[d])
      BY <2>1 DEF Body
    <3>. QED  BY <3>1, <3>2
  <2>. QED  BY <2>2, <2>3
<1>3. ASSUME NEW p \in Page, Has(p) PROVE p \in OwnedPages
  BY <1>1, <1>2, <1>3 DEF Has, OwnedPages
<1>4. \A p \in OwnedPages : p \in Page /\ Has(p)
  BY OwnedHas
<1>. QED  BY <1>3, <1>4 DEF Owners

(* The window accounts for its memory, for any numbers of pages, frames,   *)
(* descriptors and callers: every page of an area has a frame of its own,  *)
(* and every frame, descriptor and mapped page is counted, also when       *)
(* kVmapPages fails half-way: kVmapPages, kVfree.                          *)
THEOREM AreasStayAccounted == Spec => []AreasAccounted
<1>1. ASSUME IInv, Tallied PROVE AreasAccounted
  <2>. SUFFICES ASSUME Good, Tally PROVE TypeOK /\ AreasBacked /\ NothingLost
    BY <1>1 DEF IInv, Tallied, AreasAccounted
  <2>1. TypeOK
    BY DEF TypeOK, Good, Typed, Tally, FramesTally, PagesTally, AllTables
  <2>2. AreasBacked
    BY OwnedHas DEF AreasBacked, Good, Backed
  <2>3. OwnedPages = Owners
    BY HasOwned
  <2>4. \A p \in Page : pte[p] # None => p \in OwnedPages \/ pte[p] \in lost
    BY <2>3 DEF Good, Backed, Owners
  <2>5. Held = {call[c].desc : c \in InCall("map") \union InCall("undo")}
    BY DEF Held, InCall, Maps
  <2>6. NothingLost
    BY <2>3, <2>4, <2>5 DEF NothingLost, Tally, FramesTally, PagesTally, DescTally, ListedPages
  <2>. QED  BY <2>1, <2>2, <2>6
<1>. QED  BY <1>1, InvariantHolds, TallyHolds, PTL
=============================================================================
