--------------------------- MODULE Programs_proofs ---------------------------
(***************************************************************************)
(* Proofs about how a program is started and run: module ElfLoader, for    *)
(* any sizes of pages, tables and words, any number of frames and any      *)
(* program headers (a program starts in the memory its image describes,    *)
(* and a failure on the way loses no frame), and module Scheduler, for any *)
(* number of tasks, levels and ticks per slice (kGetNextTaskToRun          *)
(* overlooks no ready task, and the lists, the wait list and the loaded    *)
(* address space stay consistent).                                         *)
(***************************************************************************)
EXTENDS Scheduler, ElfLoader, KernelLemmas, SequenceTheorems, FiniteSetTheorems, FunctionTheorems

-----------------------------------------------------------------------------
(* Addresses.  An entry of a table of level l, counted from the root's as  *)
(* the first, covers Size(l) bytes; Prefix is its number among all entries *)
(* of that level there could be.                                           *)
Size(l) == PageSize * Fan ^ (Depth - l)
Prefix(a, l) == a \div Size(l)

LEMMA Numbers ==
  /\ Word \in Nat \ {0} /\ PageSize \in Nat \ {0} /\ Fan \in Nat \ {0} /\ Depth \in Nat \ {0}
  /\ FileSize \in Nat /\ FileSize < Word
BY ElfLoaderAssumption

LEMMA SizeFacts ==
  /\ \A l \in 0 .. Depth : Size(l) \in Nat \ {0}
  /\ Size(Depth) = PageSize
  /\ \A l \in 0 .. Depth - 1 : Size(l) = Fan * Size(l + 1)
<1>1. Fan ^ 0 = 1 /\ \A n \in 0 .. Depth - 1 : Fan ^ n \in Nat \ {0} /\ Fan ^ (n + 1) = Fan * Fan ^ n
  BY LevelsAssumption
<1>2. ASSUME NEW n \in 0 .. Depth PROVE Fan ^ n \in Nat \ {0}
  <2>1. CASE n \in 0 .. Depth - 1
    BY <1>1, <2>1
  <2>2. CASE n = Depth
    <3>1. PICK m \in 0 .. Depth - 1 : n = m + 1
      <4>1. Depth - 1 \in 0 .. Depth - 1 /\ n = (Depth - 1) + 1
        BY <2>2, Numbers
      <4>. QED  BY <4>1
    <3>2. PICK p \in Nat \ {0} : p = Fan ^ m
      BY <1>1
    <3>3. Fan * p \in Nat \ {0}
      BY Numbers
    <3>. QED  BY <1>1, <3>1, <3>2, <3>3
  <2>. QED  BY <2>1, <2>2, Numbers
<1>3. ASSUME NEW l \in 0 .. Depth PROVE Size(l) \in Nat \ {0}
  <2>1. Depth - l \in 0 .. Depth
    BY Numbers
  <2>2. PICK p \in Nat \ {0} : p = Fan ^ (Depth - l)
    BY <1>2, <2>1
  <2>3. PageSize * p \in Nat \ {0}
    BY Numbers
  <2>. QED  BY <2>2, <2>3 DEF Size
<1>4. Size(Depth) = PageSize
  <2>1. Depth - Depth = 0 /\ PageSize * 1 = PageSize
    BY Numbers
  <2>. QED  BY <1>1, <2>1 DEF Size
<1>5. ASSUME NEW l \in 0 .. Depth - 1 PROVE Size(l) = Fan * Size(l + 1)
  <2>1. PICK n \in 0 .. Depth - 1 : n = Depth - (l + 1) /\ n + 1 = Depth - l
    <3>1. Depth - (l + 1) \in 0 .. Depth - 1 /\ (Depth - (l + 1)) + 1 = Depth - l
      BY Numbers
    <3>. QED  BY <3>1
  <2>2. PICK p \in Nat \ {0} : p = Fan ^ n
    BY <1>1
  <2>3. Fan ^ (n + 1) = Fan * p
    BY <1>1, <2>2
  <2>4. Size(l) = PageSize * (Fan * p) /\ Size(l + 1) = PageSize * p
    BY <2>1, <2>2, <2>3 DEF Size
  <2>5. PageSize * (Fan * p) = Fan * (PageSize * p)
    BY Numbers
  <2>. QED  BY <2>4, <2>5
<1>. QED  BY <1>3, <1>4, <1>5

(* The user half is half of the entries of the root.                       *)
LEMMA UserEndFacts ==
  /\ UserEnd \in Nat /\ UserEnd % PageSize = 0 /\ PageSize <= UserEnd
  /\ UserEnd + UserEnd <= Word
  /\ \E h \in Nat \ {0} : Fan = 2 * h /\ UserEnd = h * Size(1)
<1>0. Depth - 1 \in 0 .. Depth - 1 /\ 0 \in 0 .. Depth - 1 /\ 1 \in 0 .. Depth /\ 0 + 1 = 1
  BY Numbers
<1>1. PICK h \in Nat \ {0} : Fan = 2 * h
  <2>1. Fan % 2 = 0 /\ Fan \in Nat \ {0}
    BY ElfLoaderAssumption
  <2>2. PICK h \in Nat : h = Fan \div 2 /\ Fan = 2 * h
    BY <2>1
  <2>. QED  BY <2>1, <2>2
<1>2. PICK s \in Nat \ {0} : s = Size(1) /\ Size(0) = Fan * s
  BY <1>0, SizeFacts
<1>3. UserEnd = Size(0) \div 2
  <2>1. Depth - 0 = Depth
    BY Numbers
  <2>2. PICK p : p = Fan ^ Depth
    OBVIOUS
  <2>3. p \in Int
    <3>1. PICK n \in 0 .. Depth - 1 : n = Depth - 1 /\ n + 1 = Depth
      BY <1>0, Numbers
    <3>2. PICK r \in Nat : r = Fan ^ n
      BY LevelsAssumption
    <3>3. p = Fan * r
      BY <2>2, <3>1, <3>2, LevelsAssumption
    <3>. QED  BY <3>3, Numbers
  <2>4. p * PageSize = PageSize * p
    BY <2>3, Numbers
  <2>. QED  BY <2>1, <2>2, <2>4 DEF UserEnd, Size
<1>4. Size(0) = 2 * (h * s)
  <2>1. (2 * h) * s = 2 * (h * s)
    OBVIOUS
  <2>. QED  BY <1>1, <1>2, <2>1
<1>5. PICK u \in Nat \ {0} : u = h * s
  <2>1. h * s \in Nat \ {0}
    OBVIOUS
  <2>. QED  BY <2>1
<1>6. UserEnd = u
  <2>1. (2 * u) \div 2 = u
    OBVIOUS
  <2>. QED  BY <1>3, <1>4, <1>5, <2>1
<1>7. PICK f \in Nat \ {0} : f = Fan ^ (Depth - 1)
  BY <1>0, LevelsAssumption
<1>8. u = (h * f) * PageSize /\ h * f \in Nat \ {0}
  <2>1. s = PageSize * f
    BY <1>2, <1>7 DEF Size
  <2>2. h * (PageSize * f) = (h * f) * PageSize /\ h * f \in Nat \ {0}
    BY Numbers
  <2>. QED  BY <1>5, <2>1, <2>2
<1>9. PICK k \in Nat \ {0} : k = h * f
  BY <1>8
<1>10. k * PageSize % PageSize = 0 /\ PageSize <= k * PageSize
  <2>1. (k * PageSize) % PageSize = 0
    BY Numbers, MultipleIff
  <2>. QED  BY <2>1, Numbers
<1>11. u + u <= Word
  <2>1. 2 * u <= Word
    BY <1>6, ElfLoaderAssumption
  <2>. QED  BY <2>1, Numbers
<1>. QED  BY <1>1, <1>2, <1>5, <1>6, <1>8, <1>9, <1>10, <1>11

(* An address is found by its prefixes, one index after the other, in the  *)
(* user half of the root.                                                  *)
LEMMA PrefixFacts ==
  ASSUME NEW a \in UserBytes
  PROVE  /\ a \in Nat
         /\ \A l \in 0 .. Depth : Prefix(a, l) \in Nat
         /\ Prefix(a, 0) = 0 /\ Prefix(a, Depth) = a \div PageSize
         /\ \A l \in 0 .. Depth - 1 : /\ IndexOf(a)[l + 1] \in Index
                                      /\ Prefix(a, l + 1) = Prefix(a, l) * Fan + IndexOf(a)[l + 1]
                                      /\ l = 0 => 2 * IndexOf(a)[l + 1] < Fan
<1>. PICK u \in Nat : u = UserEnd
  BY UserEndFacts
<1>1. a \in Nat /\ a < u
  BY DEF UserBytes
<1>2. ASSUME NEW l \in 0 .. Depth PROVE Prefix(a, l) \in Nat
  BY <1>1, SizeFacts, DivModFacts DEF Prefix
<1>3. Prefix(a, Depth) = a \div PageSize
  BY SizeFacts DEF Prefix
<1>4. ASSUME NEW l \in 0 .. Depth - 1
      PROVE  /\ IndexOf(a)[l + 1] \in Index
             /\ Prefix(a, l + 1) = Prefix(a, l) * Fan + IndexOf(a)[l + 1]
  <2>0. l \in 0 .. Depth /\ l + 1 \in 0 .. Depth /\ l + 1 \in 1 .. Depth
    BY Numbers
  <2>1. PICK s \in Nat \ {0} : s = Size(l + 1) /\ Size(l) = Fan * s
    BY <2>0, SizeFacts
  <2>2. PICK q \in Nat : q = a \div s /\ q = Prefix(a, l + 1)
    BY <1>1, <2>1, DivModFacts DEF Prefix
  <2>3. IndexOf(a)[l + 1] = q % Fan
    BY <2>0, <2>1, <2>2 DEF IndexOf, Size
  <2>4. q \div Fan = Prefix(a, l)
    BY <1>1, <2>1, <2>2, NestedQuotient, Numbers DEF Prefix
  <2>5. q = Fan * (q \div Fan) + (q % Fan) /\ q % Fan \in 0 .. Fan - 1
    BY Numbers, DivModFacts
  <2>6. PICK p \in Nat : p = Prefix(a, l)
    BY <1>2, <2>0
  <2>7. Fan * p = p * Fan
    BY Numbers
  <2>. QED  BY <2>2, <2>3, <2>4, <2>5, <2>6, <2>7 DEF Index
<1>5. Prefix(a, 0) = 0 /\ 2 * IndexOf(a)[1] < Fan
  <2>1. PICK h \in Nat \ {0}, s \in Nat \ {0} : Fan = 2 * h /\ u = h * s /\ s = Size(1)
    <3>1. 1 \in 0 .. Depth
      BY Numbers
    <3>2. Size(1) \in Nat \ {0}
      BY <3>1, SizeFacts
    <3>. QED  BY <3>2, UserEndFacts
  <2>2. PICK q \in Nat : q = a \div s /\ q = Prefix(a, 1)
    BY <1>1, <2>1, DivModFacts DEF Prefix
  <2>3. q < h
    <3>1. a = s * q + (a % s) /\ a % s \in 0 .. s - 1
      BY <1>1, <2>2, DivModFacts
    <3>2. PICK r \in Nat : r = a % s
      BY <3>1
    <3>3. ASSUME h <= q PROVE FALSE
      <4>1. s * h <= s * q /\ s * h = h * s
        BY <3>3
      <4>2. s * q \in Nat
        OBVIOUS
      <4>. QED  BY <1>1, <2>1, <3>1, <3>2, <4>1, <4>2
    <3>. QED  BY <3>3
  <2>4. 0 \in 0 .. Depth - 1 /\ 0 + 1 = 1 /\ 0 \in 0 .. Depth
    BY Numbers
  <2>5. PICK p \in Nat, i \in 0 .. Fan - 1 : p = Prefix(a, 0) /\ i = IndexOf(a)[1] /\ q = p * Fan + i
    BY <1>2, <1>4, <2>2, <2>4 DEF Index
  <2>6. p = 0
    <3>1. p # 0 => p * Fan >= Fan
      BY Numbers
    <3>. QED  BY <2>1, <2>3, <2>5, <3>1
  <2>7. 0 * Fan = 0
    BY Numbers
  <2>. QED  BY <2>1, <2>3, <2>5, <2>6, <2>7
<1>. QED  BY <1>1, <1>2, <1>3, <1>4, <1>5

-----------------------------------------------------------------------------
(* The tree of page tables.  node[l, q] is the frame that is entry q of    *)
(* the tables of level l - 1, a table itself when l < Depth and a page of  *)
(* the program when l = Depth, or None when there is none: the frames of U *)
(* are each at one place, the root at the first.                           *)
Place == (0 .. Depth) \X Nat
UserEntry(l, i) == l = 0 => 2 * i < Fan

Nodes(node, tbl, U) ==
  /\ node \in [Place -> U \union {None}]
  /\ root \in U /\ \A q \in Nat : node[<<0, q>>] = IF q = 0 THEN root ELSE None
  /\ \A u \in U : \E x \in Place : node[x] = u
  /\ \A x, y \in Place : node[x] = node[y] /\ node[x] # None => x = y
  /\ \A l \in 0 .. Depth - 1, q \in Nat : node[<<l + 1, q>>] # None =>
       \E p \in Nat, i \in Index : q = p * Fan + i /\ node[<<l, p>>] # None /\ UserEntry(l, i)
  /\ \A l \in 0 .. Depth - 1, p \in Nat, i \in Index : node[<<l, p>>] # None /\ UserEntry(l, i) =>
       tbl[node[<<l, p>>]][i].to = node[<<l + 1, p * Fan + i>>]

(* The entry of the page at a.                                             *)
PageOf(node, a) == node[<<Depth, Prefix(a, Depth)>>]
Pte(node, tbl, a) == tbl[node[<<Depth - 1, Prefix(a, Depth - 1)>>]][IndexOf(a)[Depth]]

LEMMA PlaceFacts ==
  ASSUME NEW l \in 0 .. Depth - 1, NEW p \in Nat, NEW i \in Index
  PROVE  /\ l \in 0 .. Depth /\ l + 1 \in 0 .. Depth /\ l + 1 \in 1 .. Depth
         /\ p * Fan + i \in Nat /\ <<l, p>> \in Place /\ <<l + 1, p * Fan + i>> \in Place
<1>1. l \in 0 .. Depth /\ l + 1 \in 0 .. Depth /\ l + 1 \in 1 .. Depth
  BY Numbers
<1>2. p * Fan \in Nat /\ i \in Nat
  BY Numbers DEF Index
<1>. QED  BY <1>1, <1>2 DEF Place

LEMMA ParentOf ==
  ASSUME NEW node, NEW tbl, NEW U, Nodes(node, tbl, U),
         NEW l \in 0 .. Depth - 1, NEW p \in Nat, NEW i \in Index, node[<<l + 1, p * Fan + i>>] # None
  PROVE  node[<<l, p>>] # None /\ UserEntry(l, i)
<1>1. p * Fan + i \in Nat
  BY PlaceFacts
<1>2. PICK r \in Nat, j \in Index : p * Fan + i = r * Fan + j /\ node[<<l, r>>] # None /\ UserEntry(l, j)
  BY <1>1 DEF Nodes
<1>3. p = r /\ i = j
  BY <1>2, Numbers, ProductUnique DEF Index
<1>. QED  BY <1>2, <1>3

(* kWalkPageTable's way.                                                   *)
Step(pte, a, l) == IF pte.to = None THEN NoPte ELSE table[pte.to][IndexOf(a)[l]]
Way(f, a, n) == f = [l \in 0 .. n |-> IF l = 0 THEN Link(root) ELSE Step(f[l - 1], a, l)]

LEMMA WayExists ==
  ASSUME NEW a, NEW n \in Nat
  PROVE  \E f : Way(f, a, n)
<1>. DEFINE T == {k \in Nat : ~\E f : Way(f, a, k)}
<1>1. SUFFICES ASSUME ~\E f : Way(f, a, n) PROVE FALSE
  OBVIOUS
<1>2. T # {} /\ T \subseteq Nat
  BY <1>1
<1>3. PICK k \in T : \A l \in T : k <= l
  <2>. HIDE DEF T
  <2>. QED  BY <1>2, LeastMember
<1>4. k # 0
  <2>. PICK f : f = [i \in 0 .. 0 |-> Link(root)]
    OBVIOUS
  <2>1. Way(f, a, 0)
    BY DEF Way
  <2>. QED  BY <1>3, <2>1
<1>5. k \in Nat /\ k - 1 \in Nat /\ k - 1 \notin T
  BY <1>3, <1>4
<1>6. PICK g : Way(g, a, k - 1)
  BY <1>5
<1>. PICK f : f = [l \in 0 .. k |-> IF l = k THEN Step(g[k - 1], a, k) ELSE g[l]]
  OBVIOUS
<1>7. ASSUME NEW l \in 0 .. k PROVE f[l] = IF l = 0 THEN Link(root) ELSE Step(f[l - 1], a, l)
  <2>1. CASE l = k
    <3>1. k - 1 \in 0 .. k /\ k - 1 # k /\ f[k - 1] = g[k - 1]
      BY <1>5
    <3>. QED  BY <1>4, <2>1, <3>1
  <2>2. CASE l # k
    <3>1. l \in 0 .. k - 1 /\ f[l] = g[l]
      BY <1>5, <2>2
    <3>2. g[l] = IF l = 0 THEN Link(root) ELSE Step(g[l - 1], a, l)
      <4>1. \A j \in 0 .. k - 1 : g[j] = IF j = 0 THEN Link(root) ELSE Step(g[j - 1], a, j)
        BY <1>6 DEF Way
      <4>. QED  BY <3>1, <4>1
    <3>3. l # 0 => l - 1 \in 0 .. k /\ l - 1 # k /\ f[l - 1] = g[l - 1]
      BY <1>5, <3>1
    <3>. QED  BY <3>1, <3>2, <3>3
  <2>. QED  BY <2>1, <2>2
<1>8. Way(f, a, k)
  BY <1>7 DEF Way
<1>. QED  BY <1>3, <1>8

LEMMA WalkSteps ==
  ASSUME NEW a
  PROVE  \E f : /\ Walk(a) = f[Depth] /\ f[0] = Link(root)
                /\ \A l \in 0 .. Depth - 1 : f[l + 1] = Step(f[l], a, l + 1)
<1>1. PICK f : f = (CHOOSE g : Way(g, a, Depth)) /\ Walk(a) = f[Depth]
  BY DEF Walk, Way, Step
<1>2. \E g : Way(g, a, Depth)
  BY WayExists, Numbers
<1>3. Way(f, a, Depth)
  BY <1>1, <1>2, Zenon
<1>4. \A l \in 0 .. Depth : f[l] = IF l = 0 THEN Link(root) ELSE Step(f[l - 1], a, l)
  BY <1>3 DEF Way
<1>5. 0 \in 0 .. Depth /\ \A l \in 0 .. Depth - 1 : l + 1 \in 0 .. Depth /\ l + 1 # 0 /\ (l + 1) - 1 = l
  BY Numbers
<1>6. \A l \in 0 .. Depth - 1 : f[l + 1] = Step(f[l], a, l + 1)
  BY <1>4, <1>5
<1>. QED  BY <1>1, <1>4, <1>5, <1>6

(* It follows the tree.                                                    *)
LEMMA WalkIs ==
  ASSUME NEW a \in UserBytes, NEW node, NEW U \in SUBSET Frame, Nodes(node, table, U)
  PROVE  /\ Walk(a).to = PageOf(node, a)
         /\ PageOf(node, a) # None => Walk(a) = Pte(node, table, a)
<1>. PICK f : /\ Walk(a) = f[Depth] /\ f[0] = Link(root)
              /\ \A l \in 0 .. Depth - 1 : f[l + 1] = Step(f[l], a, l + 1)
  BY WalkSteps
<1>. DEFINE at(l) == node[<<l, Prefix(a, l)>>]
            T == {l \in 0 .. Depth : f[l].to # at(l)}
<1>0. /\ \A l \in 0 .. Depth - 1 : l \in 0 .. Depth /\ l + 1 \in 0 .. Depth
      /\ Depth \in Nat /\ Depth - 1 \in 0 .. Depth - 1 /\ (Depth - 1) + 1 = Depth
  BY Numbers
<1>1. ASSUME NEW l \in 0 .. Depth - 1, f[l].to = at(l)
      PROVE  /\ f[l + 1].to = at(l + 1)
             /\ at(l + 1) # None => f[l + 1] = table[at(l)][IndexOf(a)[l + 1]]
  <2>1. PICK p \in Nat, i \in Index : p = Prefix(a, l) /\ i = IndexOf(a)[l + 1] /\ UserEntry(l, i)
                                      /\ Prefix(a, l + 1) = p * Fan + i
    BY <1>0, PrefixFacts DEF UserEntry
  <2>2. CASE at(l) = None
    <3>1. f[l + 1] = NoPte
      BY <1>1, <2>2 DEF Step
    <3>2. at(l + 1) = None
      BY <2>1, <2>2, ParentOf
    <3>. QED  BY <3>1, <3>2 DEF NoPte
  <2>3. CASE at(l) # None
    <3>1. f[l + 1] = table[at(l)][i]
      BY <1>1, <2>1, <2>3 DEF Step
    <3>2. table[at(l)][i].to = at(l + 1)
      BY <2>1, <2>3 DEF Nodes
    <3>. QED  BY <2>1, <3>1, <3>2
  <2>. QED  BY <2>2, <2>3
<1>2. T = {}
  <2>1. SUFFICES ASSUME T # {} PROVE FALSE
    OBVIOUS
  <2>2. PICK k \in T : \A l \in T : k <= l
    <3>1. T \subseteq Nat
      OBVIOUS
    <3>. HIDE DEF T
    <3>. QED  BY <2>1, <3>1, LeastMember
  <2>3. k # 0
    <3>1. f[0].to = root
      BY DEF Link
    <3>2. at(0) = root
      <4>1. Prefix(a, 0) = 0
        BY PrefixFacts
      <4>. QED  BY <4>1 DEF Nodes
    <3>. QED  BY <2>2, <3>1, <3>2
  <2>4. PICK l \in 0 .. Depth - 1 : k = l + 1
    <3>1. k - 1 \in 0 .. Depth - 1 /\ k = (k - 1) + 1
      BY <1>0, <2>2, <2>3
    <3>. QED  BY <3>1
  <2>5. l \notin T
    BY <2>2, <2>4
  <2>. QED  BY <1>0, <1>1, <2>2, <2>4, <2>5
<1>3. Walk(a).to = at(Depth)
  <2>1. Depth \in 0 .. Depth
    BY <1>0
  <2>. QED  BY <1>2, <2>1
<1>4. at(Depth) # None => Walk(a) = table[at(Depth - 1)][IndexOf(a)[Depth]]
  <2>1. f[Depth - 1].to = at(Depth - 1)
    BY <1>0, <1>2
  <2>2. PICK d \in 0 .. Depth - 1 : d = Depth - 1 /\ d + 1 = Depth
    BY <1>0
  <2>3. at(d + 1) # None => f[d + 1] = table[at(d)][IndexOf(a)[d + 1]]
    BY <1>1, <2>1, <2>2
  <2>. QED  BY <2>2, <2>3
<1>. QED  BY <1>3, <1>4 DEF PageOf, Pte

-----------------------------------------------------------------------------
(* Growing the tree.                                                       *)
PteRecord == [to : Frame \union {None, KernelTable}, rw : BOOLEAN, nx : BOOLEAN]
TableType == [Frame \union {KernelTable} -> [Index -> PteRecord]]

LEMMA FrameFacts == None \notin Frame /\ KernelTable \notin Frame /\ IsFiniteSet(Frame) /\ Frame \subseteq Nat
BY ElfLoaderAssumption

(* tbl2 is tbl but that entry i of frame at names new, which is empty.     *)
Attached(tbl, tbl2, U, at, i, new) ==
  /\ tbl2[at][i].to = new
  /\ \A g \in U, j \in Index : ~(g = at /\ j = i) => tbl2[g][j] = tbl[g][j]

LEMMA AttachFacts ==
  ASSUME NEW node, NEW tbl, NEW tbl2, NEW U \in SUBSET Frame, Nodes(node, tbl, U),
         NEW l \in 0 .. Depth - 1, NEW p \in Nat, NEW i \in Index, UserEntry(l, i),
         node[<<l, p>>] # None, tbl[node[<<l, p>>]][i].to = None,
         NEW new \in Frame \ U, Attached(tbl, tbl2, U, node[<<l, p>>], i, new),
         l + 1 < Depth => \A j \in Index : tbl2[new][j].to = None
  PROVE  /\ node[<<l + 1, p * Fan + i>>] = None
         /\ Nodes([node EXCEPT ![<<l + 1, p * Fan + i>>] = new], tbl2, U \union {new})
<1>. PICK c : c = p * Fan + i
  OBVIOUS
<1>. DEFINE n2 == [node EXCEPT ![<<l + 1, c>>] = new]
<1>0. /\ c \in Nat /\ <<l, p>> \in Place /\ <<l + 1, c>> \in Place /\ l \in 0 .. Depth /\ l + 1 # l
      /\ new # None /\ new \in Frame
      /\ \A u \in U : u # None /\ u # new
  BY PlaceFacts, FrameFacts
<1>1. node[<<l + 1, c>>] = None
  BY <1>0 DEF Nodes
<1>2. /\ node \in [Place -> U \union {None}] /\ root \in U
      /\ \A q \in Nat : node[<<0, q>>] = IF q = 0 THEN root ELSE None
      /\ \A u \in U : \E x \in Place : node[x] = u
      /\ \A x, y \in Place : node[x] = node[y] /\ node[x] # None => x = y
      /\ \A k \in 0 .. Depth - 1, q \in Nat : node[<<k + 1, q>>] # None =>
           \E r \in Nat, j \in Index : q = r * Fan + j /\ node[<<k, r>>] # None /\ UserEntry(k, j)
      /\ \A k \in 0 .. Depth - 1, r \in Nat, j \in Index : node[<<k, r>>] # None /\ UserEntry(k, j) =>
           tbl[node[<<k, r>>]][j].to = node[<<k + 1, r * Fan + j>>]
  BY DEF Nodes
<1>3. /\ n2 \in [Place -> (U \union {new}) \union {None}]
      /\ n2[<<l + 1, c>>] = new
      /\ \A x \in Place : x # <<l + 1, c>> => n2[x] = node[x]
  BY <1>0, <1>2
<1>. HIDE DEF n2
<1>4. \A x \in Place : node[x] # None => x # <<l + 1, c>> /\ n2[x] = node[x] /\ node[x] \in U
  BY <1>1, <1>2, <1>3
<1>5. ASSUME NEW q \in Nat PROVE n2[<<0, q>>] = IF q = 0 THEN root ELSE None
  <2>1. <<0, q>> \in Place /\ <<0, q>> # <<l + 1, c>>
    BY Numbers DEF Place
  <2>. QED  BY <1>2, <1>3, <2>1
<1>6. ASSUME NEW u \in U \union {new} PROVE \E x \in Place : n2[x] = u
  <2>1. CASE u = new
    BY <1>0, <1>3, <2>1
  <2>2. CASE u \in U
    BY <1>0, <1>2, <1>4, <2>2
  <2>. QED  BY <2>1, <2>2
<1>7. ASSUME NEW x \in Place, NEW y \in Place, n2[x] = n2[y], n2[x] # None PROVE x = y
  <2>1. CASE x = <<l + 1, c>> /\ y # <<l + 1, c>>
    BY <1>0, <1>2, <1>3, <1>7, <2>1
  <2>2. CASE y = <<l + 1, c>> /\ x # <<l + 1, c>>
    BY <1>0, <1>2, <1>3, <1>7, <2>2
  <2>3. CASE x # <<l + 1, c>> /\ y # <<l + 1, c>>
    BY <1>2, <1>3, <1>7, <2>3
  <2>. QED  BY <2>1, <2>2, <2>3
<1>8. ASSUME NEW k \in 0 .. Depth - 1, NEW q \in Nat, n2[<<k + 1, q>>] # None
      PROVE  \E r \in Nat, j \in Index : q = r * Fan + j /\ n2[<<k, r>>] # None /\ UserEntry(k, j)
  <2>1. <<k + 1, q>> \in Place /\ k \in 0 .. Depth
    BY Numbers DEF Place
  <2>2. CASE <<k + 1, q>> = <<l + 1, c>>
    <3>1. k = l /\ q = c
      BY <2>2
    <3>2. n2[<<l, p>>] # None
      BY <1>0, <1>4
    <3>. QED  BY <3>1, <3>2
  <2>3. CASE <<k + 1, q>> # <<l + 1, c>>
    <3>1. PICK r \in Nat, j \in Index : q = r * Fan + j /\ node[<<k, r>>] # None /\ UserEntry(k, j)
      BY <1>2, <1>3, <1>8, <2>1, <2>3
    <3>2. <<k, r>> \in Place
      BY <2>1 DEF Place
    <3>3. n2[<<k, r>>] # None
      BY <1>4, <3>1, <3>2
    <3>. QED  BY <3>1, <3>3
  <2>. QED  BY <2>2, <2>3
<1>9. ASSUME NEW k \in 0 .. Depth - 1, NEW r \in Nat, NEW j \in Index, n2[<<k, r>>] # None, UserEntry(k, j)
      PROVE  tbl2[n2[<<k, r>>]][j].to = n2[<<k + 1, r * Fan + j>>]
  <2>1. <<k, r>> \in Place /\ <<k + 1, r * Fan + j>> \in Place /\ r * Fan + j \in Nat
    BY PlaceFacts
  <2>2. CASE <<k, r>> = <<l + 1, c>>
    <3>1. k = l + 1 /\ r = c /\ l + 1 < Depth
      BY <2>2, Numbers
    <3>2. tbl2[n2[<<k, r>>]][j].to = None
      BY <1>3, <2>2, <3>1
    <3>3. <<k + 1, r * Fan + j>> # <<l + 1, c>>
      BY <3>1
    <3>4. node[<<k + 1, r * Fan + j>>] = None
      BY <1>1, <3>1, ParentOf
    <3>. QED  BY <1>3, <2>1, <3>2, <3>3, <3>4
  <2>3. CASE <<k, r>> # <<l + 1, c>>
    <3>1. PICK g \in U : g = node[<<k, r>>] /\ g = n2[<<k, r>>]
      BY <1>2, <1>3, <1>9, <2>1, <2>3
    <3>2. node[<<k, r>>] # None
      BY <1>0, <3>1
    <3>3. CASE g = node[<<l, p>>] /\ j = i
      <4>1. <<k, r>> = <<l, p>>
        BY <1>0, <1>2, <2>1, <3>1, <3>2, <3>3
      <4>2. k = l /\ r = p
        BY <4>1
      <4>. QED  BY <1>3, <3>1, <3>3, <4>2 DEF Attached
    <3>4. CASE ~(g = node[<<l, p>>] /\ j = i)
      <4>1. tbl2[g][j] = tbl[g][j]
        BY <3>4 DEF Attached
      <4>2. <<k + 1, r * Fan + j>> # <<l + 1, c>>
        <5>1. ASSUME k + 1 = l + 1, r * Fan + j = c PROVE FALSE
          <6>1. k = l
            BY <5>1
          <6>2. r = p /\ j = i
            BY <5>1, Numbers, ProductUnique DEF Index
          <6>. QED  BY <3>1, <3>4, <6>1, <6>2
        <5>. QED  BY <5>1
      <4>. QED  BY <1>2, <1>3, <1>9, <2>1, <3>1, <3>2, <4>1, <4>2
    <3>. QED  BY <3>3, <3>4
  <2>. QED  BY <2>2, <2>3
<1>10. Nodes(n2, tbl2, U \union {new})
  BY <1>2, <1>3, <1>5, <1>6, <1>7, <1>8, <1>9 DEF Nodes
<1>. QED  BY <1>1, <1>10 DEF n2

(* The pages and their entries are the same but for page number q.         *)
SamePages(node, tbl, n2, tbl2, S) ==
  \A b \in UserBytes : Prefix(b, Depth) \notin S =>
    /\ PageOf(n2, b) = PageOf(node, b)
    /\ PageOf(node, b) # None => Pte(n2, tbl2, b) = Pte(node, tbl, b)

LEMMA AttachSame ==
  ASSUME NEW node, NEW tbl, NEW tbl2, NEW U \in SUBSET Frame, Nodes(node, tbl, U),
         NEW l \in 0 .. Depth - 1, NEW p \in Nat, NEW i \in Index, UserEntry(l, i),
         node[<<l, p>>] # None, tbl[node[<<l, p>>]][i].to = None,
         NEW new \in Frame \ U, Attached(tbl, tbl2, U, node[<<l, p>>], i, new),
         NEW S, l + 1 = Depth => p * Fan + i \in S
  PROVE  SamePages(node, tbl, [node EXCEPT ![<<l + 1, p * Fan + i>>] = new], tbl2, S)
<1>. PICK c : c = p * Fan + i
  OBVIOUS
<1>. DEFINE n2 == [node EXCEPT ![<<l + 1, c>>] = new]
<1>0. c \in Nat /\ <<l, p>> \in Place /\ <<l + 1, c>> \in Place /\ node[<<l + 1, c>>] = None
  BY PlaceFacts DEF Nodes
<1>1. \A x \in Place : x # <<l + 1, c>> => n2[x] = node[x]
  BY DEF Nodes
<1>. HIDE DEF n2
<1>2. SUFFICES ASSUME NEW b \in UserBytes, Prefix(b, Depth) \notin S
               PROVE  /\ PageOf(n2, b) = PageOf(node, b)
                      /\ PageOf(node, b) # None => Pte(n2, tbl2, b) = Pte(node, tbl, b)
  BY DEF SamePages, n2
<1>3. PICK d \in 0 .. Depth - 1 : d = Depth - 1 /\ d + 1 = Depth
  <2>1. Depth - 1 \in 0 .. Depth - 1 /\ (Depth - 1) + 1 = Depth
    BY Numbers
  <2>. QED  BY <2>1
<1>4. PICK r \in Nat, j \in Index : /\ r = Prefix(b, d) /\ j = IndexOf(b)[Depth]
                                    /\ Prefix(b, Depth) = r * Fan + j /\ UserEntry(d, j)
  <2>1. d \in 0 .. Depth
    BY Numbers
  <2>. QED  BY <1>3, <2>1, PrefixFacts DEF UserEntry
<1>5. <<d, r>> \in Place /\ <<Depth, r * Fan + j>> \in Place /\ r * Fan + j \in Nat
  BY <1>3, PlaceFacts
<1>6. <<Depth, r * Fan + j>> # <<l + 1, c>>
  BY <1>2, <1>4
<1>7. PageOf(n2, b) = PageOf(node, b) /\ PageOf(node, b) = node[<<Depth, r * Fan + j>>]
  BY <1>1, <1>4, <1>5, <1>6 DEF PageOf
<1>8. ASSUME PageOf(node, b) # None PROVE Pte(n2, tbl2, b) = Pte(node, tbl, b)
  <2>1. node[<<d, r>>] # None
    BY <1>3, <1>7, <1>8, ParentOf
  <2>2. PICK g \in U : g = node[<<d, r>>]
    BY <1>5, <2>1 DEF Nodes
  <2>3. n2[<<d, r>>] = g
    BY <1>0, <1>1, <1>5, <2>1, <2>2
  <2>4. tbl[g][j].to # None
    BY <1>3, <1>4, <1>7, <1>8, <2>1, <2>2 DEF Nodes
  <2>5. tbl2[g][j] = tbl[g][j]
    BY <2>4 DEF Attached
  <2>. QED  BY <1>3, <1>4, <2>2, <2>3, <2>5 DEF Pte
<1>. QED  BY <1>7, <1>8

LEMMA LowestFacts ==
  ASSUME NEW S \in SUBSET Nat, S # {}
  PROVE  Lowest(S) \in S /\ \A g \in S : Lowest(S) <= g
<1>1. PICK f \in S : \A g \in S : f <= g
  BY LeastMember
<1>. QED  BY <1>1, Zenon DEF Lowest

LEMMA SameTrans ==
  ASSUME NEW n1, NEW t1, NEW n2, NEW t2, NEW n3, NEW t3, NEW S,
         SamePages(n1, t1, n2, t2, {}), SamePages(n2, t2, n3, t3, S)
  PROVE  SamePages(n1, t1, n3, t3, S)
BY DEF SamePages

(* kMapPage has come to level l on its way to a.                           *)
Reached(st, avail, U, node, a, l) ==
  /\ st \in [ok : BOOLEAN, at : Frame, free : SUBSET avail, table : TableType]
  /\ \E n : /\ Nodes(n, st.table, U \union (avail \ st.free))
            /\ SamePages(node, table, n, st.table, {})
            /\ st.ok => st.at = n[<<l, Prefix(a, l)>>]

LEMMA GetNextLevelFacts ==
  ASSUME NEW a \in UserBytes, NEW U \in SUBSET Frame, NEW avail \in SUBSET (Frame \ U),
         NEW node, NEW st, NEW l \in 0 .. Depth - 1, l + 1 \in 0 .. Depth - 1,
         Reached(st, avail, U, node, a, l)
  PROVE  Reached(GetNextLevel(st, IndexOf(a)[l + 1]), avail, U, node, a, l + 1)
<1>. PICK i \in Index : i = IndexOf(a)[l + 1]
  BY PrefixFacts
<1>. PICK p \in Nat : p = Prefix(a, l)
  BY PrefixFacts, Numbers
<1>. PICK r : r = GetNextLevel(st, i)
  OBVIOUS
<1>0. /\ UserEntry(l, i) /\ Prefix(a, l + 1) = p * Fan + i /\ l + 1 < Depth
      /\ <<l, p>> \in Place /\ <<l + 1, p * Fan + i>> \in Place
  BY PrefixFacts, PlaceFacts, Numbers DEF UserEntry
<1>1. st \in [ok : BOOLEAN, at : Frame, free : SUBSET avail, table : TableType]
  BY DEF Reached
<1>2. PICK n : /\ Nodes(n, st.table, U \union (avail \ st.free))
               /\ SamePages(node, table, n, st.table, {})
               /\ st.ok => st.at = n[<<l, p>>]
  BY DEF Reached
<1>3. CASE ~st.ok
  <2>1. r = st
    BY <1>3 DEF GetNextLevel
  <2>. QED  BY <1>1, <1>2, <1>3, <2>1 DEF Reached
<1>. PICK V : V = U \union (avail \ st.free)
  OBVIOUS
<1>4. V \in SUBSET Frame /\ n \in [Place -> V \union {None}] /\ st.free \subseteq Frame \ V
  BY <1>1, <1>2 DEF Nodes
<1>. PICK to : to = st.table[st.at][i].to
  OBVIOUS
<1>5. ASSUME st.ok PROVE n[<<l, p>>] # None /\ to = n[<<l + 1, p * Fan + i>>]
  <2>1. st.at \in Frame
    BY <1>1
  <2>2. n[<<l, p>>] # None
    BY <1>2, <1>5, <2>1, FrameFacts
  <2>. QED  BY <1>0, <1>2, <1>5, <2>2 DEF Nodes
<1>6. CASE st.ok /\ to # None
  <2>1. r = [st EXCEPT !.at = to]
    BY <1>6 DEF GetNextLevel
  <2>2. to \in Frame
    BY <1>0, <1>4, <1>5, <1>6
  <2>3. r \in [ok : BOOLEAN, at : Frame, free : SUBSET avail, table : TableType]
    BY <1>1, <2>1, <2>2
  <2>4. r.free = st.free /\ r.table = st.table /\ r.ok = st.ok /\ r.at = to
    BY <1>1, <2>1
  <2>5. r.at = n[<<l + 1, Prefix(a, l + 1)>>]
    BY <1>0, <1>5, <1>6, <2>4
  <2>6. Nodes(n, r.table, U \union (avail \ r.free)) /\ SamePages(node, table, n, r.table, {})
    BY <1>2, <2>4
  <2>. QED  BY <2>3, <2>5, <2>6 DEF Reached
<1>7. CASE st.ok /\ to = None /\ st.free = {}
  <2>1. r = [st EXCEPT !.ok = FALSE]
    BY <1>7 DEF GetNextLevel
  <2>2. r \in [ok : BOOLEAN, at : Frame, free : SUBSET avail, table : TableType]
    BY <1>1, <2>1
  <2>3. r.free = st.free /\ r.table = st.table /\ ~r.ok
    BY <1>1, <2>1
  <2>4. Nodes(n, r.table, U \union (avail \ r.free)) /\ SamePages(node, table, n, r.table, {})
    BY <1>2, <2>3
  <2>. QED  BY <2>2, <2>3, <2>4 DEF Reached
<1>8. CASE st.ok /\ to = None /\ st.free # {}
  <2>a. PICK new : new = Lowest(st.free)
    OBVIOUS
  <2>b. PICK tbl2 : tbl2 = [st.table EXCEPT ![new] = EmptyTable, ![st.at][i] = Link(new)]
    OBVIOUS
  <2>1. new \in st.free /\ new \in Frame \ V /\ new # None
    <3>1. st.free \in SUBSET Nat /\ st.free # {}
      BY <1>4, <1>8, FrameFacts
    <3>2. new \in st.free
      BY <2>a, <3>1, LowestFacts
    <3>. QED  BY <1>4, <3>2, FrameFacts
  <2>2. r = [ok |-> TRUE, at |-> new, free |-> st.free \ {new}, table |-> tbl2]
    BY <1>8, <2>a, <2>b DEF GetNextLevel
  <2>3. st.at \in V /\ st.at = n[<<l, p>>]
    BY <1>0, <1>2, <1>4, <1>5, <1>8
  <2>4. st.table \in TableType /\ Link(new) \in PteRecord /\ EmptyTable \in [Index -> PteRecord]
    BY <1>1, <2>1 DEF Link, PteRecord, EmptyTable, NoPte
  <2>5. /\ tbl2 \in TableType
        /\ tbl2[st.at][i] = Link(new)
        /\ \A j \in Index : tbl2[new][j] = NoPte
        /\ \A g \in V, j \in Index : ~(g = st.at /\ j = i) => tbl2[g][j] = st.table[g][j]
    <3>. DEFINE t1 == [st.table EXCEPT ![new] = EmptyTable]
    <3>1. t1 \in TableType /\ t1[new] = EmptyTable /\ \A g \in Frame : g # new => t1[g] = st.table[g]
      BY <2>1, <2>4 DEF TableType
    <3>2. tbl2 = [t1 EXCEPT ![st.at][i] = Link(new)]
      BY <2>b
    <3>. HIDE DEF t1
    <3>3. st.at \in Frame /\ new \in Frame /\ st.at # new
      BY <1>4, <2>1, <2>3
    <3>4. /\ tbl2 \in TableType /\ tbl2[st.at][i] = Link(new)
          /\ \A g \in Frame, j \in Index : ~(g = st.at /\ j = i) => tbl2[g][j] = t1[g][j]
      BY <2>4, <3>1, <3>2, <3>3 DEF TableType
    <3>5. \A j \in Index : EmptyTable[j] = NoPte
      BY DEF EmptyTable
    <3>. QED  BY <1>4, <2>1, <3>1, <3>3, <3>4, <3>5
  <2>0. Nodes(n, st.table, V) /\ n[<<l, p>>] # None /\ st.table[n[<<l, p>>]][i].to = None
    BY <1>2, <1>5, <1>8, <2>3
  <2>6. Attached(st.table, tbl2, V, n[<<l, p>>], i, new) /\ \A j \in Index : tbl2[new][j].to = None
    BY <2>3, <2>5 DEF Attached, Link, NoPte
  <2>c. PICK n2 : n2 = [n EXCEPT ![<<l + 1, p * Fan + i>>] = new]
    OBVIOUS
  <2>15. l + 1 < Depth /\ UserEntry(l, i) /\ V \in SUBSET Frame /\ new \in Frame \ V
    BY <1>0, <1>4, <2>1
  <2>7. Nodes(n2, tbl2, V \union {new})
    BY <2>c, <2>0, <2>6, <2>15, AttachFacts
  <2>8. SamePages(n, st.table, n2, tbl2, {})
    <3>1. l + 1 # Depth
      BY <2>15, Numbers
    <3>. QED  BY <2>c, <2>0, <2>6, <2>15, <3>1, AttachSame
  <2>9. SamePages(node, table, n2, tbl2, {})
    BY <1>2, <2>8, SameTrans
  <2>10. V \union {new} = U \union (avail \ (st.free \ {new}))
    BY <1>1, <2>1
  <2>11. n2[<<l + 1, p * Fan + i>>] = new
    BY <1>0, <1>4, <2>c
  <2>12. r \in [ok : BOOLEAN, at : Frame, free : SUBSET avail, table : TableType]
    BY <1>1, <2>1, <2>2, <2>5
  <2>13. r.free = st.free \ {new} /\ r.table = tbl2 /\ r.at = new
    BY <2>2
  <2>14. /\ Nodes(n2, r.table, U \union (avail \ r.free)) /\ SamePages(node, table, n2, r.table, {})
         /\ r.at = n2[<<l + 1, Prefix(a, l + 1)>>]
    BY <1>0, <2>7, <2>9, <2>10, <2>11, <2>13
  <2>. QED  BY <2>12, <2>14 DEF Reached
<1>. QED  BY <1>3, <1>6, <1>7, <1>8

MapStart(avail) == [ok |-> TRUE, at |-> root, free |-> avail, table |-> table]
Descent(f, avail, a, n) ==
  f = [l \in 0 .. n |-> IF l = 0 THEN MapStart(avail) ELSE GetNextLevel(f[l - 1], IndexOf(a)[l])]

LEMMA DescentExists ==
  ASSUME NEW avail, NEW a, NEW n \in Nat
  PROVE  \E f : Descent(f, avail, a, n)
<1>. DEFINE T == {k \in Nat : ~\E f : Descent(f, avail, a, k)}
<1>1. SUFFICES ASSUME ~\E f : Descent(f, avail, a, n) PROVE FALSE
  OBVIOUS
<1>2. T # {} /\ T \subseteq Nat
  BY <1>1
<1>3. PICK k \in T : \A l \in T : k <= l
  <2>. HIDE DEF T
  <2>. QED  BY <1>2, LeastMember
<1>4. k # 0
  <2>. PICK f : f = [i \in 0 .. 0 |-> MapStart(avail)]
    OBVIOUS
  <2>1. Descent(f, avail, a, 0)
    BY DEF Descent
  <2>. QED  BY <1>3, <2>1
<1>5. k \in Nat /\ k - 1 \in Nat /\ k - 1 \notin T
  BY <1>3, <1>4
<1>6. PICK g : Descent(g, avail, a, k - 1)
  BY <1>5
<1>. PICK f : f = [l \in 0 .. k |-> IF l = k THEN GetNextLevel(g[k - 1], IndexOf(a)[k]) ELSE g[l]]
  OBVIOUS
<1>7. ASSUME NEW l \in 0 .. k
      PROVE  f[l] = IF l = 0 THEN MapStart(avail) ELSE GetNextLevel(f[l - 1], IndexOf(a)[l])
  <2>1. CASE l = k
    <3>1. k - 1 \in 0 .. k /\ k - 1 # k /\ f[k - 1] = g[k - 1]
      BY <1>5
    <3>. QED  BY <1>4, <2>1, <3>1
  <2>2. CASE l # k
    <3>1. l \in 0 .. k - 1 /\ f[l] = g[l]
      BY <1>5, <2>2
    <3>2. g[l] = IF l = 0 THEN MapStart(avail) ELSE GetNextLevel(g[l - 1], IndexOf(a)[l])
      <4>1. \A j \in 0 .. k - 1 :
              g[j] = IF j = 0 THEN MapStart(avail) ELSE GetNextLevel(g[j - 1], IndexOf(a)[j])
        BY <1>6 DEF Descent
      <4>. QED  BY <3>1, <4>1
    <3>3. l # 0 => l - 1 \in 0 .. k /\ l - 1 # k /\ f[l - 1] = g[l - 1]
      BY <1>5, <3>1
    <3>. QED  BY <3>1, <3>2, <3>3
  <2>. QED  BY <2>1, <2>2
<1>8. Descent(f, avail, a, k)
  BY <1>7 DEF Descent
<1>. QED  BY <1>3, <1>8

(* kMapPage either puts f in place of the missing page and leaves the      *)
(* others alone, or runs out of frames with some tables more.              *)
Mapped(m, avail, U, node, a, f, flags) ==
  /\ m.ok \in BOOLEAN /\ m.free \subseteq avail /\ m.table \in TableType
  /\ m.ok => \E n : /\ Nodes(n, m.table, U \union (avail \ m.free) \union {f})
                    /\ SamePages(node, table, n, m.table, {Prefix(a, Depth)})
                    /\ PageOf(n, a) = f /\ Pte(n, m.table, a) = Leaf(f, flags)
  /\ ~m.ok => \E n : /\ Nodes(n, m.table, U \union (avail \ m.free))
                     /\ SamePages(node, table, n, m.table, {})

LEMMA MapPageFacts ==
  ASSUME NEW a \in UserBytes, NEW U \in SUBSET Frame, NEW avail \in SUBSET (Frame \ U),
         NEW node, Nodes(node, table, U), table \in TableType, PageOf(node, a) = None,
         NEW f \in Frame \ (U \union avail), NEW flags, NEW m, m = MapPage(avail, a, f, flags)
  PROVE  Mapped(m, avail, U, node, a, f, flags)
<1>. DEFINE d == Depth - 1
<1>0. d \in 0 .. d /\ d + 1 = Depth /\ d \in Nat /\ 0 \in 0 .. d /\ Depth \in 0 .. Depth
  BY Numbers
<1>1. PICK st : /\ st[0] = MapStart(avail)
                /\ \A l \in 0 .. d - 1 : st[l + 1] = GetNextLevel(st[l], IndexOf(a)[l + 1])
                /\ TablesTo(avail, a) = st[d]
  <2>. PICK g : g = (CHOOSE h : Descent(h, avail, a, d))
    OBVIOUS
  <2>1. TablesTo(avail, a) = g[d]
    BY DEF TablesTo, Descent, MapStart
  <2>2. \E h : Descent(h, avail, a, d)
    BY <1>0, DescentExists
  <2>3. Descent(g, avail, a, d)
    BY <2>1, <2>2, Zenon
  <2>4. \A l \in 0 .. d : g[l] = IF l = 0 THEN MapStart(avail) ELSE GetNextLevel(g[l - 1], IndexOf(a)[l])
    BY <2>3 DEF Descent
  <2>5. \A l \in 0 .. d - 1 : l + 1 \in 0 .. d /\ l + 1 # 0 /\ (l + 1) - 1 = l
    BY <1>0
  <2>6. \A l \in 0 .. d - 1 : g[l + 1] = GetNextLevel(g[l], IndexOf(a)[l + 1])
    BY <2>4, <2>5
  <2>. QED  BY <1>0, <2>1, <2>4, <2>6
<1>. DEFINE T == {l \in 0 .. d : ~Reached(st[l], avail, U, node, a, l)}
<1>2. T = {}
  <2>1. SUFFICES ASSUME T # {} PROVE FALSE
    OBVIOUS
  <2>2. PICK k \in T : \A l \in T : k <= l
    <3>1. T \subseteq Nat
      BY <1>0
    <3>. HIDE DEF T
    <3>. QED  BY <2>1, <3>1, LeastMember
  <2>3. Reached(st[0], avail, U, node, a, 0)
    <3>1. st[0] = [ok |-> TRUE, at |-> root, free |-> avail, table |-> table]
      BY <1>1 DEF MapStart
    <3>2. root \in Frame /\ node[<<0, Prefix(a, 0)>>] = root
      BY PrefixFacts DEF Nodes
    <3>3. U \union (avail \ avail) = U
      OBVIOUS
    <3>4. SamePages(node, table, node, table, {})
      BY DEF SamePages
    <3>5. st[0] \in [ok : BOOLEAN, at : Frame, free : SUBSET avail, table : TableType]
      BY <3>1, <3>2
    <3>. QED  BY <3>1, <3>2, <3>3, <3>4, <3>5 DEF Reached
  <2>4. PICK l \in 0 .. d - 1 : k = l + 1
    <3>1. k # 0
      BY <2>2, <2>3
    <3>2. k - 1 \in 0 .. d - 1 /\ k = (k - 1) + 1
      BY <1>0, <2>2, <3>1
    <3>. QED  BY <3>2
  <2>5. l \in 0 .. d /\ l + 1 \in 0 .. d /\ Reached(st[l], avail, U, node, a, l)
    BY <1>0, <2>2, <2>4
  <2>6. Reached(st[l + 1], avail, U, node, a, l + 1)
    BY <1>1, <2>5, GetNextLevelFacts
  <2>. QED  BY <2>2, <2>4, <2>6
<1>3. Reached(st[d], avail, U, node, a, d)
  BY <1>0, <1>2
<1>. PICK e : e = st[d]
  OBVIOUS
<1>4. e \in [ok : BOOLEAN, at : Frame, free : SUBSET avail, table : TableType]
  BY <1>3 DEF Reached
<1>. DEFINE V == U \union (avail \ e.free)
<1>5. PICK n : /\ Nodes(n, e.table, V) /\ SamePages(node, table, n, e.table, {})
               /\ e.ok => e.at = n[<<d, Prefix(a, d)>>]
  BY <1>3 DEF Reached
<1>6. CASE ~e.ok
  <2>1. m = e
    BY <1>1, <1>6, SMTT(30) DEF MapPage
  <2>. QED  BY <1>4, <1>5, <1>6, <2>1 DEF Mapped
<1>7. CASE e.ok
  <2>. PICK i \in Index, p \in Nat : /\ i = IndexOf(a)[Depth] /\ p = Prefix(a, d)
                                     /\ Prefix(a, Depth) = p * Fan + i /\ UserEntry(d, i)
    <3>1. d \in 0 .. Depth /\ d \in 0 .. Depth - 1
      BY Numbers
    <3>. QED  BY <1>0, <3>1, PrefixFacts DEF UserEntry
  <2>. PICK tbl2 : tbl2 = [e.table EXCEPT ![e.at][i] = Leaf(f, flags)]
    OBVIOUS
  <2>1. m = [e EXCEPT !.table = tbl2]
    BY <1>1, <1>4, <1>7 DEF MapPage
  <2>2. m.ok /\ m.free = e.free /\ m.table = tbl2
    BY <1>4, <1>7, <2>1
  <2>3. V \in SUBSET Frame /\ f \in Frame \ V /\ f # None
    BY <1>4, FrameFacts
  <2>4. <<d, p>> \in Place /\ <<Depth, p * Fan + i>> \in Place
    BY <1>0, PlaceFacts
  <2>5. n[<<d, p>>] # None /\ e.at = n[<<d, p>>] /\ e.at \in V
    <3>1. e.at \in Frame
      BY <1>4
    <3>. QED  BY <1>5, <1>7, <2>4, <3>1, FrameFacts DEF Nodes
  <2>6. PageOf(n, a) = None
    BY <1>5 DEF SamePages
  <2>7. e.table[e.at][i].to = None
    BY <1>0, <1>5, <2>5, <2>6 DEF Nodes, PageOf
  <2>8. Leaf(f, flags) \in PteRecord
    BY DEF Leaf, PteRecord
  <2>9. /\ tbl2 \in TableType /\ tbl2[e.at][i] = Leaf(f, flags)
        /\ \A g \in V, j \in Index : ~(g = e.at /\ j = i) => tbl2[g][j] = e.table[g][j]
    <3>1. e.table \in TableType /\ e.at \in Frame
      BY <1>4
    <3>2. /\ tbl2 \in TableType /\ tbl2[e.at][i] = Leaf(f, flags)
          /\ \A g \in Frame, j \in Index : ~(g = e.at /\ j = i) => tbl2[g][j] = e.table[g][j]
      BY <2>8, <3>1 DEF TableType
    <3>. QED  BY <2>3, <3>2
  <2>10. Attached(e.table, tbl2, V, n[<<d, p>>], i, f)
    BY <2>5, <2>9 DEF Attached, Leaf
  <2>. PICK n2 : n2 = [n EXCEPT ![<<d + 1, p * Fan + i>>] = f]
    OBVIOUS
  <2>11. ~(d + 1 < Depth)
    BY <1>0, Numbers
  <2>. HIDE DEF V
  <2>12. Nodes(n2, tbl2, V \union {f})
    BY <1>0, <1>5, <2>3, <2>5, <2>7, <2>10, <2>11, AttachFacts, ZenonT(30)
  <2>13. SamePages(n, e.table, n2, tbl2, {Prefix(a, Depth)})
    BY <1>0, <1>5, <2>3, <2>5, <2>7, <2>10, AttachSame, ZenonT(30)
  <2>14. SamePages(node, table, n2, tbl2, {Prefix(a, Depth)})
    BY <1>5, <2>13, SameTrans
  <2>15. PageOf(n2, a) = f
    BY <1>0, <1>5, <2>4 DEF PageOf, Nodes
  <2>16. n2[<<d, p>>] = n[<<d, p>>]
    <3>1. <<d, p>> # <<d + 1, p * Fan + i>>
      BY <1>0
    <3>. QED  BY <1>5, <2>4, <3>1 DEF Nodes
  <2>17. Pte(n2, tbl2, a) = Leaf(f, flags)
    BY <2>5, <2>9, <2>16 DEF Pte
  <2>. QED  BY <1>4, <2>2, <2>9, <2>12, <2>14, <2>15, <2>17 DEF V, Mapped
<1>. QED  BY <1>6, <1>7

-----------------------------------------------------------------------------
(* The VMA list: areas in the order of their addresses that do not meet.   *)
VmaRecord == [start : Nat, end : Nat, flags : SUBSET {"r", "w", "x"}]
In(a, v) == v.start <= a /\ a < v.end
Ordered(w) ==
  /\ w \in Seq(VmaRecord)
  /\ \A i \in 1 .. Len(w) : w[i].start < w[i].end /\ w[i].end <= UserEnd
  /\ \A i, j \in 1 .. Len(w) : i < j => w[i].end <= w[j].start
Listed(v, w) == \E i \in 1 .. Len(w) : w[i] = v

LEMMA OrderedFacts ==
  ASSUME NEW w, Ordered(w)
  PROVE  /\ Len(w) \in Nat
         /\ \A i \in 1 .. Len(w) : /\ w[i] \in VmaRecord /\ w[i].start \in Nat /\ w[i].end \in Nat
                                   /\ w[i].start < w[i].end /\ w[i].end <= UserEnd
         /\ \A i, j \in 1 .. Len(w) : i < j => w[i].end <= w[j].start
         /\ \A i, j \in 1 .. Len(w) : i <= j => w[i].start <= w[j].start
<1>1. w \in Seq(VmaRecord) /\ Len(w) \in Nat /\ \A i \in 1 .. Len(w) : w[i] \in VmaRecord
  BY DEF Ordered
<1>2. \A i \in 1 .. Len(w) : w[i].start \in Nat /\ w[i].end \in Nat /\ w[i].start < w[i].end
  BY <1>1 DEF Ordered, VmaRecord
<1>3. ASSUME NEW i \in 1 .. Len(w), NEW j \in 1 .. Len(w), i <= j PROVE w[i].start <= w[j].start
  <2>1. CASE i = j
    BY <1>2, <2>1
  <2>2. CASE i # j
    <3>1. i < j
      BY <1>1, <1>3, <2>2
    <3>2. w[i].end <= w[j].start
      BY <3>1 DEF Ordered
    <3>. QED  BY <1>2, <3>2
  <2>. QED  BY <2>1, <2>2
<1>. QED  BY <1>1, <1>2, <1>3 DEF Ordered

(* Two areas that contain an address are one.                              *)
LEMMA OneArea ==
  ASSUME NEW w, Ordered(w), NEW a \in Nat, NEW i \in 1 .. Len(w), NEW j \in 1 .. Len(w),
         In(a, w[i]), In(a, w[j])
  PROVE  i = j
<1>1. /\ Len(w) \in Nat
      /\ \A k \in 1 .. Len(w) : w[k].start \in Nat /\ w[k].end \in Nat
      /\ \A k, l \in 1 .. Len(w) : k < l => w[k].end <= w[l].start
  BY OrderedFacts
<1>2. ~(i < j)
  BY <1>1, SMTT(30) DEF In
<1>3. ~(j < i)
  BY <1>1 DEF In
<1>. QED  BY <1>1, <1>2, <1>3

(* The indices a scan of the list passes before it meets a larger start.   *)
LEMMA InitialSegment ==
  ASSUME NEW n \in Nat, NEW T \in SUBSET (1 .. n), \A i \in T : \A j \in 1 .. i : j \in T
  PROVE  /\ Cardinality(T) \in 0 .. n
         /\ T = 1 .. Cardinality(T)
<1>. DEFINE G == {i \in Nat : i \in 1 .. n + 1 /\ i \notin T}
<1>1. n + 1 \in G
  OBVIOUS
<1>2. PICK m \in G : \A i \in G : m <= i
  <2>1. G \subseteq Nat /\ G # {}
    BY <1>1
  <2>. HIDE DEF G
  <2>. QED  BY <2>1, LeastMember
<1>3. m - 1 \in 0 .. n
  BY <1>2
<1>4. T = 1 .. m - 1
  <2>1. ASSUME NEW i \in 1 .. m - 1 PROVE i \in T
    <3>1. i \in 1 .. n + 1 /\ i \in Nat /\ ~(m <= i)
      BY <1>2
    <3>. QED  BY <1>2, <3>1
  <2>2. ASSUME NEW i \in T PROVE i \in 1 .. m - 1
    <3>1. ~(m <= i)
      <4>1. ASSUME m <= i PROVE m \in T
        <5>1. i \in Nat /\ m \in 1 .. i
          BY <1>2, <4>1
        <5>. QED  BY <5>1
      <4>. QED  BY <1>2, <4>1
    <3>. QED  BY <1>2, <3>1
  <2>. QED  BY <2>1, <2>2
<1>5. Cardinality(1 .. m - 1) = m - 1
  <2>1. 1 \in Int /\ m - 1 \in Int
    BY <1>3
  <2>2. Cardinality(1 .. m - 1) = IF 1 > m - 1 THEN 0 ELSE (m - 1) - 1 + 1
    BY <2>1, FS_Interval
  <2>. QED  BY <1>3, <2>2
<1>. QED  BY <1>3, <1>4, <1>5

(* Inserting before the member at k.                                       *)
Inserted(s, k, e, i) == IF i < k THEN s[i] ELSE IF i = k THEN e ELSE s[i - 1]

LEMMA InsertFacts ==
  ASSUME NEW S, NEW s \in Seq(S), NEW e \in S, NEW k \in 1 .. Len(s) + 1
  PROVE  /\ InsertAt(s, k, e) \in Seq(S) /\ Len(InsertAt(s, k, e)) = Len(s) + 1
         /\ \A i \in 1 .. Len(s) + 1 : InsertAt(s, k, e)[i] = Inserted(s, k, e, i)
<1>1. PICK n \in Nat : n = Len(s)
  OBVIOUS
<1>2. PICK c \in Nat, m \in Nat : c = k - 1 /\ m = n - c /\ n = c + m /\ k = c + 1
  <2>1. k - 1 \in Nat /\ n - (k - 1) \in Nat /\ n = (k - 1) + (n - (k - 1)) /\ k = (k - 1) + 1
    BY <1>1
  <2>. QED  BY <2>1
<1>3. PICK p, q : p = SubSeq(s, 1, c) /\ q = SubSeq(s, c + 1, n)
  OBVIOUS
<1>4. p \in Seq(S) /\ Len(p) = c /\ \A i \in 1 .. c : p[i] = s[i]
  BY <1>1, <1>2, <1>3
<1>5. q \in Seq(S) /\ Len(q) = m /\ \A i \in 1 .. m : q[i] = s[c + i]
  BY <1>1, <1>2, <1>3
<1>6. PICK t : t = p \o <<e>>
  OBVIOUS
<1>7. t \in Seq(S) /\ Len(t) = k /\ (\A i \in 1 .. c : t[i] = s[i]) /\ t[k] = e
  <2>1. t \in Seq(S) /\ Len(t) = c + 1 /\ (\A i \in 1 .. c : t[i] = s[i]) /\ t[c + 1] = e
    BY <1>4, <1>6
  <2>. QED  BY <1>2, <2>1
<1>8. PICK w : w = t \o q
  OBVIOUS
<1>9. w = InsertAt(s, k, e)
  BY <1>1, <1>2, <1>3, <1>6, <1>8 DEF InsertAt
<1>0. /\ w \in Seq(S) /\ Len(w) = k + m
      /\ \A i \in 1 .. k + m : w[i] = IF i <= k THEN t[i] ELSE q[i - k]
  <2>1. t \in Seq(S) /\ q \in Seq(S)
    BY <1>5, <1>7
  <2>2. /\ t \o q \in Seq(S) /\ Len(t \o q) = Len(t) + Len(q)
        /\ \A i \in 1 .. Len(t) + Len(q) : (t \o q)[i] = IF i <= Len(t) THEN t[i] ELSE q[i - Len(t)]
    BY <2>1, ConcatProperties
  <2>. QED  BY <1>5, <1>7, <1>8, <2>2
<1>10. w \in Seq(S) /\ Len(w) = k + m /\ \A i \in 1 .. k : w[i] = t[i]
  <2>1. \A i \in 1 .. k : i \in 1 .. k + m /\ i <= k
    BY <1>2
  <2>. QED  BY <1>0, <2>1
<1>11. \A i \in 1 .. m : w[k + i] = q[i]
  <2>1. \A i \in 1 .. m : k + i \in 1 .. k + m /\ ~(k + i <= k) /\ (k + i) - k = i
    BY <1>2
  <2>. QED  BY <1>0, <2>1
<1>12. Len(w) = n + 1
  BY <1>2, <1>10
<1>13. ASSUME NEW i \in 1 .. n + 1
       PROVE  w[i] = IF i < k THEN s[i] ELSE IF i = k THEN e ELSE s[i - 1]
  <2>1. CASE i < k
    <3>1. i \in 1 .. c /\ i \in 1 .. k
      BY <1>2, <2>1
    <3>. QED  BY <1>7, <1>10, <2>1, <3>1
  <2>2. CASE i = k
    <3>1. k \in 1 .. k
      BY <1>2
    <3>. QED  BY <1>7, <1>10, <2>2, <3>1
  <2>3. CASE i > k
    <3>1. PICK j \in 1 .. m : i = k + j /\ i - 1 = c + j
      <4>1. i - k \in 1 .. m /\ i = k + (i - k) /\ i - 1 = c + (i - k)
        BY <1>2, <2>3
      <4>. QED  BY <4>1
    <3>2. w[i] = q[j] /\ q[j] = s[c + j]
      BY <1>5, <1>11, <3>1
    <3>. QED  BY <2>3, <3>1, <3>2
  <2>. QED  BY <2>1, <2>2, <2>3
<1>. QED  BY <1>1, <1>9, <1>10, <1>12, <1>13 DEF Inserted

(* kVmaCreate keeps the list in order, and its early break misses no       *)
(* overlap.                                                                *)
NewArea(s, e, flags) == [start |-> s, end |-> e, flags |-> flags]

LEMMA VmaAddedFacts ==
  ASSUME Ordered(vmas), NEW s \in Nat, NEW e \in Nat, NEW flags \in SUBSET {"r", "w", "x"},
         VmaAllowed(s, e), NEW w, w = VmaAdded(s, e, flags)
  PROVE  /\ Ordered(w)
         /\ \A v : Listed(v, w) <=> Listed(v, vmas) \/ v = NewArea(s, e, flags)
         /\ \A i \in 1 .. Len(vmas) : vmas[i].end <= s \/ e <= vmas[i].start
<1>. PICK n \in Nat : n = Len(vmas)
  BY OrderedFacts
<1>. PICK u \in Nat : u = UserEnd
  BY UserEndFacts
<1>. PICK new \in VmaRecord : new = NewArea(s, e, flags)
  BY DEF VmaRecord, NewArea
<1>1. /\ \A i \in 1 .. n : /\ vmas[i] \in VmaRecord /\ vmas[i].start \in Nat /\ vmas[i].end \in Nat
                           /\ vmas[i].start < vmas[i].end /\ vmas[i].end <= u
      /\ \A i, j \in 1 .. n : i < j => vmas[i].end <= vmas[j].start
      /\ \A i, j \in 1 .. n : i <= j => vmas[i].start <= vmas[j].start
  BY OrderedFacts
<1>2. /\ s < e /\ e <= u
      /\ \A i \in 1 .. n : Overlaps(vmas[i], s, e) => \E j \in 1 .. i - 1 : vmas[j].start > s
  BY DEF VmaAllowed
<1>3. ASSUME NEW i \in 1 .. n PROVE vmas[i].end <= s \/ e <= vmas[i].start
  <2>. DEFINE T == {k \in 1 .. n : Overlaps(vmas[k], s, e)}
  <2>1. SUFFICES ASSUME T # {} PROVE FALSE
    <3>1. i \notin T => vmas[i].end <= s \/ e <= vmas[i].start
      BY <1>1 DEF Overlaps
    <3>. QED  BY <3>1
  <2>2. PICK k \in T : \A l \in T : k <= l
    <3>1. T \subseteq Nat
      OBVIOUS
    <3>. HIDE DEF T
    <3>. QED  BY <2>1, <3>1, LeastMember
  <2>3. PICK j \in 1 .. k - 1 : vmas[j].start > s
    BY <1>2, <2>2
  <2>4. j \in 1 .. n /\ j < k /\ k \in 1 .. n
    BY <2>2, <2>3
  <2>5. vmas[j].start < e
    <3>1. vmas[j].start < vmas[j].end /\ vmas[j].end <= vmas[k].start /\ vmas[k].start < e
      BY <1>1, <2>2, <2>4 DEF Overlaps
    <3>. QED  BY <1>1, <2>2, <2>4, <3>1
  <2>6. j \in T
    <3>1. s < vmas[j].end
      BY <1>1, <2>3, <2>4
    <3>. QED  BY <2>4, <2>5, <3>1 DEF Overlaps
  <2>. QED  BY <2>2, <2>4, <2>6
<1>. DEFINE before == {i \in 1 .. n : \A j \in 1 .. i : vmas[j].start <= s}
<1>4. PICK c \in 0 .. n : c = Cardinality(before) /\ before = 1 .. c
  <2>1. \A i \in before : \A j \in 1 .. i : j \in before
    OBVIOUS
  <2>. HIDE DEF before
  <2>2. before \in SUBSET (1 .. n)
    BY DEF before
  <2>. QED  BY <2>1, <2>2, InitialSegment
<1>5. \A i \in 1 .. c : i \in 1 .. n /\ vmas[i].start <= s
  <2>1. ASSUME NEW i \in 1 .. c PROVE i \in 1 .. n /\ vmas[i].start <= s
    <3>1. i \in before /\ i \in 1 .. i
      BY <1>4
    <3>. QED  BY <3>1
  <2>. QED  BY <2>1
<1>6. \A i \in c + 1 .. n : s < vmas[i].start
  <2>1. ASSUME NEW i \in c + 1 .. n PROVE s < vmas[i].start
    <3>1. i \in 1 .. n /\ i \notin 1 .. c
      BY <1>4
    <3>2. i \notin before
      BY <1>4, <3>1
    <3>3. PICK j \in 1 .. i : ~(vmas[j].start <= s)
      BY <3>1, <3>2
    <3>4. j \in 1 .. n /\ vmas[j].start <= vmas[i].start
      BY <1>1, <3>1, <3>3
    <3>. QED  BY <1>1, <3>1, <3>3, <3>4
  <2>. QED  BY <2>1
<1>. PICK k \in 1 .. n + 1 : k = c + 1
  OBVIOUS
<1>7. w = InsertAt(vmas, k, new)
  BY <1>4 DEF VmaAdded, NewArea
<1>. HIDE DEF before
<1>8. /\ w \in Seq(VmaRecord) /\ Len(w) = n + 1
      /\ \A i \in 1 .. n + 1 : w[i] = IF i <= c THEN vmas[i] ELSE IF i = c + 1 THEN new ELSE vmas[i - 1]
  <2>1. vmas \in Seq(VmaRecord) /\ k \in 1 .. Len(vmas) + 1
    BY DEF Ordered
  <2>2. /\ w \in Seq(VmaRecord) /\ Len(w) = n + 1
        /\ \A i \in 1 .. n + 1 : w[i] = IF i < k THEN vmas[i] ELSE IF i = k THEN new ELSE vmas[i - 1]
    <3>. PICK v : v = vmas
      OBVIOUS
    <3>. PICK S : S = VmaRecord
      OBVIOUS
    <3>1. v \in Seq(S) /\ new \in S /\ k \in 1 .. Len(v) + 1
      BY <2>1
    <3>2. /\ InsertAt(v, k, new) \in Seq(S) /\ Len(InsertAt(v, k, new)) = Len(v) + 1
          /\ \A i \in 1 .. Len(v) + 1 : InsertAt(v, k, new)[i] = Inserted(v, k, new, i)
      BY <3>1, InsertFacts, SMTT(30)
    <3>3. w = InsertAt(v, k, new)
      BY <1>7
    <3>. QED  BY <3>2, <3>3 DEF Inserted
  <2>3. \A i \in 1 .. n + 1 : (i < k <=> i <= c) /\ (i = k <=> i = c + 1)
    OBVIOUS
  <2>. QED  BY <2>2, <2>3
<1>9. \A i \in 1 .. n + 1 : \/ i \in 1 .. c /\ i \in 1 .. n /\ w[i] = vmas[i]
                            \/ i = c + 1 /\ w[i] = new
                            \/ i - 1 \in c + 1 .. n /\ i - 1 \in 1 .. n /\ w[i] = vmas[i - 1]
  BY <1>4, <1>8
<1>10. new.start = s /\ new.end = e
  BY DEF NewArea
<1>11. \A i \in 1 .. n + 1 : w[i].start < w[i].end /\ w[i].end <= u
  BY <1>1, <1>2, <1>9, <1>10
<1>12. ASSUME NEW i \in 1 .. n + 1, NEW j \in 1 .. n + 1, i < j PROVE w[i].end <= w[j].start
  <2>1. CASE i \in 1 .. c /\ i \in 1 .. n /\ w[i] = vmas[i]
    <3>1. vmas[i].end <= s
      BY <1>1, <1>2, <1>3, <1>5, <2>1
    <3>2. CASE j \in 1 .. c /\ j \in 1 .. n /\ w[j] = vmas[j]
      BY <1>1, <1>12, <2>1, <3>2
    <3>3. CASE j = c + 1 /\ w[j] = new
      BY <1>10, <2>1, <3>1, <3>3
    <3>4. CASE j - 1 \in c + 1 .. n /\ j - 1 \in 1 .. n /\ w[j] = vmas[j - 1]
      <4>1. i < j - 1
        BY <1>4, <2>1, <3>4
      <4>. QED  BY <1>1, <2>1, <3>4, <4>1
    <3>. QED  BY <1>9, <3>2, <3>3, <3>4
  <2>2. CASE i = c + 1 /\ w[i] = new
    <3>1. j - 1 \in c + 1 .. n /\ j - 1 \in 1 .. n /\ w[j] = vmas[j - 1]
      <4>1. j # c + 1 /\ j \notin 1 .. c
        BY <1>12, <2>2
      <4>. QED  BY <1>9, <4>1
    <3>2. s < vmas[j - 1].start /\ vmas[j - 1].start < vmas[j - 1].end
      BY <1>1, <1>6, <3>1
    <3>3. e <= vmas[j - 1].start
      BY <1>1, <1>3, <3>1, <3>2
    <3>. QED  BY <1>10, <2>2, <3>1, <3>3
  <2>3. CASE i - 1 \in c + 1 .. n /\ i - 1 \in 1 .. n /\ w[i] = vmas[i - 1]
    <3>1. j - 1 \in c + 1 .. n /\ j - 1 \in 1 .. n /\ w[j] = vmas[j - 1]
      BY <1>4, <1>9, <1>12, <2>3, SMTT(30)
    <3>2. i - 1 < j - 1
      BY <1>12
    <3>. QED  BY <1>1, <2>3, <3>1, <3>2
  <2>. QED  BY <1>9, <2>1, <2>2, <2>3
<1>13. Ordered(w)
  BY <1>8, <1>11, <1>12 DEF Ordered
<1>14. ASSUME NEW v PROVE Listed(v, w) <=> Listed(v, vmas) \/ v = new
  <2>1. ASSUME Listed(v, w) PROVE Listed(v, vmas) \/ v = new
    BY <1>8, <1>9, <2>1 DEF Listed
  <2>2. ASSUME Listed(v, vmas) PROVE Listed(v, w)
    <3>1. PICK i \in 1 .. n : vmas[i] = v
      BY <2>2 DEF Listed
    <3>2. CASE i <= c
      <4>1. i \in 1 .. n + 1 /\ w[i] = v
        BY <1>4, <1>8, <3>1, <3>2
      <4>. QED  BY <1>8, <4>1 DEF Listed
    <3>3. CASE ~(i <= c)
      <4>1. i + 1 \in 1 .. n + 1 /\ ~(i + 1 <= c) /\ i + 1 # c + 1 /\ (i + 1) - 1 = i
        BY <1>4, <3>1, <3>3
      <4>2. w[i + 1] = v
        BY <1>8, <3>1, <4>1
      <4>. QED  BY <1>8, <4>1, <4>2 DEF Listed
    <3>. QED  BY <3>2, <3>3
  <2>3. Listed(new, w)
    <3>1. c + 1 \in 1 .. n + 1 /\ ~(c + 1 <= c)
      BY <1>4
    <3>2. w[c + 1] = new
      BY <1>8, <3>1
    <3>. QED  BY <1>8, <3>1, <3>2 DEF Listed
  <2>. QED  BY <2>1, <2>2, <2>3
<1>. QED  BY <1>3, <1>13, <1>14

(* kVmaFind finds the area that contains the address, if one does.         *)
LEMMA VmaFindFacts ==
  ASSUME Ordered(vmas), NEW a \in Nat
  PROVE  LET areas == {i \in 1 .. Len(vmas) : a \in vmas[i].start .. vmas[i].end - 1} IN
         /\ VmaFind(a) = IF areas = {} THEN NoVma ELSE vmas[Lowest(areas)]
         /\ IsFiniteSet(areas) /\ Cardinality(areas) <= 1
         /\ \A i \in 1 .. Len(vmas) : In(a, vmas[i]) => VmaFind(a) = vmas[i] /\ VmaFind(a) # NoVma
         /\ VmaFind(a) # NoVma => \E i \in 1 .. Len(vmas) : In(a, vmas[i])
<1>. DEFINE areas == {i \in 1 .. Len(vmas) : a \in vmas[i].start .. vmas[i].end - 1}
            reached == {i \in 1 .. Len(vmas) : \A j \in 1 .. i : vmas[j].start <= a}
            hits == {i \in reached : a < vmas[i].end}
<1>1. /\ Len(vmas) \in Nat
      /\ \A i \in 1 .. Len(vmas) : /\ vmas[i].start \in Nat /\ vmas[i].end \in Nat
                                   /\ vmas[i].start < vmas[i].end
      /\ \A i, j \in 1 .. Len(vmas) : i <= j => vmas[i].start <= vmas[j].start
  BY OrderedFacts
<1>2. \A i \in 1 .. Len(vmas) : i \in areas <=> In(a, vmas[i])
  BY <1>1 DEF In
<1>3. \A i \in 1 .. Len(vmas) : i \in reached <=> vmas[i].start <= a
  <2>1. ASSUME NEW i \in 1 .. Len(vmas), vmas[i].start <= a, NEW j \in 1 .. i PROVE vmas[j].start <= a
    <3>1. j \in 1 .. Len(vmas) /\ j <= i
      BY <1>1
    <3>2. vmas[j].start <= vmas[i].start
      BY <1>1, <3>1
    <3>. QED  BY <1>1, <2>1, <3>1, <3>2
  <2>2. ASSUME NEW i \in 1 .. Len(vmas), i \in reached PROVE vmas[i].start <= a
    <3>1. i \in 1 .. i
      OBVIOUS
    <3>. QED  BY <2>2, <3>1
  <2>. QED  BY <2>1, <2>2
<1>4. hits = areas
  <2>1. ASSUME NEW i \in 1 .. Len(vmas) PROVE i \in hits <=> i \in areas
    BY <1>2, <1>3 DEF In
  <2>. QED  BY <2>1
<1>5. VmaFind(a) = IF areas = {} THEN NoVma ELSE vmas[Lowest(areas)]
  BY <1>4 DEF VmaFind
<1>6. \A i, j \in areas : i = j
  BY <1>2, OneArea
<1>7. IsFiniteSet(areas) /\ Cardinality(areas) <= 1
  <2>. HIDE DEF areas
  <2>1. CASE areas = {}
    BY <2>1, FS_EmptySet
  <2>2. CASE areas # {}
    <3>1. PICK i \in areas : areas = {i}
      BY <1>6, <2>2
    <3>2. IsFiniteSet({i}) /\ Cardinality({i}) = 1
      BY FS_Singleton
    <3>. QED  BY <3>1, <3>2
  <2>. QED  BY <2>1, <2>2
<1>8. areas \in SUBSET Nat
  OBVIOUS
<1>9. ASSUME NEW i \in 1 .. Len(vmas), In(a, vmas[i]) PROVE VmaFind(a) = vmas[i] /\ VmaFind(a) # NoVma
  <2>1. i \in areas
    BY <1>2, <1>9
  <2>2. Lowest(areas) \in areas
    <3>. HIDE DEF areas
    <3>. QED  BY <1>8, <2>1, LowestFacts
  <2>3. Lowest(areas) = i
    BY <1>6, <2>1, <2>2
  <2>4. VmaFind(a) = vmas[i]
    BY <1>5, <2>1, <2>3
  <2>5. NoVma.start = NoVma.end
    BY DEF NoVma
  <2>6. vmas[i] # NoVma
    BY <1>1, <2>5
  <2>. QED  BY <2>4, <2>6
<1>10. ASSUME VmaFind(a) # NoVma PROVE \E i \in 1 .. Len(vmas) : In(a, vmas[i])
  BY <1>2, <1>5, <1>10
<1>. QED  BY <1>5, <1>7, <1>9, <1>10

-----------------------------------------------------------------------------
(* Pages and segments.                                                     *)
Pages == {b \in UserBytes : b % PageSize = 0}
Area(s) == NewArea(Start(s), End(s), s.flags)

LEMMA AlignDownFacts ==
  ASSUME NEW a \in Nat
  PROVE  /\ AlignDown(a) \in Nat /\ AlignDown(a) % PageSize = 0
         /\ a % PageSize \in 0 .. PageSize - 1 /\ AlignDown(a) + (a % PageSize) = a
         /\ AlignDown(a) \div PageSize = a \div PageSize
<1>. PICK p \in Nat \ {0} : p = PageSize
  BY Numbers
<1>. PICK q, r : q = a \div p /\ r = a % p
  OBVIOUS
<1>1. q \in Nat /\ r \in 0 .. p - 1 /\ a = p * q + r
  BY DivModFacts
<1>2. p * q \in Nat /\ p * q = q * p + 0
  BY <1>1
<1>3. PICK x \in Nat : x = q * p + 0 /\ a = x + r
  BY <1>1, <1>2
<1>4. x % p = 0 /\ x \div p = q
  <2>1. 0 \in 0 .. p - 1
    OBVIOUS
  <2>. QED  BY <1>1, <1>3, <2>1, MultipleFacts
<1>5. AlignDown(a) = x
  BY <1>1, <1>3 DEF AlignDown
<1>. QED  BY <1>1, <1>3, <1>4, <1>5

LEMMA Gap ==
  ASSUME NEW x \in Nat, NEW y \in Nat, x % PageSize = 0, y % PageSize = 0
  PROVE  /\ x < y => x + PageSize <= y
         /\ (x + PageSize) % PageSize = 0
         /\ x \div PageSize = y \div PageSize => x = y
<1>. PICK p \in Nat \ {0} : p = PageSize
  BY Numbers
<1>1. PICK i \in Nat : i = x \div p /\ x = i * p
  <2>1. x \div p \in Nat /\ x = p * (x \div p) + 0
    BY DivModFacts
  <2>. QED  BY <2>1
<1>2. PICK j \in Nat : j = y \div p /\ y = j * p
  <2>1. y \div p \in Nat /\ y = p * (y \div p) + 0
    BY DivModFacts
  <2>. QED  BY <2>1
<1>3. ASSUME x < y PROVE x + p <= y
  <2>1. i < j
    <3>1. j <= i => j * p <= i * p
      OBVIOUS
    <3>. QED  BY <1>1, <1>2, <1>3, <3>1
  <2>2. (i + 1) * p <= j * p /\ (i + 1) * p = i * p + p
    BY <2>1
  <2>. QED  BY <1>1, <1>2, <2>2
<1>4. (x + p) % p = 0
  <2>1. (i + 1) * p = i * p + p /\ i + 1 \in Nat
    OBVIOUS
  <2>2. x + p \in Nat /\ x + p = (i + 1) * p
    BY <1>1, <2>1
  <2>. QED  BY <2>1, <2>2, MultipleIff
<1>. QED  BY <1>1, <1>2, <1>3, <1>4

(* The page an address lies on.                                            *)
LEMMA PageFacts ==
  ASSUME NEW a \in UserBytes, NEW b, b = AlignDown(a)
  PROVE  /\ b \in Pages /\ b \in Nat /\ a \in Nat /\ b <= a
         /\ a % PageSize \in 0 .. PageSize - 1 /\ b + (a % PageSize) = a
         /\ b + PageSize <= UserEnd /\ UserEnd < Word
         /\ \A node : PageOf(node, a) = PageOf(node, b)
<1>. PICK u \in Nat : u = UserEnd
  BY UserEndFacts
<1>1. a \in Nat /\ a < u
  BY DEF UserBytes
<1>2. /\ b \in Nat /\ b % PageSize = 0 /\ a % PageSize \in 0 .. PageSize - 1
      /\ b + (a % PageSize) = a /\ b \div PageSize = a \div PageSize
  BY <1>1, AlignDownFacts
<1>3. b <= a
  BY <1>1, <1>2, Numbers
<1>4. b \in UserBytes /\ b \in Pages
  BY <1>1, <1>2, <1>3 DEF UserBytes, Pages
<1>5. b + PageSize <= u /\ u < Word
  <2>1. b < u /\ u % PageSize = 0 /\ u + u <= Word /\ PageSize <= u
    BY <1>1, <1>2, <1>3, UserEndFacts
  <2>2. b + PageSize <= u
    BY <1>2, <2>1, Gap
  <2>. QED  BY <2>1, <2>2, Numbers
<1>6. Prefix(a, Depth) = Prefix(b, Depth)
  BY <1>2, <1>4, PrefixFacts
<1>. QED  BY <1>1, <1>2, <1>3, <1>4, <1>5, <1>6 DEF PageOf

LEMMA PagesFacts ==
  ASSUME NEW b \in Pages
  PROVE  /\ b \in UserBytes /\ b \in Nat /\ b < UserEnd /\ b % PageSize = 0
         /\ \A c \in Pages : Prefix(b, Depth) = Prefix(c, Depth) => b = c
<1>1. \A c \in Pages : c \in UserBytes /\ c \in Nat /\ c < UserEnd /\ c % PageSize = 0
  BY UserEndFacts DEF Pages, UserBytes
<1>2. ASSUME NEW c \in Pages, Prefix(b, Depth) = Prefix(c, Depth) PROVE b = c
  <2>1. b \div PageSize = c \div PageSize
    BY <1>1, <1>2, PrefixFacts
  <2>. QED  BY <1>1, <2>1, Gap
<1>. QED  BY <1>1, <1>2

(* A segment kElfLoad has not refused: its area lies in the user half.     *)
LEMMA SegmentFacts ==
  ASSUME NEW s \in Phdrs, ~Refused(s)
  PROVE  /\ {s.vaddr, s.memsz, s.filesz, s.offset} \subseteq Nat /\ s.filesz <= s.memsz
         /\ s.flags \in SUBSET {"r", "w", "x"}
         /\ Start(s) \in Nat /\ Start(s) % PageSize = 0 /\ Start(s) <= s.vaddr
         /\ End(s) \in Nat /\ End(s) % PageSize = 0 /\ End(s) <= UserEnd
         /\ Add(s.vaddr, s.memsz) \in Nat /\ Add(s.vaddr, s.memsz) <= End(s)
         /\ FileEnd(s) \in Nat /\ FileEnd(s) <= s.vaddr + s.filesz
         /\ Add(s.offset, s.filesz) <= FileSize
<1>. PICK u \in Nat : u = UserEnd
  BY UserEndFacts
<1>. PICK w \in Nat \ {0} : w = Word
  BY Numbers
<1>. PICK p \in Nat \ {0} : p = PageSize
  BY Numbers
<1>1. /\ {s.vaddr, s.memsz, s.filesz, s.offset} \subseteq 0 .. w - 1
      /\ s.flags \subseteq {"r", "w", "x"}
  BY ElfLoaderAssumption
<1>. PICK x \in 0 .. w - 1, m \in 0 .. w - 1, f \in 0 .. w - 1, o \in 0 .. w - 1 :
       x = s.vaddr /\ m = s.memsz /\ f = s.filesz /\ o = s.offset
  BY <1>1
<1>2. \A y, z \in 0 .. w - 1 : Add(y, z) \in Nat /\ Add(y, z) <= y + z
  <2>1. ASSUME NEW y \in 0 .. w - 1, NEW z \in 0 .. w - 1 PROVE Add(y, z) \in Nat /\ Add(y, z) <= y + z
    <3>1. PICK t \in Nat : t = y + z
      OBVIOUS
    <3>2. t % w \in Nat /\ t % w <= t
      <4>1. t \div w \in Nat /\ t % w \in 0 .. w - 1 /\ t = w * (t \div w) + (t % w)
        BY DivModFacts
      <4>2. w * (t \div w) \in Nat
        BY <4>1
      <4>. QED  BY <4>1, <4>2
    <3>. QED  BY <3>1, <3>2 DEF Add
  <2>. QED  BY <2>1
<1>3. x < u /\ Add(x, m) < u /\ f <= m /\ Add(o, f) <= FileSize
  <2>1. Add(o, f) \in Nat /\ Add(x, m) \in Nat
    BY <1>2
  <2>. QED  BY <2>1, Numbers DEF Refused
<1>4. Start(s) \in Nat /\ Start(s) % p = 0 /\ Start(s) <= x
  <2>1. AlignDown(x) \in Nat /\ AlignDown(x) % p = 0 /\ x % p \in 0 .. p - 1 /\ AlignDown(x) + (x % p) = x
    <3>1. x \in Nat
      OBVIOUS
    <3>2. /\ AlignDown(x) \in Nat /\ AlignDown(x) % PageSize = 0
          /\ x % PageSize \in 0 .. PageSize - 1 /\ AlignDown(x) + (x % PageSize) = x
      BY <3>1, AlignDownFacts, Zenon
    <3>. QED  BY <3>2
  <2>. QED  BY <2>1 DEF Start
<1>5. PICK e \in Nat : e = Add(x, m) /\ e < u
  BY <1>2, <1>3
<1>6. u % p = 0 /\ p <= u /\ u + u <= w
  BY UserEndFacts
<1>7. PICK z \in Nat : z = e + (p - 1) /\ Add(e, p - 1) = z
  <2>1. e + (p - 1) \in 0 .. w - 1
    BY <1>5, <1>6
  <2>2. (e + (p - 1)) % w = e + (p - 1)
    BY <2>1
  <2>. QED  BY <2>1, <2>2 DEF Add
<1>8. PICK y, r : y = AlignDown(z) /\ r = z % p /\ y = End(s)
  BY <1>5, <1>7 DEF End, AlignUp
<1>9. y \in Nat /\ y % p = 0 /\ r \in 0 .. p - 1 /\ y + r = z
  BY <1>8, AlignDownFacts
<1>10. e <= y
  BY <1>7, <1>9
<1>11. y <= u
  <2>1. u < y => u + p <= y
    BY <1>6, <1>9, Gap
  <2>. QED  BY <1>5, <1>7, <1>9, <2>1
<1>12. FileEnd(s) \in Nat /\ FileEnd(s) <= x + f
  BY <1>2 DEF FileEnd
<1>. QED  BY <1>1, <1>3, <1>4, <1>5, <1>8, <1>9, <1>10, <1>11, <1>12

-----------------------------------------------------------------------------
(* The invariant.  The frames that are neither free nor another task's     *)
(* make one tree, and each mapped page of it lies in an area of the list,  *)
(* with its rights, and as long as nothing has failed in a segment that    *)
(* was loaded or is being loaded, with its bytes; all pages the file has   *)
(* something of are mapped, those of the segment being loaded up to va.    *)
Used == Frame \ (free \union others)
Segs == loaded \union (IF pc = "page" THEN {seg} ELSE {})

Types ==
  /\ free \subseteq Frame /\ others \subseteq Frame /\ free \intersect others = {}
  /\ table \in TableType
  /\ bytes \in [Frame -> [0 .. PageSize - 1 -> Int]]
  /\ pc \in {"idle", "header", "phdr", "page", "runs", "fail"}
  /\ extent \in [low : Nat, high : Nat]

SegmentsListed ==
  /\ Ordered(vmas)
  /\ \A s \in Segs : s \in Phdrs /\ ~Refused(s) /\ Listed(Area(s), vmas)
  /\ \A s \in loaded : extent.low <= s.vaddr /\ Add(s.vaddr, s.memsz) <= extent.high
  /\ pc = "page" =>
       /\ va \in Nat /\ va % PageSize = 0 /\ Start(seg) <= va /\ va <= End(seg)
       /\ \A s \in loaded, b \in Pages : ~(In(b, Area(s)) /\ In(b, Area(seg)))

PagesLoaded(node) ==
  /\ \A b \in Pages : PageOf(node, b) # None =>
       \E i \in 1 .. Len(vmas) : /\ In(b, vmas[i])
                                 /\ Pte(node, table, b) = Leaf(PageOf(node, b), vmas[i].flags)
  /\ \A s \in Segs, b \in Pages : In(b, Area(s)) /\ PageOf(node, b) # None =>
       bytes[PageOf(node, b)] = PageBytes(s, b)
  /\ \A s \in loaded, b \in Pages : In(b, Area(s)) /\ b < FileEnd(s) => PageOf(node, b) # None
  /\ pc = "page" => \A b \in Pages : In(b, Area(seg)) =>
       (PageOf(node, b) # None <=> b < va /\ b < FileEnd(seg))
  /\ pc # "fail" => \A b \in Pages : PageOf(node, b) # None => \E s \in Segs : In(b, Area(s))

LoaderInv ==
  /\ Types
  /\ pc = "idle" => Used = {} /\ loaded = {} /\ vmas = <<>>
  /\ pc # "idle" =>
       /\ SegmentsListed
       /\ \E node : Nodes(node, table, Used) /\ PagesLoaded(node)

LEMMA BytesTypes ==
  /\ JunkPage \in [0 .. PageSize - 1 -> Int]
  /\ \A s \in Phdrs, a \in Nat : PageBytes(s, a) \in [0 .. PageSize - 1 -> Int]
<1>1. JunkPage \in [0 .. PageSize - 1 -> Int]
  BY DEF JunkPage, JunkByte
<1>2. ASSUME NEW s \in Phdrs, NEW a \in Nat PROVE PageBytes(s, a) \in [0 .. PageSize - 1 -> Int]
  <2>1. ASSUME NEW k \in 0 .. PageSize - 1 PROVE FileByte(Add(s.offset, a + k - s.vaddr)) \in Int
    <3>1. s.offset \in Int /\ s.vaddr \in Int
      BY ElfLoaderAssumption
    <3>2. PICK x \in Int : x = s.offset + (a + k - s.vaddr)
      BY <3>1, Numbers
    <3>3. x % Word \in Int
      BY Numbers
    <3>. QED  BY <3>2, <3>3 DEF Add, FileByte, Outside
  <2>. QED  BY <2>1 DEF PageBytes, Zero
<1>. QED  BY <1>1, <1>2

LEMMA InvInit == LoadInit => LoaderInv
<1>. SUFFICES ASSUME LoadInit PROVE LoaderInv
  OBVIOUS
<1>1. Types
  <2>1. table \in TableType
    <3>1. EmptyTable \in [Index -> PteRecord]
      BY DEF EmptyTable, NoPte, PteRecord
    <3>. QED  BY <3>1 DEF LoadInit, TableType
  <2>2. bytes \in [Frame -> [0 .. PageSize - 1 -> Int]]
    BY BytesTypes DEF LoadInit
  <2>3. extent \in [low : Nat, high : Nat]
    BY UserEndFacts DEF LoadInit, NoExtent
  <2>. QED  BY <2>1, <2>2, <2>3 DEF LoadInit, Types
<1>2. pc = "idle" /\ Used = {} /\ loaded = {} /\ vmas = <<>>
  BY DEF LoadInit, Used
<1>. QED  BY <1>1, <1>2 DEF LoaderInv

(* Other tasks take and return frames beside the tree.                     *)
LEMMA InvOther ==
  ASSUME LoaderInv, OtherTakes \/ OtherReturns
  PROVE  LoaderInv'
<1>1. UNCHANGED <<table, bytes, root, vmas, pc, left, seg, va, extent, loaded>>
  BY DEF OtherTakes, OtherReturns
<1>2. /\ free' \subseteq Frame /\ others' \subseteq Frame /\ free' \intersect others' = {}
      /\ free' \union others' = free \union others
  <2>0. free \subseteq Frame /\ others \subseteq Frame /\ free \intersect others = {}
    BY DEF LoaderInv, Types
  <2>1. CASE OtherTakes
    <3>1. Lowest(free) \in free
      BY <2>0, <2>1, LowestFacts, FrameFacts DEF OtherTakes
    <3>. QED  BY <2>0, <2>1, <3>1 DEF OtherTakes
  <2>2. CASE OtherReturns
    BY <2>0, <2>2 DEF OtherReturns
  <2>. QED  BY <2>1, <2>2
<1>3. Types'
  BY <1>1, <1>2 DEF LoaderInv, Types
<1>4. Used' = Used /\ Segs' = Segs
  BY <1>1, <1>2 DEF Used, Segs
<1>5. SegmentsListed' <=> SegmentsListed
  BY <1>1, <1>4 DEF SegmentsListed
<1>6. ASSUME NEW node PROVE /\ Nodes(node, table, Used)' <=> Nodes(node, table, Used)
                            /\ PagesLoaded(node)' <=> PagesLoaded(node)
  BY <1>1, <1>4 DEF Nodes, PagesLoaded, PageOf, Pte
<1>. QED  BY <1>1, <1>3, <1>4, <1>5, <1>6 DEF LoaderInv

(* The steps that only move pc on, or give up.                             *)
LEMMA InvPc ==
  ASSUME LoaderInv, UNCHANGED <<frames, root, vmas, extent, loaded>>, pc # "idle",
         pc' # "idle" /\ pc' \in {"header", "phdr", "page", "runs", "fail"},
         pc' = "page" => pc = "page" /\ UNCHANGED <<seg, va>>,
         pc = "page" => pc' \in {"page", "fail"}, pc = "fail" => pc' = "fail"
  PROVE  LoaderInv'
<1>1. UNCHANGED <<free, others, table, bytes>>
  BY DEF frames
<1>2. Types'
  BY <1>1 DEF LoaderInv, Types
<1>3. Used' = Used /\ Segs' \subseteq Segs /\ (pc' # "fail" => Segs' = Segs)
  BY <1>1 DEF Used, Segs
<1>4. SegmentsListed'
  BY <1>3 DEF LoaderInv, SegmentsListed
<1>5. PICK node : Nodes(node, table, Used) /\ PagesLoaded(node)
  BY DEF LoaderInv
<1>6. Nodes(node, table, Used)'
  BY <1>1, <1>3, <1>5 DEF Nodes
<1>7. PagesLoaded(node)'
  BY <1>1, <1>3, <1>5 DEF PagesLoaded, PageOf, Pte
<1>. QED  BY <1>2, <1>4, <1>6, <1>7 DEF LoaderInv

(* kMmCreate: the root alone.                                              *)
LEMMA InvMmCreate ==
  ASSUME LoaderInv, MmCreate
  PROVE  LoaderInv'
<1>. PICK f : f = Lowest(free)
  OBVIOUS
<1>1. /\ free \subseteq Frame /\ others \subseteq Frame /\ free \intersect others = {} /\ table \in TableType
      /\ bytes \in [Frame -> [0 .. PageSize - 1 -> Int]]
  BY DEF LoaderInv, Types
<1>2. f \in free /\ f \in Frame /\ f # None
  BY <1>1, LowestFacts, FrameFacts DEF MmCreate
<1>3. /\ pc = "idle" /\ pc' = "header" /\ root' = f /\ free' = free \ {f} /\ others' = others
      /\ bytes' = bytes /\ vmas' = <<>> /\ loaded' = {} /\ extent' = NoExtent
      /\ table' = [table EXCEPT ![f] = [i \in Index |-> IF 2 * i < Fan THEN NoPte ELSE Link(KernelTable)]]
  BY DEF MmCreate
<1>4. table' \in TableType /\ \A i \in Index : 2 * i < Fan => table'[f][i].to = None
  <2>1. NoPte \in PteRecord /\ Link(KernelTable) \in PteRecord
    BY DEF NoPte, Link, PteRecord
  <2>2. [i \in Index |-> IF 2 * i < Fan THEN NoPte ELSE Link(KernelTable)] \in [Index -> PteRecord]
    BY <2>1
  <2>3. table' \in TableType
    BY <1>1, <1>2, <1>3, <2>2 DEF TableType
  <2>4. table'[f] = [i \in Index |-> IF 2 * i < Fan THEN NoPte ELSE Link(KernelTable)]
    BY <1>1, <1>2, <1>3 DEF TableType
  <2>5. NoPte.to = None
    BY DEF NoPte
  <2>. QED  BY <2>3, <2>4, <2>5
<1>5. Types'
  <2>1. extent' \in [low : Nat, high : Nat]
    BY <1>3, UserEndFacts DEF NoExtent
  <2>. QED  BY <1>1, <1>3, <1>4, <2>1 DEF Types
<1>6. Used' = {f} /\ Segs' = {}
  <2>1. Used = {}
    BY <1>3 DEF LoaderInv
  <2>. QED  BY <1>1, <1>2, <1>3, <2>1 DEF Used, Segs
<1>7. SegmentsListed'
  <2>1. Ordered(<<>>)
    BY DEF Ordered
  <2>. QED  BY <1>3, <1>6, <2>1 DEF SegmentsListed
<1>a. PICK node : node = [x \in Place |-> IF x = <<0, 0>> THEN f ELSE None]
  OBVIOUS
<1>8. \A l \in 0 .. Depth, q \in Nat :
        /\ <<l, q>> \in Place
        /\ node[<<l, q>>] = IF l = 0 /\ q = 0 THEN f ELSE None
  BY <1>a DEF Place
<1>9. Nodes(node, table, Used)'
  <2>0. 0 \in 0 .. Depth /\ 0 \in Nat /\ \A l \in 0 .. Depth - 1 : l \in 0 .. Depth /\ l + 1 \in 0 .. Depth /\ l + 1 # 0
    BY Numbers
  <2>1. node \in [Place -> Used' \union {None}] /\ root' \in Used'
    BY <1>a, <1>3, <1>6
  <2>2. \A q \in Nat : node[<<0, q>>] = IF q = 0 THEN root' ELSE None
    BY <1>3, <1>8, <2>0
  <2>3. \A u \in Used' : \E x \in Place : node[x] = u
    BY <1>6, <1>8, <2>0
  <2>4. \A x, y \in Place : node[x] = node[y] /\ node[x] # None => x = y
    BY <1>a
  <2>5. \A l \in 0 .. Depth - 1, q \in Nat : node[<<l + 1, q>>] = None
    BY <1>8, <2>0
  <2>6. ASSUME NEW l \in 0 .. Depth - 1, NEW p \in Nat, NEW i \in Index, node[<<l, p>>] # None, UserEntry(l, i)
        PROVE  table'[node[<<l, p>>]][i].to = node[<<l + 1, p * Fan + i>>]
    <3>1. l = 0 /\ node[<<l, p>>] = f
      BY <1>8, <2>0, <2>6
    <3>2. p * Fan + i \in Nat
      BY PlaceFacts
    <3>. QED  BY <1>4, <2>5, <2>6, <3>1, <3>2 DEF UserEntry
  <2>. QED  BY <2>1, <2>2, <2>3, <2>4, <2>5, <2>6 DEF Nodes
<1>10. PagesLoaded(node)'
  <2>1. \A b \in Pages : PageOf(node, b) = None
    <3>1. Depth \in 0 .. Depth /\ Depth # 0
      BY Numbers
    <3>2. \A b \in Pages : Prefix(b, Depth) \in Nat
      BY <3>1, PagesFacts, PrefixFacts
    <3>. QED  BY <1>8, <3>1, <3>2 DEF PageOf
  <2>. QED  BY <1>3, <1>6, <2>1 DEF PagesLoaded
<1>. QED  BY <1>3, <1>5, <1>7, <1>9, <1>10 DEF LoaderInv

(* An area more, of a segment or of the stack: no page is in it yet.       *)
AreaAdded(s, e, flags) ==
  /\ s \in Nat /\ e \in Nat /\ flags \in SUBSET {"r", "w", "x"}
  /\ pc = "phdr" /\ VmaAllowed(s, e) /\ vmas' = VmaAdded(s, e, flags)
  /\ UNCHANGED <<frames, root, extent, loaded>>

LEMMA AreaAddedFacts ==
  ASSUME LoaderInv, NEW s, NEW e, NEW flags, AreaAdded(s, e, flags)
  PROVE  /\ Ordered(vmas')
         /\ \A v : Listed(v, vmas) => Listed(v, vmas')
         /\ Listed(NewArea(s, e, flags), vmas')
         /\ \A v, a : Listed(v, vmas) /\ a \in Nat => ~(In(a, v) /\ In(a, NewArea(s, e, flags)))
         /\ \E node : /\ Nodes(node, table, Used)' /\ PagesLoaded(node)
                      /\ \A b \in Pages : In(b, NewArea(s, e, flags)) => PageOf(node, b) = None
                      /\ \A b \in Pages : PageOf(node, b) # None =>
                           \E i \in 1 .. Len(vmas') :
                              /\ In(b, vmas'[i])
                              /\ Pte(node, table', b) = Leaf(PageOf(node, b), vmas'[i].flags)
<1>0. /\ s \in Nat /\ e \in Nat /\ flags \in SUBSET {"r", "w", "x"}
      /\ pc = "phdr" /\ VmaAllowed(s, e) /\ UNCHANGED <<frames, root, extent, loaded>>
  BY DEF AreaAdded
<1>. PICK w : w = VmaAdded(s, e, flags) /\ w = vmas'
  BY DEF AreaAdded
<1>1. Ordered(vmas)
  BY <1>0 DEF LoaderInv, SegmentsListed
<1>2. /\ Ordered(w)
      /\ \A v : Listed(v, w) <=> Listed(v, vmas) \/ v = NewArea(s, e, flags)
      /\ \A i \in 1 .. Len(vmas) : vmas[i].end <= s \/ e <= vmas[i].start
  BY <1>0, <1>1, VmaAddedFacts
<1>3. ASSUME NEW v, NEW a \in Nat, Listed(v, vmas), In(a, v), In(a, NewArea(s, e, flags)) PROVE FALSE
  <2>1. PICK i \in 1 .. Len(vmas) : vmas[i] = v
    BY <1>3 DEF Listed
  <2>2. vmas[i].start \in Nat /\ vmas[i].end \in Nat
    BY <1>1, OrderedFacts
  <2>3. s <= a /\ a < e
    BY <1>3 DEF In, NewArea
  <2>4. vmas[i].start <= a /\ a < vmas[i].end
    BY <1>3, <2>1 DEF In
  <2>. QED  BY <1>0, <1>2, <2>2, <2>3, <2>4
<1>4. PICK node : Nodes(node, table, Used) /\ PagesLoaded(node)
  BY <1>0 DEF LoaderInv
<1>5. Used' = Used /\ table' = table /\ root' = root
  BY <1>0 DEF Used, frames
<1>6. Nodes(node, table, Used)'
  BY <1>4, <1>5 DEF Nodes
<1>7. ASSUME NEW b \in Pages, PageOf(node, b) # None
      PROVE  /\ ~In(b, NewArea(s, e, flags))
             /\ \E i \in 1 .. Len(w) : In(b, w[i]) /\ Pte(node, table', b) = Leaf(PageOf(node, b), w[i].flags)
  <2>1. PICK i \in 1 .. Len(vmas) : In(b, vmas[i]) /\ Pte(node, table, b) = Leaf(PageOf(node, b), vmas[i].flags)
    BY <1>4, <1>7 DEF PagesLoaded
  <2>2. Listed(vmas[i], vmas)
    BY DEF Listed
  <2>3. PICK j \in 1 .. Len(w) : w[j] = vmas[i]
    BY <1>2, <2>2 DEF Listed
  <2>4. b \in Nat
    BY PagesFacts
  <2>5. ~In(b, NewArea(s, e, flags))
    BY <1>3, <2>1, <2>2, <2>4
  <2>. QED  BY <1>5, <2>1, <2>3, <2>5
<1>8. \A b \in Pages : In(b, NewArea(s, e, flags)) => PageOf(node, b) = None
  BY <1>7
<1>. QED  BY <1>2, <1>3, <1>4, <1>6, <1>7, <1>8

LEMMA InvBeginSegment ==
  ASSUME LoaderInv, BeginSegment
  PROVE  LoaderInv'
<1>1. PICK s \in Phdrs : /\ ~Refused(s) /\ VmaAllowed(Start(s), End(s))
                         /\ vmas' = VmaAdded(Start(s), End(s), s.flags) /\ seg' = s /\ va' = Start(s)
  BY DEF BeginSegment
<1>2. /\ pc = "phdr" /\ pc' = "page" /\ UNCHANGED <<frames, root, extent, loaded>>
      /\ UNCHANGED <<free, others, table, bytes>>
  BY DEF BeginSegment, NextHeader, frames
<1>3. /\ Start(s) \in Nat /\ End(s) \in Nat /\ s.flags \in SUBSET {"r", "w", "x"}
      /\ Start(s) % PageSize = 0 /\ Start(s) < End(s)
  BY <1>1, SegmentFacts DEF VmaAllowed
<1>4. AreaAdded(Start(s), End(s), s.flags)
  BY <1>1, <1>2, <1>3 DEF AreaAdded
<1>5. /\ Ordered(vmas')
      /\ \A v : Listed(v, vmas) => Listed(v, vmas')
      /\ Listed(Area(s), vmas')
      /\ \A v, a : Listed(v, vmas) /\ a \in Nat => ~(In(a, v) /\ In(a, Area(s)))
  BY <1>4, AreaAddedFacts, Zenon DEF Area
<1>6. PICK node : /\ Nodes(node, table, Used)' /\ PagesLoaded(node)
                  /\ \A b \in Pages : In(b, Area(s)) => PageOf(node, b) = None
                  /\ \A b \in Pages : PageOf(node, b) # None =>
                       \E i \in 1 .. Len(vmas') :
                          In(b, vmas'[i]) /\ Pte(node, table', b) = Leaf(PageOf(node, b), vmas'[i].flags)
  BY <1>4, AreaAddedFacts, Zenon DEF Area
<1>7. Segs' = loaded \union {s} /\ Segs = loaded /\ loaded' = loaded
  BY <1>1, <1>2 DEF Segs
<1>8. Types'
  BY <1>2 DEF LoaderInv, Types
<1>9. SegmentsListed'
  <2>1. \A r \in loaded : r \in Phdrs /\ ~Refused(r) /\ Listed(Area(r), vmas)
    BY <1>2, <1>7 DEF LoaderInv, SegmentsListed
  <2>2. \A r \in Segs' : r \in Phdrs /\ ~Refused(r) /\ Listed(Area(r), vmas')
    BY <1>1, <1>5, <1>7, <2>1
  <2>3. \A r \in loaded' : extent'.low <= r.vaddr /\ Add(r.vaddr, r.memsz) <= extent'.high
    BY <1>2, <1>7 DEF LoaderInv, SegmentsListed
  <2>4. \A r \in loaded', b \in Pages : ~(In(b, Area(r)) /\ In(b, Area(seg')))
    BY <1>1, <1>5, <1>7, <2>1, PagesFacts
  <2>5. va' \in Nat /\ va' % PageSize = 0 /\ Start(seg') <= va' /\ va' <= End(seg')
    BY <1>1, <1>3
  <2>. QED  BY <1>5, <2>2, <2>3, <2>4, <2>5 DEF SegmentsListed
<1>10. PagesLoaded(node)'
  <2>1. \A r \in Segs', b \in Pages : In(b, Area(r)) /\ PageOf(node, b) # None => bytes'[PageOf(node, b)] = PageBytes(r, b)
    BY <1>2, <1>6, <1>7 DEF PagesLoaded
  <2>2. \A r \in loaded', b \in Pages : In(b, Area(r)) /\ b < FileEnd(r) => PageOf(node, b) # None
    BY <1>6, <1>7 DEF PagesLoaded
  <2>3. \A b \in Pages : In(b, Area(seg')) => (PageOf(node, b) # None <=> b < va' /\ b < FileEnd(seg'))
    <3>1. ASSUME NEW b \in Pages, In(b, Area(s)) PROVE ~(b < Start(s))
      <4>1. b \in Nat /\ Start(s) <= b
        BY <3>1, PagesFacts DEF In, Area, NewArea
      <4>. QED  BY <1>3, <4>1
    <3>. QED  BY <1>1, <1>6, <3>1
  <2>4. \A b \in Pages : PageOf(node, b) # None => \E r \in Segs' : In(b, Area(r))
    BY <1>2, <1>6, <1>7 DEF PagesLoaded
  <2>. QED  BY <1>6, <2>1, <2>2, <2>3, <2>4 DEF PagesLoaded
<1>. QED  BY <1>2, <1>6, <1>8, <1>9, <1>10 DEF LoaderInv

LEMMA InvStartProgram ==
  ASSUME LoaderInv, StartProgram
  PROVE  LoaderInv'
<1>1. /\ pc = "phdr" /\ pc' = "runs" /\ UNCHANGED <<frames, root, extent, loaded>>
      /\ UNCHANGED <<free, others, table, bytes>>
  BY DEF StartProgram, frames
<1>2. AreaAdded(StackStart, StackEnd, {"r", "w"})
  BY <1>1, ElfLoaderAssumption DEF AreaAdded, StartProgram
<1>3. Ordered(vmas') /\ \A v : Listed(v, vmas) => Listed(v, vmas')
  BY <1>2, AreaAddedFacts, Zenon
<1>4. PICK node : /\ Nodes(node, table, Used)' /\ PagesLoaded(node)
                  /\ \A b \in Pages : PageOf(node, b) # None =>
                       \E i \in 1 .. Len(vmas') :
                          In(b, vmas'[i]) /\ Pte(node, table', b) = Leaf(PageOf(node, b), vmas'[i].flags)
  BY <1>2, AreaAddedFacts, Zenon
<1>5. Segs' = loaded /\ Segs = loaded /\ loaded' = loaded
  BY <1>1 DEF Segs
<1>6. Types'
  BY <1>1 DEF LoaderInv, Types
<1>7. SegmentsListed'
  BY <1>1, <1>3, <1>5 DEF LoaderInv, SegmentsListed
<1>8. PagesLoaded(node)'
  BY <1>1, <1>4, <1>5 DEF PagesLoaded
<1>. QED  BY <1>1, <1>4, <1>6, <1>7, <1>8 DEF LoaderInv

(* The page to load next: in the segment's area and not mapped.            *)
LEMMA NextPage ==
  ASSUME LoaderInv, pc = "page", InFile
  PROVE  /\ va \in Pages /\ In(va, Area(seg)) /\ va < FileEnd(seg) /\ va + PageSize <= End(seg)
         /\ seg \in Segs /\ seg \in Phdrs
         /\ \A b \in Pages : (b < va + PageSize <=> b < va \/ b = va)
         /\ \A node : PagesLoaded(node) => PageOf(node, va) = None
<1>1. /\ va \in Nat /\ va % PageSize = 0 /\ Start(seg) <= va /\ va < End(seg) /\ va < FileEnd(seg)
      /\ seg \in Segs /\ seg \in Phdrs /\ ~Refused(seg)
  BY DEF LoaderInv, SegmentsListed, Segs, InFile
<1>2. Start(seg) \in Nat /\ End(seg) \in Nat /\ End(seg) % PageSize = 0 /\ End(seg) <= UserEnd
  BY <1>1, SegmentFacts
<1>3. va \in Pages
  BY <1>1, <1>2, UserEndFacts DEF Pages, UserBytes
<1>4. In(va, Area(seg))
  BY <1>1 DEF In, Area, NewArea
<1>5. va + PageSize <= End(seg)
  BY <1>1, <1>2, Gap
<1>6. ASSUME NEW b \in Pages PROVE b < va + PageSize <=> b < va \/ b = va
  <2>1. b \in Nat /\ b % PageSize = 0
    BY PagesFacts
  <2>2. va < b => va + PageSize <= b
    BY <1>1, <2>1, Gap
  <2>. QED  BY <1>1, <2>1, <2>2, Numbers
<1>7. ASSUME NEW node, PagesLoaded(node) PROVE PageOf(node, va) = None
  <2>1. ~(va < va)
    BY <1>1
  <2>. QED  BY <1>3, <1>4, <1>7, <2>1 DEF PagesLoaded
<1>. QED  BY <1>1, <1>3, <1>4, <1>5, <1>6, <1>7

(* What kMapPage does to the tree, whether it succeeds or not.             *)
LEMMA MapNext ==
  ASSUME LoaderInv, pc = "page", InFile, free # {},
         NEW f, f = Lowest(free), NEW m, m = MapPage(free \ {f}, va, f, seg.flags)
  PROVE  /\ f \in free /\ m.free \subseteq free \ {f} /\ m.table \in TableType
         /\ \E node, n :
              /\ Nodes(node, table, Used) /\ PagesLoaded(node)
              /\ m.ok => /\ Nodes(n, m.table, Frame \ (m.free \union others))
                         /\ SamePages(node, table, n, m.table, {Prefix(va, Depth)})
                         /\ PageOf(n, va) = f /\ Pte(n, m.table, va) = Leaf(f, seg.flags)
              /\ ~m.ok => /\ Nodes(n, m.table, Frame \ (m.free \union {f} \union others))
                          /\ SamePages(node, table, n, m.table, {})
<1>1. free \subseteq Frame /\ others \subseteq Frame /\ free \intersect others = {} /\ table \in TableType
  BY DEF LoaderInv, Types
<1>2. f \in free
  BY <1>1, LowestFacts, FrameFacts
<1>3. PICK node : Nodes(node, table, Used) /\ PagesLoaded(node)
  BY DEF LoaderInv
<1>4. va \in UserBytes /\ PageOf(node, va) = None
  BY <1>3, NextPage, PagesFacts
<1>u. PICK U \in SUBSET Frame : U = Used
  BY DEF Used
<1>v. PICK avail \in SUBSET (Frame \ U) : avail = free \ {f}
  BY <1>1, <1>u DEF Used
<1>5. f \in Frame \ (U \union avail)
  BY <1>1, <1>2, <1>u, <1>v DEF Used
<1>6. Mapped(m, avail, U, node, va, f, seg.flags)
  <2>1. Nodes(node, table, U) /\ m = MapPage(avail, va, f, seg.flags)
    BY <1>3, <1>u, <1>v
  <2>2. table \in TableType
    BY <1>1
  <2>. QED  BY <1>4, <1>5, <2>1, <2>2, MapPageFacts
<1>7. /\ U \union (avail \ m.free) \union {f} = Frame \ (m.free \union others)
      /\ U \union (avail \ m.free) = Frame \ (m.free \union {f} \union others)
  BY <1>1, <1>2, <1>6, <1>u, <1>v DEF Used, Mapped
<1>8. CASE m.ok
  <2>1. PICK n : /\ Nodes(n, m.table, Frame \ (m.free \union others))
                 /\ SamePages(node, table, n, m.table, {Prefix(va, Depth)})
                 /\ PageOf(n, va) = f /\ Pte(n, m.table, va) = Leaf(f, seg.flags)
    BY <1>6, <1>7, <1>8 DEF Mapped
  <2>. QED  BY <1>2, <1>3, <1>6, <1>8, <1>v, <2>1 DEF Mapped
<1>9. CASE ~m.ok
  <2>1. PICK n : /\ Nodes(n, m.table, Frame \ (m.free \union {f} \union others))
                 /\ SamePages(node, table, n, m.table, {})
    BY <1>6, <1>7, <1>9 DEF Mapped
  <2>. QED  BY <1>2, <1>3, <1>6, <1>9, <1>v, <2>1 DEF Mapped
<1>. QED  BY <1>8, <1>9

LEMMA InvLoadPage ==
  ASSUME LoaderInv, LoadPage
  PROVE  LoaderInv'
<1>0. pc = "page" /\ InFile /\ free # {}
  BY DEF LoadPage
<1>. PICK f : f = Lowest(free)
  OBVIOUS
<1>m. PICK m : m = MapPage(free \ {f}, va, f, seg.flags)
  OBVIOUS
<1>1. /\ m.ok /\ free' = m.free /\ table' = m.table
      /\ bytes' = [bytes EXCEPT ![f] = PageBytes(seg, va)] /\ va' = va + PageSize
      /\ UNCHANGED <<others, root, vmas, pc, left, seg, extent, loaded>>
  BY <1>m, Zenon DEF LoadPage
<1>2. /\ f \in free /\ m.free \subseteq free \ {f} /\ m.table \in TableType
      /\ \E node, n :
           /\ Nodes(node, table, Used) /\ PagesLoaded(node)
           /\ m.ok => /\ Nodes(n, m.table, Frame \ (m.free \union others))
                      /\ SamePages(node, table, n, m.table, {Prefix(va, Depth)})
                      /\ PageOf(n, va) = f /\ Pte(n, m.table, va) = Leaf(f, seg.flags)
  BY <1>0, <1>m, MapNext, ZenonT(30)
<1>3. PICK node, n :
        /\ Nodes(node, table, Used) /\ PagesLoaded(node)
        /\ Nodes(n, m.table, Frame \ (m.free \union others))
        /\ SamePages(node, table, n, m.table, {Prefix(va, Depth)})
        /\ PageOf(n, va) = f /\ Pte(n, m.table, va) = Leaf(f, seg.flags)
  BY <1>1, <1>2
<1>4. /\ va \in Pages /\ In(va, Area(seg)) /\ va < FileEnd(seg) /\ va + PageSize <= End(seg)
      /\ seg \in Segs /\ seg \in Phdrs /\ va \in Nat
      /\ \A b \in Pages : (b < va + PageSize <=> b < va \/ b = va)
  BY <1>0, NextPage, PagesFacts
<1>5. Segs' = Segs /\ loaded' = loaded /\ vmas' = vmas /\ seg' = seg
  BY <1>1 DEF Segs
<1>6. Types'
  <2>1. PageBytes(seg, va) \in [0 .. PageSize - 1 -> Int]
    BY <1>4, BytesTypes
  <2>2. bytes' \in [Frame -> [0 .. PageSize - 1 -> Int]]
    BY <1>1, <2>1 DEF LoaderInv, Types
  <2>. QED  BY <1>1, <1>2, <2>2 DEF LoaderInv, Types
<1>7. Nodes(n, table, Used)'
  <2>1. Used' = Frame \ (m.free \union others) /\ table' = m.table /\ root' = root
    BY <1>1 DEF Used
  <2>. QED  BY <1>3, <2>1 DEF Nodes
<1>8. SegmentsListed'
  <2>1. va' \in Nat /\ va' % PageSize = 0 /\ Start(seg') <= va' /\ va' <= End(seg')
    <3>1. va % PageSize = 0 /\ Start(seg) <= va
      BY <1>0 DEF LoaderInv, SegmentsListed
    <3>2. Start(seg) \in Nat
      BY <1>0, <1>4, SegmentFacts DEF LoaderInv, SegmentsListed
    <3>. QED  BY <1>1, <1>4, <3>1, <3>2, Gap, Numbers
  <2>. QED  BY <1>0, <1>1, <1>5, <2>1 DEF LoaderInv, SegmentsListed
<1>9. ASSUME NEW b \in Pages, b # va
      PROVE  /\ PageOf(n, b) = PageOf(node, b)
             /\ PageOf(node, b) # None =>
                  /\ Pte(n, m.table, b) = Pte(node, table, b)
                  /\ bytes'[PageOf(node, b)] = bytes[PageOf(node, b)]
  <2>1. Prefix(b, Depth) # Prefix(va, Depth) /\ b \in UserBytes
    BY <1>4, <1>9, PagesFacts
  <2>2. /\ PageOf(n, b) = PageOf(node, b)
        /\ PageOf(node, b) # None => Pte(n, m.table, b) = Pte(node, table, b)
    BY <1>3, <2>1 DEF SamePages
  <2>3. ASSUME PageOf(node, b) # None PROVE bytes'[PageOf(node, b)] = bytes[PageOf(node, b)]
    <3>1. Prefix(b, Depth) \in Nat /\ Depth \in 0 .. Depth
      BY <2>1, PrefixFacts, Numbers
    <3>2. <<Depth, Prefix(b, Depth)>> \in Place
      BY <3>1 DEF Place
    <3>3. PageOf(node, b) \in Used
      BY <1>3, <2>3, <3>2 DEF Nodes, PageOf
    <3>4. PageOf(node, b) \in Frame /\ PageOf(node, b) # f
      BY <1>2, <3>3 DEF Used
    <3>. QED  BY <1>1, <3>4 DEF LoaderInv, Types
  <2>. QED  BY <2>2, <2>3
<1>10. bytes'[f] = PageBytes(seg, va) /\ f # None
  BY <1>1, <1>2, FrameFacts DEF LoaderInv, Types
<1>11. PagesLoaded(n)'
  <2>1. ASSUME NEW b \in Pages, PageOf(n, b) # None
        PROVE  \E i \in 1 .. Len(vmas') : /\ In(b, vmas'[i])
                                          /\ Pte(n, table', b) = Leaf(PageOf(n, b), vmas'[i].flags)
    <3>1. CASE b = va
      <4>1. Listed(Area(seg), vmas)
        BY <1>0, <1>4 DEF LoaderInv, SegmentsListed
      <4>2. PICK i \in 1 .. Len(vmas) : vmas[i] = Area(seg)
        BY <4>1 DEF Listed
      <4>3. Area(seg).flags = seg.flags
        BY DEF Area, NewArea
      <4>4. In(va, vmas[i]) /\ vmas[i].flags = seg.flags
        BY <1>4, <4>2, <4>3
      <4>. QED  BY <1>1, <1>3, <3>1, <4>4
    <3>2. CASE b # va
      BY <1>1, <1>3, <1>9, <2>1, <3>2 DEF PagesLoaded
    <3>. QED  BY <3>1, <3>2
  <2>2. ASSUME NEW s \in Segs, NEW b \in Pages, In(b, Area(s)), PageOf(n, b) # None
        PROVE  bytes'[PageOf(n, b)] = PageBytes(s, b)
    <3>1. CASE b = va
      <4>1. s = seg
        BY <1>0, <1>4, <2>2, <3>1 DEF LoaderInv, SegmentsListed, Segs
      <4>. QED  BY <1>3, <1>10, <3>1, <4>1
    <3>2. CASE b # va
      BY <1>3, <1>9, <2>2, <3>2 DEF PagesLoaded
    <3>. QED  BY <3>1, <3>2
  <2>3. ASSUME NEW s \in loaded, NEW b \in Pages, In(b, Area(s)), b < FileEnd(s)
        PROVE  PageOf(n, b) # None
    BY <1>3, <1>9, <1>10, <2>3 DEF PagesLoaded
  <2>4. ASSUME NEW b \in Pages, In(b, Area(seg))
        PROVE  PageOf(n, b) # None <=> b < va' /\ b < FileEnd(seg)
    <3>1. CASE b = va
      BY <1>1, <1>3, <1>4, <1>10, <3>1
    <3>2. CASE b # va
      <4>1. PageOf(node, b) # None <=> b < va /\ b < FileEnd(seg)
        BY <1>0, <1>3, <2>4 DEF PagesLoaded
      <4>. QED  BY <1>1, <1>4, <1>9, <3>2, <4>1
    <3>. QED  BY <3>1, <3>2
  <2>5. ASSUME NEW b \in Pages, PageOf(n, b) # None PROVE \E s \in Segs : In(b, Area(s))
    <3>1. CASE b = va
      BY <1>4, <3>1
    <3>2. CASE b # va
      <4>1. PageOf(node, b) # None
        BY <1>9, <2>5, <3>2
      <4>. QED  BY <1>0, <1>3, <4>1 DEF PagesLoaded
    <3>. QED  BY <3>1, <3>2
  <2>. QED  BY <1>5, <2>1, <2>2, <2>3, <2>4, <2>5 DEF PagesLoaded
<1>. QED  BY <1>0, <1>1, <1>6, <1>7, <1>8, <1>11 DEF LoaderInv

LEMMA InvNoFrameForTable ==
  ASSUME LoaderInv, NoFrameForTable
  PROVE  LoaderInv'
<1>0. pc = "page" /\ InFile /\ free # {}
  BY DEF NoFrameForTable
<1>. PICK f : f = Lowest(free)
  OBVIOUS
<1>m. PICK m : m = MapPage(free \ {f}, va, f, seg.flags)
  OBVIOUS
<1>1. /\ ~m.ok /\ free' = m.free \union {f} /\ table' = m.table /\ pc' = "fail"
      /\ UNCHANGED <<others, bytes, root, vmas, left, seg, va, extent, loaded>>
  BY <1>m, Zenon DEF NoFrameForTable, Returned
<1>2. /\ f \in free /\ m.free \subseteq free \ {f} /\ m.table \in TableType
      /\ \E node, n :
           /\ Nodes(node, table, Used) /\ PagesLoaded(node)
           /\ ~m.ok => /\ Nodes(n, m.table, Frame \ (m.free \union {f} \union others))
                       /\ SamePages(node, table, n, m.table, {})
  BY <1>0, <1>m, MapNext, ZenonT(30)
<1>3. PICK node, n :
        /\ Nodes(node, table, Used) /\ PagesLoaded(node)
        /\ Nodes(n, m.table, Frame \ (m.free \union {f} \union others))
        /\ SamePages(node, table, n, m.table, {})
  BY <1>1, <1>2
<1>5. Segs' \subseteq Segs /\ loaded' = loaded /\ vmas' = vmas
  BY <1>1 DEF Segs
<1>6. Types'
  BY <1>1, <1>2 DEF LoaderInv, Types
<1>7. Nodes(n, table, Used)'
  <2>1. Used' = Frame \ (m.free \union {f} \union others) /\ table' = m.table /\ root' = root
    BY <1>1 DEF Used
  <2>. QED  BY <1>3, <2>1 DEF Nodes
<1>8. SegmentsListed'
  BY <1>0, <1>1, <1>5 DEF LoaderInv, SegmentsListed
<1>9. ASSUME NEW b \in Pages
      PROVE  /\ PageOf(n, b) = PageOf(node, b)
             /\ PageOf(node, b) # None => Pte(n, table', b) = Pte(node, table, b)
  BY <1>1, <1>3, PagesFacts DEF SamePages
<1>10. PagesLoaded(n)'
  BY <1>1, <1>3, <1>5, <1>9 DEF PagesLoaded
<1>. QED  BY <1>0, <1>1, <1>6, <1>7, <1>8, <1>10 DEF LoaderInv

(* The pages past the file's bytes, and the end of the segment.            *)
LEMMA InvLeaveToFault ==
  ASSUME LoaderInv, LeaveToFault
  PROVE  LoaderInv'
<1>1. /\ pc = "page" /\ va < End(seg) /\ va >= FileEnd(seg) /\ va' = va + PageSize
      /\ UNCHANGED <<root, vmas, pc, left, seg, extent, loaded>>
      /\ UNCHANGED <<free, others, table, bytes>>
  BY DEF LeaveToFault, frames
<1>2. Segs' = Segs /\ Used' = Used
  BY <1>1 DEF Segs, Used
<1>3. Types'
  BY <1>1 DEF LoaderInv, Types
<1>4. /\ va \in Nat /\ va % PageSize = 0 /\ Start(seg) <= va
      /\ seg \in Phdrs /\ ~Refused(seg)
  BY <1>1 DEF LoaderInv, SegmentsListed, Segs
<1>5. Start(seg) \in Nat /\ End(seg) \in Nat /\ End(seg) % PageSize = 0 /\ FileEnd(seg) \in Nat
  BY <1>4, SegmentFacts
<1>6. va' \in Nat /\ va' % PageSize = 0 /\ Start(seg) <= va' /\ va' <= End(seg) /\ va <= va'
  BY <1>1, <1>4, <1>5, Gap, Numbers
<1>7. SegmentsListed'
  BY <1>1, <1>2, <1>6 DEF LoaderInv, SegmentsListed
<1>8. PICK node : Nodes(node, table, Used) /\ PagesLoaded(node)
  BY <1>1 DEF LoaderInv
<1>9. Nodes(node, table, Used)'
  BY <1>1, <1>2, <1>8 DEF Nodes
<1>10. PagesLoaded(node)'
  <2>1. ASSUME NEW b \in Pages, In(b, Area(seg))
        PROVE  PageOf(node, b) # None <=> b < va' /\ b < FileEnd(seg)
    <3>1. PageOf(node, b) # None <=> b < va /\ b < FileEnd(seg)
      BY <1>1, <1>8, <2>1 DEF PagesLoaded
    <3>2. b \in Nat
      BY PagesFacts
    <3>. QED  BY <1>1, <1>4, <1>5, <1>6, <3>1, <3>2
  <2>. QED  BY <1>1, <1>2, <1>8, <2>1 DEF PagesLoaded, Pte
<1>. QED  BY <1>1, <1>3, <1>7, <1>9, <1>10 DEF LoaderInv

LEMMA InvEndSegment ==
  ASSUME LoaderInv, EndSegment
  PROVE  LoaderInv'
<1>. PICK high : high = Add(seg.vaddr, seg.memsz)
  OBVIOUS
<1>1. /\ pc = "page" /\ va >= End(seg) /\ loaded' = loaded \union {seg} /\ pc' = "phdr"
      /\ extent' = [low |-> IF seg.vaddr < extent.low THEN seg.vaddr ELSE extent.low,
                    high |-> IF high > extent.high THEN high ELSE extent.high]
      /\ UNCHANGED <<root, vmas, left, seg, va>> /\ UNCHANGED <<free, others, table, bytes>>
  BY DEF EndSegment, frames
<1>2. Segs' = Segs /\ Used' = Used /\ Segs = loaded \union {seg}
  BY <1>1 DEF Segs, Used
<1>4. va \in Nat /\ seg \in Phdrs /\ ~Refused(seg)
  BY <1>1, <1>2 DEF LoaderInv, SegmentsListed
<1>5. seg.vaddr \in Nat /\ high \in Nat /\ End(seg) \in Nat /\ Start(seg) \in Nat
  BY <1>4, SegmentFacts
<1>6. extent \in [low : Nat, high : Nat]
  BY DEF LoaderInv, Types
<1>7. /\ extent' \in [low : Nat, high : Nat]
      /\ extent'.low <= extent.low /\ extent'.low <= seg.vaddr
      /\ extent.high <= extent'.high /\ high <= extent'.high
  BY <1>1, <1>5, <1>6
<1>3. Types'
  BY <1>1, <1>7 DEF LoaderInv, Types
<1>8. SegmentsListed'
  <2>1. ASSUME NEW s \in loaded' PROVE extent'.low <= s.vaddr /\ Add(s.vaddr, s.memsz) <= extent'.high
    <3>1. CASE s = seg
      BY <1>7, <3>1
    <3>2. CASE s \in loaded
      <4>1. extent.low <= s.vaddr /\ Add(s.vaddr, s.memsz) <= extent.high
        BY <1>1, <3>2 DEF LoaderInv, SegmentsListed
      <4>2. s.vaddr \in Nat /\ Add(s.vaddr, s.memsz) \in Nat
        <5>1. s \in Phdrs /\ ~Refused(s)
          BY <1>1, <1>2, <3>2 DEF LoaderInv, SegmentsListed
        <5>. QED  BY <5>1, SegmentFacts
      <4>3. /\ extent.low \in Nat /\ extent'.low \in Nat
            /\ extent.high \in Nat /\ extent'.high \in Nat
        BY <1>6, <1>7
      <4>. QED  BY <1>7, <4>1, <4>2, <4>3
    <3>. QED  BY <1>1, <3>1, <3>2
  <2>2. \A s \in Segs' : s \in Phdrs /\ ~Refused(s) /\ Listed(Area(s), vmas')
    BY <1>1, <1>2 DEF LoaderInv, SegmentsListed
  <2>3. Ordered(vmas')
    BY <1>1 DEF LoaderInv, SegmentsListed
  <2>4. pc' # "page"
    BY <1>1
  <2>. QED  BY <2>1, <2>2, <2>3, <2>4 DEF SegmentsListed
<1>9. PICK node : Nodes(node, table, Used) /\ PagesLoaded(node)
  BY <1>1 DEF LoaderInv
<1>10. Nodes(node, table, Used)'
  BY <1>1, <1>2, <1>9 DEF Nodes
<1>11. PagesLoaded(node)'
  <2>1. ASSUME NEW s \in loaded', NEW b \in Pages, In(b, Area(s)), b < FileEnd(s)
        PROVE  PageOf(node, b) # None
    <3>1. CASE s = seg
      <4>1. b < va
        <5>1. b \in Nat /\ b < End(seg)
          BY <2>1, <3>1, PagesFacts DEF In, Area, NewArea
        <5>. QED  BY <1>1, <1>4, <1>5, <5>1
      <4>. QED  BY <1>1, <1>9, <2>1, <3>1, <4>1 DEF PagesLoaded
    <3>2. CASE s \in loaded
      BY <1>9, <2>1, <3>2 DEF PagesLoaded
    <3>. QED  BY <1>1, <3>1, <3>2
  <2>2. \A s \in Segs', b \in Pages : In(b, Area(s)) /\ PageOf(node, b) # None =>
          bytes'[PageOf(node, b)] = PageBytes(s, b)
    BY <1>1, <1>2, <1>9 DEF PagesLoaded
  <2>3. \A b \in Pages : PageOf(node, b) # None => \E s \in Segs' : In(b, Area(s))
    BY <1>1, <1>2, <1>9 DEF PagesLoaded
  <2>4. \A b \in Pages : PageOf(node, b) # None =>
          \E i \in 1 .. Len(vmas') : /\ In(b, vmas'[i])
                                     /\ Pte(node, table', b) = Leaf(PageOf(node, b), vmas'[i].flags)
    BY <1>1, <1>9 DEF PagesLoaded
  <2>5. pc' = "phdr"
    BY <1>1
  <2>. QED  BY <2>1, <2>2, <2>3, <2>4, <2>5 DEF PagesLoaded
<1>. QED  BY <1>1, <1>3, <1>8, <1>10, <1>11 DEF LoaderInv

-----------------------------------------------------------------------------
(* kFreeUserTables and the tree: a frame is reached at each place of it,   *)
(* level by level.                                                         *)
At(node, l) == {node[<<l, p>>] : p \in Nat} \ {None}
Levels(f, n) == f = [l \in 1 .. n |-> IF l = 1 THEN {root} ELSE Below(f[l - 1])]

LEMMA LevelsExist ==
  ASSUME NEW n \in Nat
  PROVE  \E f : Levels(f, n)
<1>. DEFINE T == {k \in Nat : ~\E f : Levels(f, k)}
<1>1. SUFFICES ASSUME ~\E f : Levels(f, n) PROVE FALSE
  OBVIOUS
<1>2. T # {} /\ T \subseteq Nat
  BY <1>1
<1>3. PICK k \in T : \A l \in T : k <= l
  <2>. HIDE DEF T
  <2>. QED  BY <1>2, LeastMember
<1>4. k # 0
  <2>. PICK f : f = [l \in 1 .. 0 |-> {root}]
    OBVIOUS
  <2>1. Levels(f, 0)
    BY DEF Levels
  <2>. QED  BY <1>3, <2>1
<1>5. k \in Nat /\ k - 1 \in Nat /\ k - 1 \notin T
  BY <1>3, <1>4
<1>6. PICK g : Levels(g, k - 1)
  BY <1>5
<1>. DEFINE top == IF k = 1 THEN {root} ELSE Below(g[k - 1])
<1>. PICK f : f = [l \in 1 .. k |-> IF l = k THEN top ELSE g[l]]
  OBVIOUS
<1>7. ASSUME NEW l \in 1 .. k PROVE f[l] = IF l = 1 THEN {root} ELSE Below(f[l - 1])
  <2>1. CASE l = k
    <3>1. l # 1 => k - 1 \in 1 .. k /\ k - 1 # k /\ f[k - 1] = g[k - 1]
      BY <1>5, <2>1
    <3>. QED  BY <1>5, <2>1, <3>1
  <2>2. CASE l # k
    <3>0. l \in 1 .. k - 1 /\ f[l] = g[l]
      BY <1>5, <2>2
    <3>1. g[l] = IF l = 1 THEN {root} ELSE Below(g[l - 1])
      <4>1. \A j \in 1 .. k - 1 : g[j] = IF j = 1 THEN {root} ELSE Below(g[j - 1])
        BY <1>6 DEF Levels
      <4>. QED  BY <3>0, <4>1
    <3>2. l # 1 => l - 1 \in 1 .. k /\ l - 1 # k /\ f[l - 1] = g[l - 1]
      BY <1>5, <3>0
    <3>. QED  BY <3>0, <3>1, <3>2
  <2>. QED  BY <2>1, <2>2
<1>8. Levels(f, k)
  BY <1>7 DEF Levels
<1>. QED  BY <1>3, <1>8

LEMMA IsUserIs ==
  ASSUME NEW node, NEW U \in SUBSET Frame, Nodes(node, table, U),
         NEW l \in 0 .. Depth - 1, NEW p \in Nat, NEW i \in Index, node[<<l, p>>] # None
  PROVE  IsUser(node[<<l, p>>], i) <=> UserEntry(l, i)
<1>1. <<l, p>> \in Place /\ <<0, 0>> \in Place /\ node[<<0, 0>>] = root /\ root # None
  BY PlaceFacts, FrameFacts, Numbers DEF Nodes, Place
<1>2. node[<<l, p>>] = root <=> l = 0
  <2>1. node[<<l, p>>] = root => <<l, p>> = <<0, 0>>
    BY <1>1 DEF Nodes
  <2>2. l = 0 => node[<<l, p>>] = root
    BY DEF Nodes
  <2>. QED  BY <2>1, <2>2
<1>. QED  BY <1>2 DEF IsUser, UserEntry

LEMMA BelowIs ==
  ASSUME NEW node, NEW U \in SUBSET Frame, Nodes(node, table, U), NEW l \in 0 .. Depth - 1
  PROVE  Below(At(node, l)) = At(node, l + 1)
<1>1. ASSUME NEW x \in Below(At(node, l)) PROVE x \in At(node, l + 1)
  <2>1. PICK t \in At(node, l) : x \in UserEntries(t)
    BY <1>1 DEF Below
  <2>2. PICK p \in Nat : t = node[<<l, p>>] /\ t # None
    BY DEF At
  <2>3. PICK i \in Index : IsUser(t, i) /\ x = table[t][i].to /\ x # None
    BY <2>1 DEF UserEntries
  <2>4. UserEntry(l, i)
    BY <2>2, <2>3, IsUserIs
  <2>5. x = node[<<l + 1, p * Fan + i>>]
    BY <2>2, <2>3, <2>4 DEF Nodes
  <2>6. p * Fan + i \in Nat
    BY PlaceFacts
  <2>. QED  BY <2>3, <2>5, <2>6 DEF At
<1>2. ASSUME NEW x \in At(node, l + 1) PROVE x \in Below(At(node, l))
  <2>1. PICK q \in Nat : x = node[<<l + 1, q>>] /\ x # None
    BY <1>2 DEF At
  <2>2. PICK p \in Nat, i \in Index : q = p * Fan + i /\ node[<<l, p>>] # None /\ UserEntry(l, i)
    BY <2>1 DEF Nodes
  <2>3. IsUser(node[<<l, p>>], i) /\ table[node[<<l, p>>]][i].to = x
    BY <2>1, <2>2, IsUserIs DEF Nodes
  <2>4. x \in UserEntries(node[<<l, p>>])
    BY <2>1, <2>3 DEF UserEntries
  <2>5. node[<<l, p>>] \in At(node, l)
    BY <2>2 DEF At
  <2>. QED  BY <2>4, <2>5 DEF Below
<1>. QED  BY <1>1, <1>2

LEMMA TreeIs ==
  ASSUME NEW node, NEW U \in SUBSET Frame, Nodes(node, table, U)
  PROVE  /\ UserTables = UNION {At(node, l) : l \in 0 .. Depth - 1}
         /\ UserTables \union Below(UserTables) = U
<1>0. /\ Depth \in Nat /\ 1 \in 1 .. Depth /\ 0 \in 0 .. Depth - 1 /\ Depth - 1 \in 0 .. Depth - 1
      /\ \A l \in 1 .. Depth : l - 1 \in 0 .. Depth - 1 /\ (l # 1 => l - 1 \in 1 .. Depth)
      /\ \A l \in 0 .. Depth - 1 : l + 1 \in 1 .. Depth /\ (l + 1) - 1 = l
  BY Numbers
<1>. PICK f : f = (CHOOSE h : Levels(h, Depth))
  OBVIOUS
<1>1. UserTables = UNION {f[l] : l \in 1 .. Depth}
  BY DEF UserTables, Levels
<1>a. Levels(f, Depth)
  <2>1. \E h : Levels(h, Depth)
    BY <1>0, LevelsExist
  <2>. QED  BY <2>1, Zenon
<1>2. \A l \in 1 .. Depth : f[l] = IF l = 1 THEN {root} ELSE Below(f[l - 1])
  BY <1>a DEF Levels
<1>3. At(node, 0) = {root}
  <2>1. root # None /\ \A q \in Nat : node[<<0, q>>] = IF q = 0 THEN root ELSE None
    BY FrameFacts DEF Nodes
  <2>. QED  BY <2>1 DEF At
<1>. DEFINE T == {l \in 1 .. Depth : f[l] # At(node, l - 1)}
<1>4. T = {}
  <2>1. SUFFICES ASSUME T # {} PROVE FALSE
    OBVIOUS
  <2>2. PICK k \in T : \A l \in T : k <= l
    <3>1. T \subseteq Nat
      OBVIOUS
    <3>. HIDE DEF T
    <3>. QED  BY <2>1, <3>1, LeastMember
  <2>3. k # 1
    <3>1. f[1] = {root} /\ 1 - 1 = 0
      BY <1>0, <1>2
    <3>. QED  BY <1>3, <2>2, <3>1
  <2>4. k - 1 \in 1 .. Depth /\ k - 1 \notin T /\ (k - 1) - 1 \in 0 .. Depth - 1 /\ ((k - 1) - 1) + 1 = k - 1
    BY <1>0, <2>2, <2>3
  <2>5. f[k - 1] = At(node, (k - 1) - 1)
    BY <2>4
  <2>6. Below(At(node, (k - 1) - 1)) = At(node, k - 1)
    BY <2>4, BelowIs
  <2>. QED  BY <1>2, <2>2, <2>3, <2>5, <2>6
<1>5. UserTables = UNION {At(node, l) : l \in 0 .. Depth - 1}
  <2>1. \A l \in 1 .. Depth : f[l] = At(node, l - 1)
    BY <1>4
  <2>2. ASSUME NEW x PROVE (\E l \in 1 .. Depth : x \in f[l]) <=> (\E l \in 0 .. Depth - 1 : x \in At(node, l))
    <3>1. ASSUME NEW l \in 1 .. Depth, x \in f[l] PROVE \E k \in 0 .. Depth - 1 : x \in At(node, k)
      BY <1>0, <2>1, <3>1
    <3>2. ASSUME NEW l \in 0 .. Depth - 1, x \in At(node, l) PROVE \E k \in 1 .. Depth : x \in f[k]
      <4>1. l + 1 \in 1 .. Depth /\ f[l + 1] = At(node, l)
        BY <1>0, <2>1
      <4>. QED  BY <3>2, <4>1
    <3>. QED  BY <3>1, <3>2
  <2>. QED  BY <1>1, <2>2
<1>6. ASSUME NEW x PROVE x \in Below(UserTables) <=> \E l \in 0 .. Depth - 1 : x \in At(node, l + 1)
  <2>1. x \in Below(UserTables) <=> \E l \in 0 .. Depth - 1 : x \in Below(At(node, l))
    <3>1. \A y, S : y \in Below(S) <=> \E t \in S : y \in UserEntries(t)
      BY DEF Below
    <3>2. \A t : t \in UserTables <=> \E l \in 0 .. Depth - 1 : t \in At(node, l)
      BY <1>5
    <3>. QED  BY <3>1, <3>2, Zenon
  <2>. QED  BY <2>1, BelowIs
<1>7. ASSUME NEW x PROVE x \in UserTables \union Below(UserTables) <=> \E l \in 0 .. Depth : x \in At(node, l)
  <2>1. ASSUME NEW l \in 0 .. Depth, x \in At(node, l)
        PROVE  x \in UserTables \union Below(UserTables)
    <3>1. CASE l = 0
      BY <1>0, <1>5, <2>1, <3>1
    <3>2. CASE l # 0
      <4>1. l - 1 \in 0 .. Depth - 1 /\ (l - 1) + 1 = l
        BY <3>2, Numbers
      <4>. QED  BY <1>6, <2>1, <4>1
    <3>. QED  BY <3>1, <3>2
  <2>2. ASSUME x \in UserTables \union Below(UserTables) PROVE \E l \in 0 .. Depth : x \in At(node, l)
    <3>1. \A l \in 0 .. Depth - 1 : l \in 0 .. Depth /\ l + 1 \in 0 .. Depth
      BY Numbers
    <3>. QED  BY <1>5, <1>6, <2>2, <3>1
  <2>. QED  BY <2>1, <2>2
<1>8. ASSUME NEW x PROVE x \in U <=> \E l \in 0 .. Depth : x \in At(node, l)
  <2>1. ASSUME x \in U PROVE \E l \in 0 .. Depth : x \in At(node, l)
    <3>1. PICK y \in Place : node[y] = x
      BY <2>1 DEF Nodes
    <3>2. PICK l \in 0 .. Depth, p \in Nat : y = <<l, p>>
      BY DEF Place
    <3>3. x # None
      BY <2>1, FrameFacts
    <3>. QED  BY <3>1, <3>2, <3>3 DEF At
  <2>2. ASSUME NEW l \in 0 .. Depth, x \in At(node, l) PROVE x \in U
    <3>1. PICK p \in Nat : x = node[<<l, p>>] /\ x # None
      BY <2>2 DEF At
    <3>2. <<l, p>> \in Place
      BY DEF Place
    <3>. QED  BY <3>1, <3>2 DEF Nodes
  <2>. QED  BY <2>1, <2>2
<1>9. UserTables \union Below(UserTables) = U
  BY <1>7, <1>8
<1>. QED  BY <1>5, <1>9

(* kMmDestroy returns the whole tree.                                      *)
LEMMA InvMmDestroy ==
  ASSUME LoaderInv, MmDestroy
  PROVE  LoaderInv'
<1>1. pc # "idle"
  BY DEF MmDestroy
<1>2. Tree = Used
  <2>1. PICK node : Nodes(node, table, Used)
    BY <1>1 DEF LoaderInv
  <2>2. Used \in SUBSET Frame
    BY DEF Used
  <2>3. UserTables \union Below(UserTables) = Used
    BY <2>1, <2>2, TreeIs
  <2>. QED  BY <1>1, <2>3 DEF Tree
<1>3. /\ free' = free \union Used /\ others' = others
      /\ table' = [f \in DOMAIN table |-> IF f \in Used THEN EmptyTable ELSE table[f]]
      /\ bytes' = [f \in Frame |-> IF f \in Used THEN JunkPage ELSE bytes[f]]
      /\ pc' = "idle" /\ extent' = NoExtent /\ loaded' = {} /\ vmas' = <<>>
  BY <1>2 DEF MmDestroy
<1>4. Types'
  <2>1. table' \in TableType
    <3>1. EmptyTable \in [Index -> PteRecord]
      BY DEF EmptyTable, NoPte, PteRecord
    <3>. QED  BY <1>3, <3>1 DEF LoaderInv, Types, TableType
  <2>2. bytes' \in [Frame -> [0 .. PageSize - 1 -> Int]]
    BY <1>3, BytesTypes DEF LoaderInv, Types
  <2>3. extent' \in [low : Nat, high : Nat]
    BY <1>3, UserEndFacts DEF NoExtent
  <2>4. free' \subseteq Frame /\ others' \subseteq Frame /\ free' \intersect others' = {}
    BY <1>3 DEF LoaderInv, Types, Used
  <2>. QED  BY <1>3, <2>1, <2>2, <2>3, <2>4 DEF Types
<1>5. Used' = {}
  BY <1>3 DEF Used
<1>. QED  BY <1>3, <1>4, <1>5 DEF LoaderInv

LEMMA InvNext ==
  ASSUME LoaderInv, LoadNext
  PROVE  LoaderInv'
<1>1. CASE MmCreate
  BY <1>1, InvMmCreate
<1>2. CASE CheckHeader
  BY <1>2, InvPc DEF CheckHeader
<1>3. CASE SkipHeader
  BY <1>3, InvPc DEF SkipHeader, NextHeader
<1>4. CASE BeginSegment
  BY <1>4, InvBeginSegment
<1>5. CASE RefuseSegment
  BY <1>5, InvPc DEF RefuseSegment, NextHeader
<1>6. CASE LoadPage
  BY <1>6, InvLoadPage
<1>7. CASE NoFrameForPage
  BY <1>7, InvPc DEF NoFrameForPage
<1>8. CASE NoFrameForTable
  BY <1>8, InvNoFrameForTable
<1>9. CASE LeaveToFault
  BY <1>9, InvLeaveToFault
<1>10. CASE EndSegment
  BY <1>10, InvEndSegment
<1>11. CASE StartProgram
  BY <1>11, InvStartProgram
<1>12. CASE NoProgram
  BY <1>12, InvPc DEF NoProgram
<1>13. CASE MmDestroy
  BY <1>13, InvMmDestroy
<1>14. CASE OtherTakes \/ OtherReturns
  BY <1>14, InvOther
<1>. QED
  BY <1>1, <1>2, <1>3, <1>4, <1>5, <1>6, <1>7, <1>8, <1>9, <1>10, <1>11, <1>12, <1>13, <1>14 DEF LoadNext

(* LoaderInv holds in every state.                                         *)
THEOREM TheLoader == LoadSpec => []LoaderInv
<1>1. LoadInit => LoaderInv
  BY InvInit
<1>2. LoaderInv /\ [LoadNext]_loaderVars => LoaderInv'
  <2>1. ASSUME LoaderInv, UNCHANGED loaderVars PROVE LoaderInv'
    <3>1. UNCHANGED <<free, others, table, bytes, root, vmas, pc, left, seg, va, extent, loaded>>
      BY <2>1 DEF loaderVars, frames
    <3>2. Types' /\ Used' = Used /\ Segs' = Segs
      BY <2>1, <3>1 DEF LoaderInv, Types, Used, Segs
    <3>3. SegmentsListed' <=> SegmentsListed
      BY <3>1, <3>2 DEF SegmentsListed
    <3>4. ASSUME NEW node PROVE /\ Nodes(node, table, Used)' <=> Nodes(node, table, Used)
                                /\ PagesLoaded(node)' <=> PagesLoaded(node)
      BY <3>1, <3>2 DEF Nodes, PagesLoaded, PageOf, Pte
    <3>. QED  BY <2>1, <3>1, <3>2, <3>3, <3>4 DEF LoaderInv
  <2>. QED  BY <2>1, InvNext
<1>. QED  BY <1>1, <1>2, PTL DEF LoadSpec

-----------------------------------------------------------------------------
(* Each entry that names a frame names another frame of the tree than the  *)
(* root.                                                                   *)
LinksOf == {e \in UserTables \X Index : IsUser(e[1], e[2]) /\ table[e[1]][e[2]].to # None}

LEMMA LinksBijection ==
  ASSUME NEW node, NEW U \in SUBSET Frame, Nodes(node, table, U)
  PROVE  ExistsBijection(LinksOf, U \ {root})
<1>. DEFINE to(e) == table[e[1]][e[2]].to
<1>1. ASSUME NEW e \in LinksOf
      PROVE  \E l \in 0 .. Depth - 1, p \in Nat, i \in Index :
               /\ e = <<node[<<l, p>>], i>> /\ node[<<l, p>>] # None /\ UserEntry(l, i)
               /\ to(e) = node[<<l + 1, p * Fan + i>>] /\ to(e) # None
  <2>1. PICK t \in UserTables, i \in Index : e = <<t, i>> /\ IsUser(t, i) /\ table[t][i].to # None
    BY DEF LinksOf
  <2>2. PICK l \in 0 .. Depth - 1 : t \in At(node, l)
    BY TreeIs
  <2>3. PICK p \in Nat : t = node[<<l, p>>] /\ t # None
    BY <2>2 DEF At
  <2>4. UserEntry(l, i)
    BY <2>1, <2>3, IsUserIs
  <2>5. table[t][i].to = node[<<l + 1, p * Fan + i>>]
    BY <2>3, <2>4 DEF Nodes
  <2>. QED  BY <2>1, <2>3, <2>4, <2>5
<1>. DEFINE F == [e \in LinksOf |-> to(e)]
<1>2. F \in [LinksOf -> U \ {root}]
  <2>1. ASSUME NEW e \in LinksOf PROVE to(e) \in U \ {root}
    <3>1. PICK l \in 0 .. Depth - 1, p \in Nat, i \in Index :
               /\ e = <<node[<<l, p>>], i>> /\ node[<<l, p>>] # None /\ UserEntry(l, i)
               /\ to(e) = node[<<l + 1, p * Fan + i>>] /\ to(e) # None
      BY <1>1
    <3>2. <<l + 1, p * Fan + i>> \in Place /\ <<0, 0>> \in Place /\ l + 1 # 0
      <4>1. <<l + 1, p * Fan + i>> \in Place
        BY PlaceFacts
      <4>2. <<0, 0>> \in Place
        BY Numbers DEF Place
      <4>. QED  BY <4>1, <4>2, Numbers
    <3>3. to(e) \in U
      BY <3>1, <3>2 DEF Nodes
    <3>4. to(e) # root
      <4>1. node[<<0, 0>>] = root
        BY DEF Nodes
      <4>2. to(e) = root => <<l + 1, p * Fan + i>> = <<0, 0>>
        BY <3>1, <3>2, <4>1 DEF Nodes
      <4>. QED  BY <3>2, <4>2
    <3>. QED  BY <3>3, <3>4
  <2>. QED  BY <2>1
<1>3. ASSUME NEW d \in LinksOf, NEW e \in LinksOf, to(d) = to(e) PROVE d = e
  <2>1. PICK l \in 0 .. Depth - 1, p \in Nat, i \in Index :
               /\ d = <<node[<<l, p>>], i>> /\ to(d) = node[<<l + 1, p * Fan + i>>] /\ to(d) # None
    BY <1>1, SMTT(30)
  <2>2. PICK k \in 0 .. Depth - 1, q \in Nat, j \in Index :
               /\ e = <<node[<<k, q>>], j>> /\ to(e) = node[<<k + 1, q * Fan + j>>]
    BY <1>1
  <2>. HIDE DEF to
  <2>3. <<l + 1, p * Fan + i>> \in Place /\ <<k + 1, q * Fan + j>> \in Place
    BY PlaceFacts
  <2>4. <<l + 1, p * Fan + i>> = <<k + 1, q * Fan + j>>
    <3>1. node[<<l + 1, p * Fan + i>>] = node[<<k + 1, q * Fan + j>>] /\ node[<<l + 1, p * Fan + i>>] # None
      BY <1>3, <2>1, <2>2
    <3>. QED  BY <2>3, <3>1 DEF Nodes
  <2>5. l = k /\ p * Fan + i = q * Fan + j
    BY <2>4
  <2>6. p = q /\ i = j
    BY <2>5, Numbers, ProductUnique DEF Index
  <2>. QED  BY <2>1, <2>2, <2>5, <2>6
<1>4. ASSUME NEW u \in U \ {root} PROVE \E e \in LinksOf : to(e) = u
  <2>1. PICK l \in 0 .. Depth, q \in Nat : node[<<l, q>>] = u /\ u # None
    <3>1. PICK x \in Place : node[x] = u
      BY DEF Nodes
    <3>2. u # None
      BY FrameFacts
    <3>. QED  BY <3>1, <3>2 DEF Place
  <2>2. l # 0
    BY <2>1 DEF Nodes
  <2>3. PICK k \in 0 .. Depth - 1 : l = k + 1
    <3>1. l - 1 \in 0 .. Depth - 1 /\ l = (l - 1) + 1
      BY <2>2, Numbers
    <3>. QED  BY <3>1
  <2>4. PICK p \in Nat, i \in Index : q = p * Fan + i /\ node[<<k, p>>] # None /\ UserEntry(k, i)
    BY <2>1, <2>3 DEF Nodes
  <2>. PICK t : t = node[<<k, p>>]
    OBVIOUS
  <2>5. table[t][i].to = u
    BY <2>1, <2>3, <2>4 DEF Nodes
  <2>6. t \in UserTables
    <3>1. t \in At(node, k)
      BY <2>4 DEF At
    <3>. QED  BY <3>1, TreeIs
  <2>7. IsUser(t, i)
    BY <2>4, IsUserIs
  <2>8. <<t, i>> \in LinksOf
    BY <2>1, <2>5, <2>6, <2>7 DEF LinksOf
  <2>. QED  BY <2>5, <2>8
<1>5. F \in Bijection(LinksOf, U \ {root})
  <2>1. \A d, e \in LinksOf : F[d] = F[e] => d = e
    BY <1>3
  <2>2. \A u \in U \ {root} : \E e \in LinksOf : F[e] = u
    BY <1>4
  <2>. HIDE DEF F
  <2>. QED  BY <1>2, <2>1, <2>2, Fun_IsBij
<1>. QED  BY <1>5, Fun_ExistsBij

LEMMA FramesAccountedHolds == LoaderInv => FramesAccounted
<1>. SUFFICES ASSUME LoaderInv PROVE FramesAccounted
  OBVIOUS
<1>1. /\ free \subseteq Frame /\ others \subseteq Frame /\ free \intersect others = {}
      /\ IsFiniteSet(Frame)
  BY FrameFacts DEF LoaderInv, Types
<1>2. Tree = Used
  <2>1. CASE pc = "idle"
    BY <2>1 DEF Tree, LoaderInv
  <2>2. CASE pc # "idle"
    <3>1. PICK node : Nodes(node, table, Used)
      BY <2>2 DEF LoaderInv
    <3>2. Used \in SUBSET Frame
      BY DEF Used
    <3>3. UserTables \union Below(UserTables) = Used
      BY <3>1, <3>2, TreeIs
    <3>. QED  BY <2>2, <3>3 DEF Tree
  <2>. QED  BY <2>1, <2>2
<1>3. free \union others \union Used = Frame
  BY <1>1 DEF Used
<1>4. Cardinality(free) + Cardinality(others) + Cardinality(Used) = Cardinality(Frame)
  <2>1. IsFiniteSet(free) /\ IsFiniteSet(others) /\ IsFiniteSet(Used) /\ IsFiniteSet(free \union others)
    <3>1. free \in SUBSET Frame /\ others \in SUBSET Frame /\ Used \in SUBSET Frame
          /\ free \union others \in SUBSET Frame
      BY <1>1 DEF Used
    <3>. QED  BY <1>1, <3>1, FS_Subset
  <2>2. Cardinality(free \union others) = Cardinality(free) + Cardinality(others) - Cardinality({})
    BY <1>1, <2>1, FS_Union
  <2>3. (free \union others) \intersect Used = {}
    BY DEF Used
  <2>4. Cardinality((free \union others) \union Used)
          = Cardinality(free \union others) + Cardinality(Used) - Cardinality({})
    BY <2>1, <2>3, FS_Union
  <2>5. Cardinality({}) = 0 /\ Cardinality(free) \in Nat /\ Cardinality(others) \in Nat /\ Cardinality(Used) \in Nat
    BY <2>1, FS_EmptySet, FS_CardinalityType
  <2>6. Cardinality((free \union others) \union Used) = Cardinality(Frame)
    BY <1>3
  <2>. QED  BY <2>2, <2>4, <2>5, <2>6
<1>5. ASSUME pc # "idle" PROVE Cardinality(LinksOf) + 1 = Cardinality(Used)
  <2>1. PICK node : Nodes(node, table, Used)
    BY <1>5 DEF LoaderInv
  <2>2. Used \in SUBSET Frame /\ root \in Used
    BY <2>1 DEF Used, Nodes
  <2>3. ExistsBijection(Used \ {root}, LinksOf)
    BY <2>1, <2>2, LinksBijection, Fun_ExistsBijSymmetric
  <2>4. IsFiniteSet(Used)
    BY <1>1, <2>2, FS_Subset
  <2>5. IsFiniteSet(Used \ {root}) /\ Cardinality(Used \ {root}) = Cardinality(Used) - 1
    BY <2>2, <2>4, FS_RemoveElement
  <2>6. Cardinality(LinksOf) = Cardinality(Used \ {root})
    BY <2>3, <2>5, FS_Bijection
  <2>7. Cardinality(Used) \in Nat
    BY <2>4, FS_CardinalityType
  <2>. QED  BY <2>5, <2>6, <2>7
<1>. QED  BY <1>2, <1>3, <1>4, <1>5 DEF FramesAccounted, LinksOf

LEMMA RightsMatchHolds == LoaderInv => RightsMatch
<1>. SUFFICES ASSUME LoaderInv, pc # "idle", NEW a \in Pages
     PROVE  LET areas == {i \in 1 .. Len(vmas) : a \in vmas[i].start .. vmas[i].end - 1}
                pte == Walk(a)
            IN /\ Cardinality(areas) <= 1
               /\ VmaFind(a) = IF areas = {} THEN NoVma ELSE vmas[Lowest(areas)]
               /\ pte.to # None => areas # {} /\ pte = Leaf(pte.to, VmaFind(a).flags)
  BY DEF RightsMatch, Pages
<1>. PICK areas : areas = {i \in 1 .. Len(vmas) : a \in vmas[i].start .. vmas[i].end - 1}
  OBVIOUS
<1>1. Ordered(vmas)
  BY DEF LoaderInv, SegmentsListed
<1>2. a \in Nat /\ a \in UserBytes
  BY PagesFacts
<1>3. /\ VmaFind(a) = IF areas = {} THEN NoVma ELSE vmas[Lowest(areas)]
      /\ Cardinality(areas) <= 1
      /\ \A i \in 1 .. Len(vmas) : In(a, vmas[i]) => VmaFind(a) = vmas[i]
  BY <1>1, <1>2, VmaFindFacts
<1>4. PICK node : Nodes(node, table, Used) /\ PagesLoaded(node)
  BY DEF LoaderInv
<1>5. Walk(a).to = PageOf(node, a) /\ (PageOf(node, a) # None => Walk(a) = Pte(node, table, a))
  <2>1. Used \in SUBSET Frame
    BY DEF Used
  <2>. QED  BY <1>2, <1>4, <2>1, WalkIs
<1>6. ASSUME Walk(a).to # None PROVE areas # {} /\ Walk(a) = Leaf(Walk(a).to, VmaFind(a).flags)
  <2>1. PICK i \in 1 .. Len(vmas) : In(a, vmas[i]) /\ Pte(node, table, a) = Leaf(PageOf(node, a), vmas[i].flags)
    BY <1>4, <1>5, <1>6 DEF PagesLoaded
  <2>2. i \in areas
    <3>1. vmas[i].start \in Nat /\ vmas[i].end \in Nat
      BY <1>1, OrderedFacts
    <3>. QED  BY <1>2, <2>1, <3>1 DEF In
  <2>. QED  BY <1>3, <1>5, <1>6, <2>1, <2>2
<1>. QED  BY <1>3, <1>6

(* What the program reads of a loaded segment.                             *)
LEMMA ReadIs ==
  ASSUME LoaderInv, pc # "idle", NEW a \in UserBytes, Walk(a).to # None,
         NEW s \in Segs, In(a, Area(s))
  PROVE  LET b == AlignDown(a) IN
         /\ In(b, Area(s))
         /\ Read(a) = IF a \in Copied(s, b) THEN FileByte(Add(s.offset, a - s.vaddr)) ELSE Zero
<1>. PICK b : b = AlignDown(a)
  OBVIOUS
<1>1. /\ b \in Pages /\ b \in Nat /\ a \in Nat /\ b <= a
      /\ a % PageSize \in 0 .. PageSize - 1 /\ b + (a % PageSize) = a
      /\ \A node : PageOf(node, a) = PageOf(node, b)
  BY PageFacts
<1>2. PICK node : Nodes(node, table, Used) /\ PagesLoaded(node)
  BY DEF LoaderInv
<1>3. Walk(a).to = PageOf(node, b)
  <2>1. Used \in SUBSET Frame
    BY DEF Used
  <2>. QED  BY <1>1, <1>2, <2>1, WalkIs
<1>4. s \in Phdrs /\ ~Refused(s)
  BY DEF LoaderInv, SegmentsListed
<1>5. In(b, Area(s))
  <2>1. Start(s) \in Nat /\ End(s) \in Nat /\ Start(s) % PageSize = 0
    BY <1>4, SegmentFacts
  <2>2. Start(s) <= a /\ a < End(s)
    BY DEF In, Area, NewArea
  <2>3. b % PageSize = 0
    BY <1>1, PagesFacts
  <2>4. b < Start(s) => b + PageSize <= Start(s)
    BY <1>1, <2>1, <2>3, Gap
  <2>5. Start(s) <= b
    BY <1>1, <2>1, <2>2, <2>4, Numbers
  <2>6. b < End(s)
    BY <1>1, <2>1, <2>2
  <2>. QED  BY <2>5, <2>6 DEF In, Area, NewArea
<1>6. bytes[PageOf(node, b)] = PageBytes(s, b)
  BY <1>1, <1>2, <1>3, <1>5 DEF PagesLoaded
<1>. PICK k \in 0 .. PageSize - 1 : k = a % PageSize
  BY <1>1
<1>7. PageBytes(s, b)[k] = IF b + k \in Copied(s, b) THEN FileByte(Add(s.offset, b + k - s.vaddr)) ELSE Zero
  BY DEF PageBytes
<1>8. Read(a) = PageBytes(s, b)[k]
  BY <1>3, <1>6 DEF Read
<1>9. b + k = a /\ b + k - s.vaddr = a - s.vaddr
  <2>1. s.vaddr \in Nat
    BY <1>4, SegmentFacts
  <2>2. b + k = a
    BY <1>1
  <2>. QED  BY <1>1, <2>1, <2>2
<1>10. Read(a) = IF a \in Copied(s, b) THEN FileByte(Add(s.offset, a - s.vaddr)) ELSE Zero
  BY <1>7, <1>8, <1>9
<1>. QED  BY <1>5, <1>10

(* The bytes kElfLoadSegment copies.                                       *)
LEMMA CopiedIs ==
  ASSUME NEW s \in Phdrs, ~Refused(s), NEW a \in UserBytes, In(a, Area(s))
  PROVE  a \in Copied(s, AlignDown(a)) <=> s.vaddr <= a /\ a < FileEnd(s)
<1>. PICK b : b = AlignDown(a)
  OBVIOUS
<1>1. /\ b \in Nat /\ a \in Nat /\ b <= a
      /\ a % PageSize \in 0 .. PageSize - 1 /\ b + (a % PageSize) = a
      /\ b + PageSize <= UserEnd /\ UserEnd < Word
  BY PageFacts
<1>2. s.vaddr \in Nat /\ FileEnd(s) \in Nat
  BY SegmentFacts
<1>. PICK t \in Nat : t = b + PageSize
  BY <1>1, Numbers
<1>3. Add(b, PageSize) = t
  <2>1. t \in 0 .. Word - 1
    BY <1>1, UserEndFacts, Numbers
  <2>2. t % Word = t
    BY <2>1, Numbers
  <2>. QED  BY <2>2 DEF Add
<1>4. a < t
  BY <1>1, Numbers
<1>. PICK v \in Nat, e \in Nat : v = s.vaddr /\ e = FileEnd(s)
  BY <1>2
<1>5. Copied(s, b) = (IF b > v THEN b ELSE v) .. (IF t < e THEN t ELSE e) - 1
  BY <1>3 DEF Copied
<1>. QED  BY <1>1, <1>4, <1>5

LEMMA ReadsInsideHolds == LoaderInv => ReadsInside
<1>. SUFFICES ASSUME LoaderInv, NEW s \in Segs, s.offset + s.filesz < Word,
                     NEW a \in Start(s) .. End(s) - 1, Walk(a).to # None
              PROVE  Read(a) # Outside
  BY DEF ReadsInside, Segs
<1>1. pc # "idle"
  BY DEF LoaderInv, Segs
<1>2. s \in Phdrs /\ ~Refused(s)
  BY <1>1 DEF LoaderInv, SegmentsListed
<1>3. /\ {s.vaddr, s.memsz, s.filesz, s.offset} \subseteq Nat
      /\ Start(s) \in Nat /\ End(s) \in Nat /\ End(s) <= UserEnd
      /\ FileEnd(s) \in Nat /\ FileEnd(s) <= s.vaddr + s.filesz
      /\ Add(s.offset, s.filesz) <= FileSize
  BY <1>2, SegmentFacts
<1>4. a \in Nat /\ a \in UserBytes /\ In(a, Area(s))
  BY <1>3, UserEndFacts DEF UserBytes, In, Area, NewArea
<1>5. Read(a) = IF a \in Copied(s, AlignDown(a)) THEN FileByte(Add(s.offset, a - s.vaddr)) ELSE Zero
  BY <1>1, <1>4, ReadIs
<1>6. ASSUME a \in Copied(s, AlignDown(a)) PROVE FileByte(Add(s.offset, a - s.vaddr)) # Outside
  <2>1. s.vaddr <= a /\ a < FileEnd(s)
    BY <1>2, <1>4, <1>6, CopiedIs
  <2>. PICK o \in Nat, d \in Nat, f \in Nat : o = s.offset /\ f = s.filesz /\ d = a - s.vaddr
    <3>1. a - s.vaddr \in Nat
      BY <1>3, <1>4, <2>1
    <3>. QED  BY <1>3, <3>1
  <2>2. d < f /\ o + f < Word
    BY <1>3, <1>4, <2>1
  <2>3. Add(o, f) = o + f /\ Add(o, d) = o + d
    <3>1. o + f \in 0 .. Word - 1 /\ o + d \in 0 .. Word - 1
      BY <2>2, Numbers
    <3>2. \A x \in 0 .. Word - 1 : x % Word = x
      BY Numbers
    <3>. QED  BY <3>1, <3>2 DEF Add
  <2>4. o + d < FileSize
    BY <1>3, <2>2, <2>3, Numbers
  <2>. QED  BY <2>3, <2>4 DEF FileByte, Outside
<1>7. Zero # Outside
  BY DEF Zero, Outside
<1>. QED  BY <1>5, <1>6, <1>7

LEMMA ImageLoadedHolds == LoaderInv => ImageLoaded
<1>. SUFFICES ASSUME LoaderInv PROVE ImageLoaded
  OBVIOUS
<1>1. /\ free \subseteq Frame /\ others \subseteq Frame
      /\ pc \in {"idle", "header", "phdr", "page", "runs", "fail"}
  BY DEF LoaderInv, Types
<1>2. SUFFICES ASSUME pc = "runs", \A s \in loaded : ~Wraps(s)
      PROVE  /\ \A s \in loaded :
                  /\ extent.low <= s.vaddr /\ s.vaddr + s.memsz <= extent.high
                  /\ \A a \in Span(s) :
                       Read(a) = IF a < s.vaddr + s.filesz THEN s.offset + (a - s.vaddr) ELSE Zero
             /\ \A a \in UserBytes \ UNION {Span(s) : s \in loaded} : Read(a) \in {Zero, NoMemory}
  BY <1>1 DEF ImageLoaded
<1>3. Segs = loaded
  BY <1>2 DEF Segs
<1>4. ASSUME NEW s \in loaded
      PROVE  /\ s \in Phdrs /\ ~Refused(s) /\ Listed(Area(s), vmas)
             /\ {s.vaddr, s.memsz, s.filesz, s.offset} \subseteq Nat /\ s.filesz <= s.memsz
             /\ Add(s.vaddr, s.memsz) = s.vaddr + s.memsz /\ FileEnd(s) = s.vaddr + s.filesz
             /\ s.offset + s.filesz <= FileSize
             /\ Start(s) \in Nat /\ End(s) \in Nat /\ Start(s) <= s.vaddr /\ End(s) <= UserEnd
             /\ s.vaddr + s.memsz <= End(s) /\ End(s) % PageSize = 0
             /\ extent.low <= s.vaddr /\ s.vaddr + s.memsz <= extent.high
  <2>1. /\ s \in Phdrs /\ ~Refused(s) /\ Listed(Area(s), vmas)
        /\ extent.low <= s.vaddr /\ Add(s.vaddr, s.memsz) <= extent.high
    BY <1>2, <1>3 DEF LoaderInv, SegmentsListed
  <2>2. /\ {s.vaddr, s.memsz, s.filesz, s.offset} \subseteq Nat /\ s.filesz <= s.memsz
        /\ Start(s) \in Nat /\ Start(s) <= s.vaddr
        /\ End(s) \in Nat /\ End(s) % PageSize = 0 /\ End(s) <= UserEnd
        /\ Add(s.vaddr, s.memsz) <= End(s)
        /\ Add(s.offset, s.filesz) <= FileSize
    BY <2>1, SegmentFacts
  <2>3. s.vaddr + s.memsz < Word /\ s.offset + s.filesz < Word
    <3>1. ~(Word <= s.vaddr + s.memsz) /\ ~(Word <= s.offset + s.filesz)
      BY <1>2 DEF Wraps
    <3>. QED  BY <2>2, <3>1, Numbers
  <2>4. /\ Add(s.vaddr, s.memsz) = s.vaddr + s.memsz /\ Add(s.vaddr, s.filesz) = s.vaddr + s.filesz
        /\ Add(s.offset, s.filesz) = s.offset + s.filesz
    <3>1. s.vaddr + s.memsz \in 0 .. Word - 1 /\ s.vaddr + s.filesz \in 0 .. Word - 1
          /\ s.offset + s.filesz \in 0 .. Word - 1
      BY <2>2, <2>3, Numbers
    <3>2. \A x \in 0 .. Word - 1 : x % Word = x
      BY Numbers
    <3>. QED  BY <3>1, <3>2 DEF Add
  <2>. QED  BY <2>1, <2>2, <2>4 DEF FileEnd
<1>5. ASSUME NEW s \in loaded, NEW a \in Nat, s.vaddr <= a, a < s.vaddr + s.memsz
      PROVE  a \in UserBytes /\ In(a, Area(s))
  <2>1. Start(s) <= a /\ a < End(s) /\ a < UserEnd
    BY <1>4, <1>5, UserEndFacts
  <2>. QED  BY <2>1, UserEndFacts DEF UserBytes, In, Area, NewArea
<1>6. ASSUME NEW s \in loaded, NEW a \in Span(s)
      PROVE  Read(a) = IF a < s.vaddr + s.filesz THEN s.offset + (a - s.vaddr) ELSE Zero
  <2>1. a \in Nat /\ s.vaddr <= a /\ a < s.vaddr + s.memsz
    BY <1>4 DEF Span
  <2>2. a \in UserBytes /\ In(a, Area(s))
    BY <1>5, <2>1
  <2>. PICK b : b = AlignDown(a)
    OBVIOUS
  <2>3. a \in Copied(s, b) <=> a < s.vaddr + s.filesz
    BY <1>4, <2>1, <2>2, CopiedIs
  <2>4. CASE Walk(a).to # None
    <3>1. Read(a) = IF a \in Copied(s, b) THEN FileByte(Add(s.offset, a - s.vaddr)) ELSE Zero
      BY <1>2, <1>3, <2>2, <2>4, ReadIs
    <3>2. ASSUME a < s.vaddr + s.filesz PROVE FileByte(Add(s.offset, a - s.vaddr)) = s.offset + (a - s.vaddr)
      <4>1. PICK x \in Nat : x = s.offset + (a - s.vaddr) /\ x < FileSize
        <5>1. s.offset + (a - s.vaddr) \in Nat /\ s.offset + (a - s.vaddr) < FileSize
          BY <1>4, <2>1, <3>2, Numbers
        <5>. QED  BY <5>1
      <4>2. x % Word = x
        BY <4>1, Numbers
      <4>. QED  BY <4>1, <4>2 DEF Add, FileByte
    <3>. QED  BY <2>3, <3>1, <3>2
  <2>5. CASE Walk(a).to = None
    <3>1. Read(a) = Zero
      <4>1. PICK i \in 1 .. Len(vmas) : vmas[i] = Area(s)
        BY <1>4 DEF Listed
      <4>2. VmaFind(a) # NoVma
        <5>1. Ordered(vmas)
          BY <1>2 DEF LoaderInv, SegmentsListed
        <5>. QED  BY <2>1, <2>2, <4>1, <5>1, VmaFindFacts
      <4>. QED  BY <2>5, <4>2 DEF Read
    <3>2. ~(a < s.vaddr + s.filesz)
      <4>1. SUFFICES ASSUME a < s.vaddr + s.filesz PROVE FALSE
        OBVIOUS
      <4>2. /\ b \in Pages /\ b \in Nat /\ b <= a /\ \A node : PageOf(node, a) = PageOf(node, b)
        BY <2>2, PageFacts
      <4>3. PICK node : Nodes(node, table, Used) /\ PagesLoaded(node)
        BY <1>2 DEF LoaderInv
      <4>4. PageOf(node, b) = None
        <5>1. Used \in SUBSET Frame
          BY DEF Used
        <5>. QED  BY <2>2, <2>5, <4>2, <4>3, <5>1, WalkIs
      <4>5. In(b, Area(s))
        <5>1. a % PageSize \in 0 .. PageSize - 1 /\ b + (a % PageSize) = a /\ b % PageSize = 0
          BY <2>2, <4>2, PageFacts, PagesFacts
        <5>2. Start(s) % PageSize = 0
          BY <1>4, SegmentFacts
        <5>3. Start(s) <= a /\ a < End(s)
          BY <2>2 DEF In, Area, NewArea
        <5>4. b < Start(s) => b + PageSize <= Start(s)
          BY <1>4, <4>2, <5>1, <5>2, Gap
        <5>5. Start(s) <= b /\ b < End(s)
          BY <1>4, <2>1, <4>2, <5>1, <5>3, <5>4, Numbers
        <5>. QED  BY <5>5 DEF In, Area, NewArea
      <4>6. b < FileEnd(s)
        BY <1>4, <2>1, <4>1, <4>2
      <4>. QED  BY <4>2, <4>3, <4>4, <4>5, <4>6 DEF PagesLoaded
    <3>. QED  BY <3>1, <3>2
  <2>. QED  BY <2>4, <2>5
<1>7. ASSUME NEW a \in UserBytes, a \notin UNION {Span(s) : s \in loaded} PROVE Read(a) \in {Zero, NoMemory}
  <2>1. CASE Walk(a).to = None
    BY <2>1 DEF Read
  <2>2. CASE Walk(a).to # None
    <3>. PICK b : b = AlignDown(a)
      OBVIOUS
    <3>1. /\ b \in Pages /\ b \in Nat /\ a \in Nat /\ b <= a /\ \A node : PageOf(node, a) = PageOf(node, b)
          /\ a % PageSize \in 0 .. PageSize - 1 /\ b + (a % PageSize) = a /\ b % PageSize = 0
      BY PageFacts, PagesFacts
    <3>2. PICK node : Nodes(node, table, Used) /\ PagesLoaded(node)
      BY <1>2 DEF LoaderInv
    <3>3. PageOf(node, b) # None
      <4>1. Used \in SUBSET Frame
        BY DEF Used
      <4>. QED  BY <2>2, <3>1, <3>2, <4>1, WalkIs
    <3>4. PICK s \in loaded : In(b, Area(s))
      BY <1>2, <1>3, <3>1, <3>2, <3>3 DEF PagesLoaded
    <3>5. In(a, Area(s))
      <4>1. Start(s) <= b /\ b < End(s)
        BY <3>4 DEF In, Area, NewArea
      <4>2. b + PageSize <= End(s)
        BY <1>4, <3>1, <4>1, Gap
      <4>3. Start(s) <= a /\ a < End(s)
        BY <1>4, <3>1, <4>1, <4>2, Numbers
      <4>. QED  BY <4>3 DEF In, Area, NewArea
    <3>6. Read(a) = IF a \in Copied(s, b) THEN FileByte(Add(s.offset, a - s.vaddr)) ELSE Zero
      BY <1>2, <1>3, <2>2, <3>5, ReadIs
    <3>7. a \notin Copied(s, b)
      <4>1. a \notin Span(s)
        BY <1>7
      <4>2. a \in Copied(s, b) => s.vaddr <= a /\ a < s.vaddr + s.filesz
        BY <1>4, <3>5, CopiedIs
      <4>3. s.vaddr <= a /\ a < s.vaddr + s.filesz => a \in Span(s)
        BY <1>4, <3>1 DEF Span
      <4>. QED  BY <4>1, <4>2, <4>3
    <3>. QED  BY <3>6, <3>7
  <2>. QED  BY <2>1, <2>2
<1>. QED  BY <1>4, <1>6, <1>7

-----------------------------------------------------------------------------
(* A program starts in the memory its image describes, whatever was in the *)
(* frames before and whatever failed before it (kElfLoad, kElfLoadSegment).*)
THEOREM ProgramsStartInTheirImage == LoadSpec => []ImageLoaded
BY TheLoader, ImageLoadedHolds, PTL

(* At every step of loading, the page tables and the list of areas agree   *)
(* (kVmaCreate, kVmaFind, kMapPage).                                       *)
THEOREM PagesHaveTheRightsOfTheirArea == LoadSpec => []RightsMatch
BY TheLoader, RightsMatchHolds, PTL

(* No failure of a step loses a frame: what is not free and not another    *)
(* task's hangs in the tree once, for kMmDestroy to find (kGetNextLevel,   *)
(* kMapPage, kFreeUserTables).                                             *)
THEOREM FailuresLoseNoFrame == LoadSpec => []FramesAccounted
BY TheLoader, FramesAccountedHolds, PTL

(* kElfLoadSegment copies from inside the file.                            *)
THEOREM CopiesStayInTheFile == LoadSpec => []ReadsInside
BY TheLoader, ReadsInsideHolds, PTL

-----------------------------------------------------------------------------
(* The scheduler.                                                          *)
USE SchedulerAssumption

-----------------------------------------------------------------------------
(* One pass of kGetNextTaskToRun: it stops at a non-empty list, or every   *)
(* level has had its share and every count is cleared.                     *)
LEMMA PassFacts ==
  ASSUME TypeOK, NEW cnt \in [Prio -> Nat]
  PROVE  /\ PassLevel(cnt) \in Prio \union {NoLevel}
         /\ PassLevel(cnt) \in Prio => ready[PassLevel(cnt)] # <<>>
         /\ PassLevel(cnt) = NoLevel => \A p \in Prio : Len(ready[p]) <= cnt[p]
         /\ PassCnt(cnt) \in [Prio -> Nat]
         /\ PassLevel(cnt) = NoLevel => PassCnt(cnt) = [p \in Prio |-> 0]
<1>0. \A p \in Prio : p \in Nat /\ p < NoLevel /\ Len(ready[p]) \in Nat /\ cnt[p] \in Nat
  BY DEF Prio, NoLevel, TypeOK
<1>1. CASE \E p \in Prio : Owed(cnt, p)
  <2>. DEFINE T == {p \in Prio : Owed(cnt, p)}
              Least(p) == Owed(cnt, p) /\ \A q \in Prio : q < p => ~Owed(cnt, q)
  <2>1. PICK p \in T : \A q \in T : p <= q
    <3>1. T \subseteq Nat /\ T # {}
      BY <1>0, <1>1
    <3>. QED  BY <3>1, LeastMember, Zenon
  <2>2. p \in Prio /\ Least(p)
    BY <1>0, <2>1
  <2>3. PassLevel(cnt) = CHOOSE r \in Prio : Least(r)
    BY <1>1, Zenon DEF PassLevel
  <2>. HIDE DEF Least
  <2>4. PassLevel(cnt) \in Prio /\ Least(PassLevel(cnt))
    BY <2>2, <2>3, Zenon
  <2>5. cnt[PassLevel(cnt)] < Len(ready[PassLevel(cnt)])
    BY <2>4, Zenon DEF Least, Owed
  <2>6. ready[PassLevel(cnt)] # <<>>
    BY <1>0, <2>4, <2>5
  <2>7. PassCnt(cnt) \in [Prio -> Nat]
    BY <1>0, <2>4 DEF PassCnt
  <2>8. PassLevel(cnt) # NoLevel
    BY <1>0, <2>4
  <2>. QED  BY <2>4, <2>6, <2>7, <2>8
<1>2. CASE ~\E p \in Prio : Owed(cnt, p)
  <2>1. PassLevel(cnt) = NoLevel
    BY <1>2, Zenon DEF PassLevel
  <2>2. \A p \in Prio : Len(ready[p]) <= cnt[p]
    BY <1>0, <1>2 DEF Owed
  <2>3. PassCnt(cnt) = [p \in Prio |-> 0]
    BY <1>0, <2>1 DEF PassCnt
  <2>4. NoLevel \notin Prio
    BY <1>0
  <2>5. PassCnt(cnt) \in [Prio -> Nat]
    BY <2>3
  <2>. QED  BY <2>1, <2>2, <2>3, <2>4, <2>5
<1>. QED  BY <1>1, <1>2

(* Both passes together: the level found is that of a non-empty list, and  *)
(* none is found only when every list is empty.                            *)
LEMMA NextLevelFacts ==
  ASSUME TypeOK
  PROVE  /\ NextLevel \in Prio \union {NoLevel}
         /\ NextLevel # NoLevel => NextLevel \in Prio /\ ready[NextLevel] # <<>>
         /\ NextLevel = NoLevel => \A p \in Prio : ready[p] = <<>>
         /\ NextCnt \in [Prio -> Nat]
<1>0. execCnt \in [Prio -> Nat]
  BY DEF TypeOK
<1>1. CASE PassLevel(execCnt) # NoLevel
  <2>1. NextLevel = PassLevel(execCnt) /\ NextCnt = PassCnt(execCnt)
    BY <1>1, Zenon DEF NextLevel, NextCnt
  <2>. QED  BY <1>0, <1>1, <2>1, PassFacts
<1>2. CASE PassLevel(execCnt) = NoLevel
  <2>. DEFINE z == [p \in Prio |-> 0]
  <2>1. PassCnt(execCnt) = z
    BY <1>0, <1>2, PassFacts
  <2>2. NextLevel = PassLevel(z) /\ NextCnt = PassCnt(z)
    BY <1>2, <2>1, Zenon DEF NextLevel, NextCnt
  <2>3. z \in [Prio -> Nat] /\ \A p \in Prio : z[p] = 0
    OBVIOUS
  <2>. HIDE DEF z
  <2>4. PassLevel(z) = NoLevel => \A p \in Prio : ready[p] = <<>>
    <3>. SUFFICES ASSUME PassLevel(z) = NoLevel, NEW p \in Prio
                  PROVE  ready[p] = <<>>
      OBVIOUS
    <3>1. Len(ready[p]) <= 0
      BY <2>3, PassFacts
    <3>. QED  BY <3>1 DEF TypeOK
  <2>. QED  BY <2>2, <2>3, <2>4, PassFacts
<1>. QED  BY <1>1, <1>2

LEMMA AllReadyMember ==
  ASSUME NEW t
  PROVE  t \in AllReady <=> \E p \in Prio : t \in ToSet(ready[p])
  BY Zenon DEF AllReady

(* NextTaskFound holds in every state of the right type. *)
LEMMA NextTaskFoundHolds ==
  ASSUME TypeOK
  PROVE  NextTaskFound
<1>1. ASSUME NextLevel = NoLevel PROVE AllReady = {}
  <2>1. \A p \in Prio : ready[p] = <<>>
    BY <1>1, NextLevelFacts
  <2>2. \A p \in Prio : ToSet(ready[p]) = {}
    BY <2>1 DEF ToSet
  <2>. QED  BY <2>2, AllReadyMember, Zenon
<1>2. ASSUME NextLevel # NoLevel PROVE AllReady # {}
  <2>1. NextLevel \in Prio /\ ready[NextLevel] # <<>>
    BY <1>2, NextLevelFacts
  <2>2. ready[NextLevel] \in Seq(Task)
    BY <2>1 DEF TypeOK
  <2>3. Head(ready[NextLevel]) \in ToSet(ready[NextLevel])
    BY <2>1, <2>2, TailFacts
  <2>. QED  BY <2>1, <2>3, AllReadyMember
<1>. QED  BY <1>1, <1>2, Zenon DEF NextTaskFound
-----------------------------------------------------------------------------
(* What the list operations do to the members of each level. *)
LEMMA AddReadyFacts ==
  ASSUME NEW q \in [Prio -> Seq(Task)], NEW t \in Task, NEW p
  PROVE  /\ AddReady(q, t, p) \in [Prio -> Seq(Task)]
         /\ \A r \in Prio : ToSet(AddReady(q, t, p)[r])
                            = IF r = p THEN ToSet(q[r]) \union {t} ELSE ToSet(q[r])
         /\ \A r \in Prio : IsInjective(q[r]) /\ t \notin ToSet(q[r])
                            => IsInjective(AddReady(q, t, p)[r])
         /\ \A r \in Prio : r # p => AddReady(q, t, p)[r] = q[r]
<1>1. CASE p \in Prio
  <2>1. /\ AddReady(q, t, p) = [q EXCEPT ![p] = Append(@, t)]
        /\ Append(q[p], t) \in Seq(Task)
    BY <1>1, AppendFacts DEF AddReady
  <2>2. /\ AddReady(q, t, p) \in [Prio -> Seq(Task)]
        /\ AddReady(q, t, p)[p] = Append(q[p], t)
        /\ \A r \in Prio : r # p => AddReady(q, t, p)[r] = q[r]
    BY <1>1, <2>1
  <2>3. /\ ToSet(Append(q[p], t)) = ToSet(q[p]) \union {t}
        /\ IsInjective(q[p]) /\ t \notin ToSet(q[p]) => IsInjective(Append(q[p], t))
    BY <1>1, AppendFacts
  <2>. QED  BY <2>2, <2>3
<1>2. CASE p \notin Prio
  BY <1>2 DEF AddReady
<1>. QED  BY <1>1, <1>2

LEMMA TakeNextFacts ==
  ASSUME TypeOK, ListedOnce, NextLevel # NoLevel
  PROVE  /\ NextLevel \in Prio
         /\ TakeNext \in [Prio -> Seq(Task)]
         /\ NextTask \in ToSet(ready[NextLevel]) /\ NextTask \in Task
         /\ \A r \in Prio : ToSet(TakeNext[r])
                            = IF r = NextLevel THEN ToSet(ready[r]) \ {NextTask}
                              ELSE ToSet(ready[r])
         /\ \A r \in Prio : IsInjective(TakeNext[r])
<1>1. /\ NextLevel \in Prio /\ ready[NextLevel] # <<>>
      /\ ready \in [Prio -> Seq(Task)]
  BY NextLevelFacts DEF TypeOK
<1>2. /\ ready[NextLevel] \in Seq(Task)
      /\ IsInjective(ready[NextLevel])
  BY <1>1 DEF ListedOnce
<1>3. /\ Tail(ready[NextLevel]) \in Seq(Task)
      /\ NextTask \in Task
      /\ ToSet(ready[NextLevel]) = ToSet(Tail(ready[NextLevel])) \union {NextTask}
      /\ IsInjective(Tail(ready[NextLevel]))
      /\ NextTask \notin ToSet(Tail(ready[NextLevel]))
  BY <1>1, <1>2, TailFacts DEF NextTask
<1>4. /\ TakeNext \in [Prio -> Seq(Task)]
      /\ TakeNext[NextLevel] = Tail(ready[NextLevel])
      /\ \A r \in Prio : r # NextLevel => TakeNext[r] = ready[r]
  BY <1>1, <1>3 DEF TakeNext
<1>. QED  BY <1>1, <1>3, <1>4 DEF ListedOnce

LEMMA RemoveReadyFacts ==
  ASSUME TypeOK, ListedOnce, NEW t \in Task, IsReady(t)
  PROVE  /\ RemoveReady(t) \in [Prio -> Seq(Task)]
         /\ t \in ToSet(ready[prio[t]]) /\ prio[t] \in Prio
         /\ \A r \in Prio : ToSet(RemoveReady(t)[r])
                            = IF r = prio[t] THEN ToSet(ready[r]) \ {t} ELSE ToSet(ready[r])
         /\ \A r \in Prio : IsInjective(RemoveReady(t)[r])
<1>1. /\ prio[t] \in Prio /\ ready \in [Prio -> Seq(Task)]
      /\ ready[prio[t]] \in Seq(Task) /\ IsInjective(ready[prio[t]])
  BY DEF IsReady, TypeOK, ListedOnce
<1>2. t \in ToSet(ready[prio[t]])
  BY <1>1 DEF IsReady, Contains, ToSet
<1>3. /\ RemoveFirst(ready[prio[t]], t) \in Seq(Task)
      /\ ToSet(RemoveFirst(ready[prio[t]], t)) = ToSet(ready[prio[t]]) \ {t}
      /\ IsInjective(RemoveFirst(ready[prio[t]], t))
  BY <1>1, RemoveFirstFacts
<1>4. /\ RemoveReady(t) \in [Prio -> Seq(Task)]
      /\ RemoveReady(t)[prio[t]] = RemoveFirst(ready[prio[t]], t)
      /\ \A r \in Prio : r # prio[t] => RemoveReady(t)[r] = ready[r]
  BY <1>1, <1>3 DEF RemoveReady
<1>. QED  BY <1>1, <1>2, <1>3, <1>4 DEF ListedOnce
-----------------------------------------------------------------------------
(* QueuesExact read level by level; the same for the next state. *)
ByLevel ==
  /\ \A p \in Prio : /\ IsInjective(ready[p])
                     /\ \A t \in ToSet(ready[p]) :
                          prio[t] = p /\ t \in inUse /\ t \notin dead /\ t # running
  /\ \A t \in inUse \ (dead \union {running}) : \E p \in Prio : t \in ToSet(ready[p])

LEMMA QueuesByLevel == QueuesExact <=> ByLevel
  BY AllReadyMember, Zenon DEF QueuesExact, OnRightList, ListedOnce, ReadyIsAlive, NoneLost, ByLevel

LEMMA QueuesByLevelNext == QueuesExact' <=> ByLevel'
<1>1. \A t : t \in AllReady' <=> \E p \in Prio : t \in ToSet(ready'[p])
  BY Zenon DEF AllReady
<1>. QED  BY <1>1, Zenon DEF QueuesExact, OnRightList, ListedOnce, ReadyIsAlive, NoneLost, ByLevel

LEMMA InitIInv == Init => IInv
<1>. SUFFICES ASSUME Init PROVE IInv
  OBVIOUS
<1>1. LOWEST \in Prio /\ HIGHEST \in Prio /\ Idle \in Task /\ Shell \in Task
  BY DEF LOWEST, HIGHEST, Prio
<1>2. /\ <<Idle>> \in Seq(Task) /\ <<>> \in Seq(Task)
      /\ ToSet(<<Idle>>) = {Idle} /\ ToSet(<<>>) = {}
      /\ IsInjective(<<Idle>>) /\ IsInjective(<<>>)
  BY <1>1 DEF ToSet, IsInjective
<1>3. TypeOK
  BY <1>1, <1>2 DEF Init, TypeOK
<1>4. QueuesExact
  <2>1. ByLevel
    BY <1>1, <1>2 DEF Init, ByLevel
  <2>. QED  BY <2>1, QueuesByLevel
<1>5. WaitListExact /\ DeadRunsOnlyAlone /\ AddressSpaceLive /\ Bookkeeping
  BY <1>1, <1>2 DEF Init, WaitListExact, DeadRunsOnlyAlone, AddressSpaceLive, Bookkeeping
<1>. QED  BY <1>3, <1>4, <1>5 DEF IInv
-----------------------------------------------------------------------------
(* Switching to the next ready task, from a timer tick or from kSchedule.  *)
(* A ready task exists, so the task that leaves is alive and goes back to  *)
(* the list of its priority.                                               *)
LEMMA DispatchIInv ==
  ASSUME IInv, Dispatch
  PROVE  IInv'
<1>0. TypeOK /\ ByLevel /\ ListedOnce /\ NextLevel # NoLevel
  BY QueuesByLevel DEF IInv, Dispatch, QueuesExact
<1>1. /\ NextTask \in ToSet(ready[NextLevel]) /\ NextLevel \in Prio
      /\ NextTask \in Task
  BY <1>0, TakeNextFacts
<1>2. /\ running \in Task /\ running \in inUse /\ running \notin dead
      /\ prio[running] \in Prio
  <2>1. AllReady # {}
    BY <1>1, AllReadyMember
  <2>. QED  BY <2>1 DEF IInv, TypeOK, DeadRunsOnlyAlone, Bookkeeping
<1>3. /\ NextTask \in inUse /\ NextTask \notin dead /\ NextTask # running
      /\ prio[NextTask] = NextLevel
  BY <1>0, <1>1 DEF ByLevel
<1>4. /\ TakeNext \in [Prio -> Seq(Task)]
      /\ \A r \in Prio : ToSet(TakeNext[r])
                         = IF r = NextLevel THEN ToSet(ready[r]) \ {NextTask} ELSE ToSet(ready[r])
      /\ \A r \in Prio : IsInjective(TakeNext[r])
  BY <1>0, TakeNextFacts
<1>5. \A r \in Prio : running \notin ToSet(TakeNext[r])
  BY <1>0, <1>4 DEF ByLevel
<1>6. /\ ready' \in [Prio -> Seq(Task)]
      /\ \A r \in Prio : ToSet(ready'[r])
                         = IF r = prio[running] THEN ToSet(TakeNext[r]) \union {running}
                           ELSE ToSet(TakeNext[r])
      /\ \A r \in Prio : IsInjective(ready'[r])
  <2>1. ready' = AddReady(TakeNext, running, prio[running])
    BY Zenon DEF Dispatch
  <2>. HIDE DEF TakeNext
  <2>2. /\ AddReady(TakeNext, running, prio[running]) \in [Prio -> Seq(Task)]
        /\ \A r \in Prio : ToSet(AddReady(TakeNext, running, prio[running])[r])
                            = IF r = prio[running] THEN ToSet(TakeNext[r]) \union {running}
                              ELSE ToSet(TakeNext[r])
        /\ \A r \in Prio : IsInjective(TakeNext[r]) /\ running \notin ToSet(TakeNext[r])
                            => IsInjective(AddReady(TakeNext, running, prio[running])[r])
    BY <1>2, <1>4, AddReadyFacts, ZenonT(30)
  <2>. QED  BY <1>4, <1>5, <2>1, <2>2, Zenon
<1>7. /\ running' = NextTask /\ quantum' = PROCESSOR_TIME /\ execCnt' = NextCnt
      /\ cr3' = (IF NextTask \in user THEN NextTask ELSE cr3)
      /\ rsp0' = (IF NextTask = Shell THEN rsp0 ELSE NextTask)
      /\ UNCHANGED <<inUse, user, dead, prio, waitList, reprio>>
  BY DEF Dispatch, SwitchTo
<1>8. TypeOK'
  BY <1>0, <1>1, <1>6, <1>7, NextLevelFacts DEF TypeOK
<1>9. QueuesExact'
  <2>1. \A p \in Prio : \A t \in ToSet(ready'[p]) :
          prio[t] = p /\ t \in inUse /\ t \notin dead /\ t # NextTask
    <3>. SUFFICES ASSUME NEW p \in Prio, NEW t \in ToSet(ready'[p])
                  PROVE  prio[t] = p /\ t \in inUse /\ t \notin dead /\ t # NextTask
      OBVIOUS
    <3>1. CASE t = running
      <4>1. p = prio[running]
        BY <1>5, <1>6, <3>1
      <4>. QED  BY <1>2, <1>3, <3>1, <4>1
    <3>2. CASE t # running
      <4>1. t \in ToSet(TakeNext[p])
        BY <1>6, <3>2
      <4>2. t \in ToSet(ready[p]) /\ (p = NextLevel => t # NextTask)
        BY <1>4, <4>1
      <4>3. prio[t] = p /\ t \in inUse /\ t \notin dead
        BY <1>0, <4>2, Zenon DEF ByLevel
      <4>. QED  BY <1>3, <4>2, <4>3
    <3>. QED  BY <3>1, <3>2
  <2>2. ASSUME NEW t \in inUse \ (dead \union {NextTask})
        PROVE  \E p \in Prio : t \in ToSet(ready'[p])
    <3>1. CASE t = running
      BY <1>2, <1>6, <3>1
    <3>2. CASE t # running
      <4>1. PICK p \in Prio : t \in ToSet(ready[p])
        BY <1>0, <3>2, <2>2 DEF ByLevel
      <4>. QED  BY <1>4, <1>6, <2>2, <4>1
    <3>. QED  BY <3>1, <3>2
  <2>3. ByLevel'
    BY <1>6, <1>7, <2>1, <2>2 DEF ByLevel
  <2>. QED  BY <2>3, QueuesByLevelNext
<1>10. WaitListExact'
  BY <1>2, <1>3, <1>7 DEF IInv, WaitListExact
<1>11. DeadRunsOnlyAlone' /\ Bookkeeping'
  BY <1>3, <1>7 DEF IInv, DeadRunsOnlyAlone, Bookkeeping
<1>12. AddressSpaceLive'
  BY <1>3, <1>7 DEF IInv, AddressSpaceLive, Bookkeeping
<1>. QED  BY <1>8, <1>9, <1>10, <1>11, <1>12 DEF IInv

LEMMA TickIInv ==
  ASSUME IInv, Tick
  PROVE  IInv'
<1>1. CASE TickSwitches
  BY <1>1, DispatchIInv DEF TickSwitches
<1>2. CASE TickInSlice \/ TickAlone
  <2>1. /\ UNCHANGED <<inUse, user, dead, prio, ready, waitList, running, cr3, rsp0, reprio>>
        /\ quantum' \in 0 .. PROCESSOR_TIME
        /\ execCnt' \in [Prio -> Nat]
    BY <1>2, NextLevelFacts, SMTT(30) DEF TickInSlice, TickAlone, IInv, TypeOK
  <2>2. TypeOK'
    BY <2>1 DEF IInv, TypeOK
  <2>3. AllReady' = AllReady
    BY <2>1, Zenon DEF AllReady
  <2>4. QueuesExact'
    BY <2>1, <2>3, Zenon DEF IInv, QueuesExact, OnRightList, ListedOnce, ReadyIsAlive, NoneLost
  <2>5. WaitListExact' /\ AddressSpaceLive' /\ Bookkeeping'
    BY <2>1, Zenon DEF IInv, WaitListExact, AddressSpaceLive, Bookkeeping
  <2>6. DeadRunsOnlyAlone'
    BY <2>1, <2>3, Zenon DEF IInv, DeadRunsOnlyAlone
  <2>. QED  BY <2>2, <2>4, <2>5, <2>6 DEF IInv
<1>. QED  BY <1>1, <1>2 DEF Tick

(* kExitTask.  A live caller leaves every list; it joins the wait list     *)
(* exactly when it is a kernel thread and there is a successor.  When the  *)
(* caller is already dead, nothing is ready and the step changes nothing   *)
(* but the counts.                                                         *)
LEMMA ExitTaskIInv ==
  ASSUME IInv, ExitTask
  PROVE  IInv'
<1>0. TypeOK /\ ByLevel /\ ListedOnce /\ running \in Task /\ running \in inUse /\ running # Idle
  BY QueuesByLevel DEF IInv, ExitTask, QueuesExact, TypeOK, Bookkeeping
<1>1. /\ dead' = dead \union {running}
      /\ prio' = [prio EXCEPT ![running] = WAIT]
      /\ prio \in [Task -> Prio \union {WAIT}]
      /\ execCnt' \in [Prio -> Nat]
      /\ UNCHANGED <<inUse, user, reprio>>
  BY <1>0, NextLevelFacts DEF ExitTask, TypeOK
<1>2. prio' \in [Task -> Prio \union {WAIT}] /\ prio'[running] = WAIT
      /\ \A t : t # running => prio'[t] = prio[t]
  BY <1>0, <1>1
<1>3. CASE NextLevel # NoLevel
  <2>1. /\ NextTask \in ToSet(ready[NextLevel]) /\ NextLevel \in Prio /\ NextTask \in Task
        /\ TakeNext \in [Prio -> Seq(Task)]
        /\ \A r \in Prio : ToSet(TakeNext[r])
                         = IF r = NextLevel THEN ToSet(ready[r]) \ {NextTask} ELSE ToSet(ready[r])
        /\ \A r \in Prio : IsInjective(TakeNext[r])
    BY <1>0, <1>3, TakeNextFacts
  <2>2. running \notin dead /\ running \notin ToSet(waitList)
    <3>1. AllReady # {}
      BY <2>1, AllReadyMember
    <3>. QED  BY <3>1 DEF IInv, DeadRunsOnlyAlone, WaitListExact
  <2>3. NextTask \in inUse /\ NextTask \notin dead /\ NextTask # running
    BY <1>0, <2>1 DEF ByLevel
  <2>4. /\ ready' = TakeNext
        /\ waitList' = (IF running \in user THEN waitList ELSE Append(waitList, running))
        /\ running' = NextTask /\ quantum' = PROCESSOR_TIME
        /\ cr3' = (IF NextTask \in user THEN NextTask ELSE cr3)
        /\ rsp0' = (IF NextTask = Shell THEN rsp0 ELSE NextTask)
    BY <1>3 DEF ExitTask, SwitchTo
  <2>5. /\ waitList' \in Seq(Task) /\ IsInjective(waitList')
        /\ ToSet(waitList') = IF running \in user THEN ToSet(waitList) ELSE ToSet(waitList) \union {running}
    <3>1. waitList \in Seq(Task) /\ IsInjective(waitList)
      BY DEF IInv, TypeOK, WaitListExact
    <3>2. /\ Append(waitList, running) \in Seq(Task) /\ IsInjective(Append(waitList, running))
          /\ ToSet(Append(waitList, running)) = ToSet(waitList) \union {running}
      BY <1>0, <2>2, <3>1, AppendFacts
    <3>. QED  BY <2>4, <3>1, <3>2
  <2>6. TypeOK'
    BY <1>0, <1>1, <1>2, <2>1, <2>4, <2>5 DEF TypeOK
  <2>7. QueuesExact'
    <3>1. \A p \in Prio : \A t \in ToSet(ready'[p]) :
            prio'[t] = p /\ t \in inUse /\ t \notin dead' /\ t # NextTask
      BY <1>0, <1>1, <1>2, <2>1, <2>3, <2>4 DEF ByLevel
    <3>2. \A t \in inUse \ (dead' \union {NextTask}) : \E p \in Prio : t \in ToSet(ready'[p])
      BY <1>0, <1>1, <2>1, <2>4 DEF ByLevel
    <3>3. ByLevel'
      BY <1>1, <2>1, <2>4, <3>1, <3>2 DEF ByLevel
    <3>. QED  BY <3>3, QueuesByLevelNext
  <2>8. WaitListExact'
    BY <1>0, <1>1, <2>2, <2>3, <2>4, <2>5 DEF IInv, WaitListExact, Bookkeeping
  <2>9. DeadRunsOnlyAlone' /\ Bookkeeping'
    BY <1>0, <1>1, <1>2, <2>3, <2>4 DEF IInv, DeadRunsOnlyAlone, Bookkeeping
  <2>10. AddressSpaceLive'
    BY <1>1, <2>3, <2>4 DEF IInv, AddressSpaceLive, Bookkeeping
  <2>. QED  BY <2>6, <2>7, <2>8, <2>9, <2>10 DEF IInv
<1>4. CASE NextLevel = NoLevel
  <2>1. UNCHANGED <<waitList, ready, running, quantum, cr3, rsp0>>
    BY <1>4 DEF ExitTask
  <2>2. AllReady = {} /\ AllReady' = {}
    BY <1>0, <1>4, <2>1, NextTaskFoundHolds DEF NextTaskFound, AllReady
  <2>3. \A p \in Prio : ToSet(ready[p]) = {}
    BY <2>2, AllReadyMember, Zenon
  <2>4. TypeOK'
    BY <1>0, <1>1, <1>2, <2>1 DEF TypeOK
  <2>5. QueuesExact'
    <3>1. ByLevel'
      BY <1>0, <1>1, <2>1, <2>3 DEF ByLevel
    <3>. QED  BY <3>1, QueuesByLevelNext
  <2>6. WaitListExact'
    BY <1>0, <1>1, <2>1 DEF IInv, WaitListExact
  <2>7. DeadRunsOnlyAlone' /\ Bookkeeping' /\ AddressSpaceLive'
    BY <1>0, <1>1, <1>2, <2>1, <2>2 DEF IInv, DeadRunsOnlyAlone, Bookkeeping, AddressSpaceLive
  <2>. QED  BY <2>4, <2>5, <2>6, <2>7 DEF IInv
<1>. QED  BY <1>3, <1>4

(* A TCB that kAddTaskToReadyList publishes was on no list and owned no    *)
(* address space, and the creator is alive.                                *)
LEMMA PublishIInv ==
  ASSUME IInv, NEW t \in Task, NEW p \in Prio, NEW m \in BOOLEAN,
         running \notin dead, Publish(t, p, m)
  PROVE  IInv'
<1>0. TypeOK /\ ByLevel /\ ready \in [Prio -> Seq(Task)]
  BY QueuesByLevel DEF IInv, QueuesExact, TypeOK
<1>1. /\ t \notin inUse /\ t # Idle
      /\ inUse' = inUse \union {t}
      /\ user' = (IF m THEN user \union {t} ELSE user \ {t})
      /\ dead' = dead \ {t}
      /\ prio' = [prio EXCEPT ![t] = p]
      /\ ready' = AddReady(ready, t, p)
      /\ UNCHANGED <<execCnt, waitList, running, quantum, cr3, rsp0, reprio>>
  BY Zenon DEF Publish
<1>2. /\ t \notin user /\ t # running /\ t # Shell
      /\ \A r \in Prio : t \notin ToSet(ready[r])
      /\ user \subseteq inUse /\ running \in inUse
  BY <1>0, <1>1 DEF IInv, Bookkeeping, ByLevel
<1>3. /\ prio' \in [Task -> Prio \union {WAIT}] /\ prio'[t] = p
      /\ \A u : u # t => prio'[u] = prio[u]
  BY <1>0, <1>1 DEF TypeOK
<1>4. /\ ready' \in [Prio -> Seq(Task)]
      /\ \A r \in Prio : ToSet(ready'[r]) = IF r = p THEN ToSet(ready[r]) \union {t} ELSE ToSet(ready[r])
      /\ \A r \in Prio : IsInjective(ready'[r])
  <2>1. \A r \in Prio : IsInjective(ready[r])
    BY <1>0 DEF ByLevel
  <2>2. /\ AddReady(ready, t, p) \in [Prio -> Seq(Task)]
        /\ \A r \in Prio : ToSet(AddReady(ready, t, p)[r])
                           = IF r = p THEN ToSet(ready[r]) \union {t} ELSE ToSet(ready[r])
        /\ \A r \in Prio : IsInjective(ready[r]) /\ t \notin ToSet(ready[r])
                           => IsInjective(AddReady(ready, t, p)[r])
    BY <1>0, AddReadyFacts, ZenonT(30)
  <2>. QED  BY <1>1, <1>2, <2>1, <2>2, Zenon
<1>5. TypeOK'
  BY <1>0, <1>1, <1>3, <1>4 DEF TypeOK
<1>6. QueuesExact'
  <2>1. ASSUME NEW r \in Prio, NEW u \in ToSet(ready'[r])
        PROVE  prio'[u] = r /\ u \in inUse' /\ u \notin dead' /\ u # running
    <3>1. CASE u = t
      BY <1>1, <1>2, <1>3, <1>4, <2>1, <3>1
    <3>2. CASE u # t
      <4>1. u \in ToSet(ready[r])
        BY <1>4, <2>1, <3>2
      <4>. QED  BY <1>0, <1>1, <1>3, <3>2, <4>1, Zenon DEF ByLevel
    <3>. QED  BY <3>1, <3>2
  <2>2. ASSUME NEW u \in inUse' \ (dead' \union {running})
        PROVE  \E r \in Prio : u \in ToSet(ready'[r])
    <3>1. CASE u = t
      BY <1>4, <3>1
    <3>2. CASE u # t
      <4>1. PICK r \in Prio : u \in ToSet(ready[r])
        BY <1>0, <1>1, <2>2, <3>2 DEF ByLevel
      <4>. QED  BY <1>4, <4>1
    <3>. QED  BY <3>1, <3>2
  <2>3. ByLevel'
    BY <1>1, <1>4, <2>1, <2>2 DEF ByLevel
  <2>. QED  BY <2>3, QueuesByLevelNext
<1>7. WaitListExact' /\ AddressSpaceLive' /\ DeadRunsOnlyAlone'
  BY <1>1, <1>2 DEF IInv, WaitListExact, AddressSpaceLive, DeadRunsOnlyAlone
<1>8. Bookkeeping'
  BY <1>1, <1>2, <1>3 DEF IInv, Bookkeeping
<1>. QED  BY <1>5, <1>6, <1>7, <1>8 DEF IInv

(* What kFreeTask leaves behind, for a task that is not running.           *)
LEMMA FreeTaskFacts ==
  ASSUME IInv, NEW t \in Task, t # running, FreeTask(t), UNCHANGED <<running, rsp0>>
  PROVE  /\ inUse' = inUse \ ({t} \ {Shell})
         /\ user' = user \ {t}
         /\ inUse' \subseteq Task /\ user' \subseteq Task
         /\ cr3' \in Task \union {KernelCR3}
         /\ AddressSpaceLive'
<1>1. /\ inUse \subseteq Task /\ user \subseteq Task /\ cr3 \in Task \union {KernelCR3}
      /\ Shell \notin user /\ user \subseteq inUse
  BY DEF IInv, TypeOK, Bookkeeping
<1>2. CASE t = Shell
  BY <1>1, <1>2 DEF FreeTask, IInv, AddressSpaceLive
<1>3. CASE t # Shell
  BY <1>1, <1>3 DEF FreeTask, IInv, AddressSpaceLive
<1>. QED  BY <1>2, <1>3

LEMMA EndTaskIInv ==
  ASSUME IInv, NEW t \in Task, EndTask(t)
  PROVE  IInv'
<1>0. /\ TypeOK /\ ByLevel /\ ListedOnce /\ ready \in [Prio -> Seq(Task)]
      /\ waitList \in Seq(Task) /\ IsInjective(waitList)
  BY QueuesByLevel DEF IInv, QueuesExact, TypeOK, WaitListExact
<1>1. /\ running = Shell /\ Shell \notin dead /\ t \in inUse /\ t # Shell
      /\ FreeTask(t)
      /\ UNCHANGED <<dead, prio, execCnt, running, quantum, rsp0, reprio>>
  BY DEF EndTask, ShellRuns
<1>2. /\ inUse' = inUse \ {t} /\ user' = user \ {t}
      /\ cr3' \in Task \union {KernelCR3} /\ AddressSpaceLive'
  BY <1>1, FreeTaskFacts
<1>3. /\ ready' \in [Prio -> Seq(Task)]
      /\ \A r \in Prio : ToSet(ready'[r]) = ToSet(ready[r]) \ {t}
      /\ \A r \in Prio : IsInjective(ready'[r])
  <2>1. CASE t \in dead /\ UNCHANGED ready
    <3>1. \A r \in Prio : IsInjective(ready[r]) /\ t \notin ToSet(ready[r])
      BY <1>0, <2>1 DEF ByLevel
    <3>. QED  BY <1>0, <2>1, <3>1
  <2>2. CASE t \notin dead /\ IsReady(t) /\ ready' = RemoveReady(t)
    <3>1. /\ RemoveReady(t) \in [Prio -> Seq(Task)]
          /\ \A r \in Prio : ToSet(RemoveReady(t)[r])
                            = IF r = prio[t] THEN ToSet(ready[r]) \ {t} ELSE ToSet(ready[r])
          /\ \A r \in Prio : IsInjective(RemoveReady(t)[r])
      BY <1>0, <2>2, RemoveReadyFacts
    <3>2. \A r \in Prio : r # prio[t] => t \notin ToSet(ready[r])
      BY <1>0 DEF ByLevel
    <3>. QED  BY <2>2, <3>1, <3>2
  <2>. QED  BY <2>1, <2>2 DEF EndTask
<1>4. /\ waitList' \in Seq(Task) /\ IsInjective(waitList')
      /\ ToSet(waitList') = ToSet(waitList) \ {t}
  <2>1. CASE waitList' = RemoveFirst(waitList, t)
    BY <1>0, <2>1, RemoveFirstFacts
  <2>2. CASE t \notin dead /\ UNCHANGED waitList
    BY <1>0, <2>2 DEF IInv, WaitListExact
  <2>. QED  BY <2>1, <2>2 DEF EndTask
<1>5. TypeOK'
  BY <1>0, <1>1, <1>2, <1>3, <1>4 DEF TypeOK
<1>6. QueuesExact'
  <2>1. ASSUME NEW r \in Prio, NEW u \in ToSet(ready'[r])
        PROVE  prio[u] = r /\ u \in inUse' /\ u \notin dead /\ u # running
    BY <1>0, <1>2, <1>3, <2>1 DEF ByLevel
  <2>2. ASSUME NEW u \in inUse' \ (dead \union {running})
        PROVE  \E r \in Prio : u \in ToSet(ready'[r])
    <3>1. PICK r \in Prio : u \in ToSet(ready[r])
      BY <1>0, <1>2, <2>2 DEF ByLevel
    <3>. QED  BY <1>2, <1>3, <2>2, <3>1
  <2>3. ByLevel'
    BY <1>1, <1>3, <2>1, <2>2 DEF ByLevel
  <2>. QED  BY <2>3, QueuesByLevelNext
<1>7. WaitListExact'
  BY <1>1, <1>2, <1>4 DEF IInv, WaitListExact
<1>8. DeadRunsOnlyAlone' /\ Bookkeeping'
  BY <1>1, <1>2 DEF IInv, DeadRunsOnlyAlone, Bookkeeping
<1>. QED  BY <1>2, <1>5, <1>6, <1>7, <1>8 DEF IInv

(* kIdleTask frees a kernel thread that is dead, so no list of tasks that  *)
(* can run and no loaded address space depends on it.                      *)
LEMMA IdleReclaimsIInv ==
  ASSUME IInv, IdleReclaims
  PROVE  IInv'
<1>0. /\ TypeOK /\ QueuesExact /\ running = Idle /\ waitList # <<>>
      /\ waitList \in Seq(Task) /\ IsInjective(waitList)
  BY DEF IInv, TypeOK, WaitListExact, IdleReclaims
<1>t. PICK t \in Task : t = Head(waitList)
  BY <1>0, TailFacts
<1>1. /\ waitList' \in Seq(Task) /\ IsInjective(waitList')
      /\ t \in Task /\ t \in ToSet(waitList)
      /\ ToSet(waitList) = ToSet(waitList') \union {t} /\ t \notin ToSet(waitList')
  BY <1>0, <1>t, TailFacts DEF IdleReclaims
<1>2. t \in inUse /\ t \in dead /\ t \notin user /\ t # running
  BY <1>1 DEF IInv, WaitListExact
<1>3. /\ FreeTask(t)
      /\ UNCHANGED <<dead, prio, ready, execCnt, running, quantum, rsp0, reprio>>
  BY <1>t DEF IdleReclaims
<1>4. /\ inUse' = inUse \ ({t} \ {Shell}) /\ user' = user
      /\ inUse' \subseteq Task
      /\ cr3' \in Task \union {KernelCR3} /\ AddressSpaceLive'
  <2>1. FreeTask(t) /\ UNCHANGED <<running, rsp0>> /\ t # running /\ t \in Task
    BY <1>1, <1>2, <1>3
  <2>2. /\ inUse' = inUse \ ({t} \ {Shell}) /\ user' = user \ {t}
        /\ inUse' \subseteq Task
        /\ cr3' \in Task \union {KernelCR3} /\ AddressSpaceLive'
    BY <2>1, FreeTaskFacts, Zenon
  <2>. QED  BY <1>2, <2>2
<1>5. AllReady' = AllReady
  BY <1>3, Zenon DEF AllReady
<1>6. TypeOK'
  BY <1>0, <1>1, <1>3, <1>4 DEF TypeOK
<1>7. QueuesExact'
  <2>1. OnRightList' /\ ListedOnce'
    BY <1>0, <1>3, Zenon DEF QueuesExact, OnRightList, ListedOnce
  <2>2. ReadyIsAlive' /\ NoneLost'
    BY <1>0, <1>2, <1>3, <1>4, <1>5 DEF QueuesExact, ReadyIsAlive, NoneLost
  <2>. QED  BY <2>1, <2>2 DEF QueuesExact
<1>8. WaitListExact'
  BY <1>1, <1>2, <1>3, <1>4 DEF IInv, WaitListExact
<1>9. DeadRunsOnlyAlone'
  BY <1>3, <1>5 DEF IInv, DeadRunsOnlyAlone
<1>10. Bookkeeping'
  BY <1>2, <1>3, <1>4 DEF IInv, Bookkeeping
<1>. QED  BY <1>4, <1>6, <1>7, <1>8, <1>9, <1>10 DEF IInv

(* kChangePriority: a ready task moves to the list of its new priority;    *)
(* the running task and a dead one are on no list and only have their flag *)
(* changed.                                                                *)
LEMMA ChangePriorityIInv ==
  ASSUME IInv, NEW t \in Task, NEW p \in Prio, ChangePriority(t, p)
  PROVE  IInv'
<1>0. /\ TypeOK /\ ByLevel /\ ListedOnce /\ ready \in [Prio -> Seq(Task)]
  BY QueuesByLevel DEF IInv, QueuesExact, TypeOK
<1>1. /\ running = Shell /\ running \notin dead /\ t \in inUse
      /\ prio' = [prio EXCEPT ![t] = p]
      /\ reprio' \in 0 .. MaxReprio
      /\ UNCHANGED <<inUse, user, dead, execCnt, waitList, running, quantum, cr3, rsp0>>
  BY <1>0 DEF ChangePriority, ShellRuns, TypeOK
<1>2. /\ prio' \in [Task -> Prio \union {WAIT}] /\ prio'[t] = p
      /\ \A u : u # t => prio'[u] = prio[u]
  BY <1>0, <1>1 DEF TypeOK
<1>3. /\ ready' \in [Prio -> Seq(Task)]
      /\ \A r \in Prio : IsInjective(ready'[r])
      /\ \A r \in Prio : ToSet(ready'[r]) \ {t} = ToSet(ready[r]) \ {t}
      /\ \A r \in Prio : t \in ToSet(ready'[r]) <=> r = p /\ t \notin dead /\ t # running
  <2>1. CASE t # running /\ IsReady(t)
    <3>0. ready' = AddReady(RemoveReady(t), t, p)
      BY <2>1, Zenon DEF ChangePriority
    <3>1. /\ RemoveReady(t) \in [Prio -> Seq(Task)]
          /\ \A r \in Prio : ToSet(RemoveReady(t)[r])
                            = IF r = prio[t] THEN ToSet(ready[r]) \ {t} ELSE ToSet(ready[r])
          /\ \A r \in Prio : IsInjective(RemoveReady(t)[r])
          /\ prio[t] \in Prio /\ t \in ToSet(ready[prio[t]])
      BY <1>0, <2>1, RemoveReadyFacts
    <3>2. \A r \in Prio : t \notin ToSet(RemoveReady(t)[r])
      BY <1>0, <3>1, ZenonT(30) DEF ByLevel
    <3>3. t \notin dead
      BY <1>0, <3>1 DEF ByLevel
    <3>4. /\ AddReady(RemoveReady(t), t, p) \in [Prio -> Seq(Task)]
          /\ \A r \in Prio : ToSet(AddReady(RemoveReady(t), t, p)[r])
                             = IF r = p THEN ToSet(RemoveReady(t)[r]) \union {t}
                               ELSE ToSet(RemoveReady(t)[r])
          /\ \A r \in Prio : IsInjective(RemoveReady(t)[r]) /\ t \notin ToSet(RemoveReady(t)[r])
                             => IsInjective(AddReady(RemoveReady(t), t, p)[r])
      <4>1. PICK q \in [Prio -> Seq(Task)] : q = RemoveReady(t)
        BY <3>1
      <4>2. /\ AddReady(q, t, p) \in [Prio -> Seq(Task)]
            /\ \A r \in Prio : ToSet(AddReady(q, t, p)[r])
                               = IF r = p THEN ToSet(q[r]) \union {t} ELSE ToSet(q[r])
            /\ \A r \in Prio : IsInjective(q[r]) /\ t \notin ToSet(q[r])
                               => IsInjective(AddReady(q, t, p)[r])
        BY AddReadyFacts, ZenonT(30)
      <4>. QED  BY <4>1, <4>2, Zenon
    <3>5. /\ \A r \in Prio : ToSet(ready'[r]) \ {t} = ToSet(ready[r]) \ {t}
          /\ \A r \in Prio : t \in ToSet(ready'[r]) <=> r = p
      BY <3>0, <3>1, <3>2, <3>4
    <3>. QED  BY <2>1, <3>0, <3>1, <3>2, <3>3, <3>4, <3>5
  <2>2. CASE ~(t # running /\ IsReady(t))
    <3>1. ready' = ready
      BY <2>2, Zenon DEF ChangePriority
    <3>2. \A r \in Prio : IsInjective(ready[r])
      BY <1>0 DEF ListedOnce
    <3>3. t \in dead \/ t = running
      <4>. SUFFICES ASSUME t \notin dead, t # running PROVE FALSE
        OBVIOUS
      <4>1. PICK r \in Prio : t \in ToSet(ready[r])
        BY <1>0, <1>1 DEF ByLevel
      <4>2. prio[t] \in Prio /\ t \in ToSet(ready[prio[t]])
        BY <1>0, <4>1 DEF ByLevel
      <4>3. ready[prio[t]] \in Seq(Task)
        BY <1>0, <4>2
      <4>4. Contains(ready[prio[t]], t)
        BY <4>2, <4>3 DEF Contains, ToSet
      <4>. QED  BY <2>2, <4>2, <4>4, Zenon DEF IsReady
    <3>4. \A r \in Prio : t \notin ToSet(ready[r])
      BY <1>0, <3>3 DEF ByLevel
    <3>. QED  BY <1>0, <3>1, <3>2, <3>3, <3>4
  <2>. QED  BY <2>1, <2>2
<1>4. TypeOK'
  BY <1>0, <1>1, <1>2, <1>3 DEF TypeOK
<1>5. QueuesExact'
  <2>1. ASSUME NEW r \in Prio, NEW u \in ToSet(ready'[r])
        PROVE  prio'[u] = r /\ u \in inUse /\ u \notin dead /\ u # running
    <3>1. CASE u = t
      BY <1>1, <1>2, <1>3, <2>1, <3>1
    <3>2. CASE u # t
      <4>1. u \in ToSet(ready[r])
        BY <1>3, <2>1, <3>2
      <4>. QED  BY <1>0, <1>2, <3>2, <4>1, Zenon DEF ByLevel
    <3>. QED  BY <3>1, <3>2
  <2>2. ASSUME NEW u \in inUse \ (dead \union {running})
        PROVE  \E r \in Prio : u \in ToSet(ready'[r])
    <3>1. CASE u = t
      BY <1>3, <2>2, <3>1
    <3>2. CASE u # t
      <4>1. PICK r \in Prio : u \in ToSet(ready[r])
        BY <1>0, <2>2 DEF ByLevel
      <4>. QED  BY <1>3, <3>2, <4>1
    <3>. QED  BY <3>1, <3>2
  <2>3. ByLevel'
    BY <1>1, <1>3, <2>1, <2>2 DEF ByLevel
  <2>. QED  BY <2>3, QueuesByLevelNext
<1>6. WaitListExact' /\ AddressSpaceLive' /\ DeadRunsOnlyAlone'
  BY <1>1 DEF IInv, WaitListExact, AddressSpaceLive, DeadRunsOnlyAlone
<1>7. Bookkeeping'
  BY <1>1, <1>2 DEF IInv, Bookkeeping
<1>. QED  BY <1>4, <1>5, <1>6, <1>7 DEF IInv
-----------------------------------------------------------------------------
LEMMA NextIInv == IInv /\ [Next]_vars => IInv'
<1>. SUFFICES ASSUME IInv, [Next]_vars PROVE IInv'
  OBVIOUS
<1>1. CASE Tick
  BY <1>1, TickIInv
<1>2. CASE Yield
  BY <1>2, DispatchIInv DEF Yield
<1>3. CASE ExitTask
  BY <1>3, ExitTaskIInv
<1>4. CASE IdleReclaims
  BY <1>4, IdleReclaimsIInv
<1>5. ASSUME NEW t \in Task, CreateUserTask(t) PROVE IInv'
  BY <1>5, PublishIInv DEF CreateUserTask, ShellRuns
<1>6. ASSUME NEW t \in Task, ForkTask(t) PROVE IInv'
  BY <1>6, PublishIInv DEF ForkTask
<1>7. ASSUME NEW t \in Task, EndTask(t) PROVE IInv'
  BY <1>7, EndTaskIInv
<1>8. ASSUME NEW t \in Task, NEW p \in Prio, CreateTask(t, p) PROVE IInv'
  BY <1>8, PublishIInv DEF CreateTask, ShellRuns
<1>9. ASSUME NEW t \in Task, NEW p \in Prio, ChangePriority(t, p) PROVE IInv'
  BY <1>9, ChangePriorityIInv
<1>10. CASE UNCHANGED vars
  <2>1. UNCHANGED <<inUse, user, dead, prio, ready, execCnt, waitList, running, quantum,
                    cr3, rsp0, reprio>>
    BY <1>10 DEF vars
  <2>2. TypeOK'
    BY <2>1 DEF IInv, TypeOK
  <2>3. AllReady' = AllReady
    BY <2>1, Zenon DEF AllReady
  <2>4. QueuesExact'
    BY <2>1, <2>3, Zenon DEF IInv, QueuesExact, OnRightList, ListedOnce, ReadyIsAlive, NoneLost
  <2>5. WaitListExact' /\ AddressSpaceLive' /\ Bookkeeping'
    BY <2>1, Zenon DEF IInv, WaitListExact, AddressSpaceLive, Bookkeeping
  <2>6. DeadRunsOnlyAlone'
    BY <2>1, <2>3, Zenon DEF IInv, DeadRunsOnlyAlone
  <2>. QED  BY <2>2, <2>4, <2>5, <2>6 DEF IInv
<1>. QED
  BY <1>1, <1>2, <1>3, <1>4, <1>5, <1>6, <1>7, <1>8, <1>9, <1>10, Zenon DEF Next

(* The inductive invariant of the scheduler. *)
THEOREM InvariantHolds == Spec => []IInv
  BY InitIInv, NextIInv, PTL DEF Spec

(* Every list and counter of task.c keeps values of its type. *)
THEOREM TypeCorrect == Spec => []TypeOK
<1>1. IInv => TypeOK
  BY DEF IInv
<1>. QED  BY <1>1, InvariantHolds, PTL

(* No live task is lost by kSchedule, kScheduleInInterrunt, kExitTask,     *)
(* kEndTask or kChangePriority, listed twice, or left on a list that is    *)
(* not the one of its priority.                                            *)
THEOREM ReadyListsExact == Spec => []QueuesExact
<1>1. IInv => QueuesExact
  BY DEF IInv
<1>. QED  BY <1>1, InvariantHolds, PTL

(* kIdleTask and kEndTask between them free each kernel thread that called *)
(* kExitTask once, and none that can still run.                            *)
THEOREM WaitListAlwaysExact == Spec => []WaitListExact
<1>1. IInv => WaitListExact
  BY DEF IInv
<1>. QED  BY <1>1, InvariantHolds, PTL

(* The two passes of kGetNextTaskToRun overlook no ready task, so          *)
(* kExitTask never leaves the processor on a dead task while another waits. *)
THEOREM NoTaskOverlooked == Spec => [](NextTaskFound /\ DeadRunsOnlyAlone)
<1>1. IInv => NextTaskFound /\ DeadRunsOnlyAlone
  BY NextTaskFoundHolds DEF IInv
<1>. QED  BY <1>1, InvariantHolds, PTL

(* CR3 never names an address space that kFreeTask has destroyed, although *)
(* kSwitchAddressSpace leaves it loaded under every kernel thread.         *)
THEOREM LoadedSpaceLives == Spec => []AddressSpaceLive
<1>1. IInv => AddressSpaceLive
  BY DEF IInv
<1>. QED  BY <1>1, InvariantHolds, PTL

(* The timer interrupt takes the processor away at the end of every slice  *)
(* as long as another task is ready, and hands out a whole slice.          *)
THEOREM SlicesEnd == Spec => SliceEnds
<1>1. IInv /\ [Next]_vars
        => [(Tick /\ quantum <= 1 /\ AllReady # {})
              => running' \in AllReady /\ quantum' = PROCESSOR_TIME]_vars
  <2>. SUFFICES ASSUME IInv, Tick, quantum <= 1, AllReady # {}
                PROVE  running' \in AllReady /\ quantum' = PROCESSOR_TIME
    OBVIOUS
  <2>1. quantum \in Nat
    BY DEF IInv, TypeOK
  <2>2. TypeOK /\ ListedOnce
    BY DEF IInv, QueuesExact
  <2>3. NextLevel # NoLevel
    BY <2>2, NextTaskFoundHolds DEF NextTaskFound
  <2>4. Dispatch
    BY <2>1, <2>3 DEF Tick, TickInSlice, TickSwitches, TickAlone
  <2>5. NextTask \in AllReady
    BY <2>2, <2>3, TakeNextFacts, AllReadyMember
  <2>. QED  BY <2>4, <2>5 DEF Dispatch, SwitchTo
<1>. QED  BY <1>1, InvariantHolds, PTL DEF Spec, SliceEnds
=============================================================================
