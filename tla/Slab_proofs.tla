---------------------------- MODULE Slab_proofs ----------------------------
(***************************************************************************)
(* Proofs about module Slab, for any memory, any caches and any sizes:     *)
(* live blocks never overlap, a slab's chain holds exactly its free        *)
(* objects, lists and counters agree with the slabs, and kfree can tell    *)
(* what any address belongs to.                                            *)
(***************************************************************************)
EXTENDS Slab, KernelLemmas, FiniteSetTheorems

Frame(b) == b[1] \div PageSize
Whole(b) == SlabAt(b[1]) = NoSlab
CacheOf(p) == cache[slab[p].cache]
RunOf(b) == Run(Frame(b), order[Frame(b)])

SlabRec(c, n) == [cache : {c}, free : 0 .. n, first : (0 .. n - 1) \union {NoFree},
                  next : [0 .. n - 1 -> -1 .. n - 1]]

(* TypeOK, with what has to be known of the variables beyond it.           *)
Typed ==
  /\ cache \in Seq(Cache) /\ Len(cache) <= MaxCache /\ MaxShift < Len(cache)
  /\ slab = [p \in Page |-> slab[p]]
  /\ \A p \in Slabs : /\ slab[p].cache \in DOMAIN cache
                      /\ slab[p] \in SlabRec(slab[p].cache, CacheOf(p).objs)
  /\ owner \in [Page -> Page \union {NoSlab}] /\ order \in [Page -> Order]
  /\ taken \subseteq Page /\ live \subseteq Nat \X Nat /\ IsFiniteSet(live)

(* What kKmemCacheCreate works out: the objects fit behind the header, and *)
(* header, objects and frames are multiples of the alignment.              *)
Shaped(r) ==
  /\ r.size \in Nat \ {0} /\ r.align \in Nat \ {0} /\ r.objs \in Nat \ {0}
  /\ r.order \in Order
  /\ Header(r.align) \in Nat /\ HeaderSize <= Header(r.align)
  /\ Header(r.align) + r.objs * r.size <= 2^r.order * PageSize
  /\ \E x, y, z \in Nat : /\ PageSize = x * r.align /\ Header(r.align) = y * r.align
                          /\ r.size = z * r.align

Geometry ==
  /\ \A c \in DOMAIN cache : Shaped(cache[c])
  /\ \A k \in 0 .. MaxShift : cache[k + 1].size = 2^k

(* The frames of a slab name it, and no other frame does.                  *)
RunsOwned ==
  /\ \A p \in Slabs : \A q \in Run(p, CacheOf(p).order) : q \in Page /\ owner[q] = p
  /\ \A q \in Page : owner[q] # NoSlab =>
       /\ q \in taken /\ owner[q] \in Slabs
       /\ q \in Run(owner[q], CacheOf(owner[q]).order)

(* A block is an object of the slab its frame names, or a run of frames of *)
(* its own.                                                                *)
At(p, r, i) == p * PageSize + Header(r.align) + i * r.size

IsObject(b) ==
  LET p == SlabAt(b[1]) IN
  /\ b[2] <= CacheOf(p).size
  /\ \E i \in 0 .. CacheOf(p).objs - 1 : b[1] = At(p, CacheOf(p), i)

IsRun(b) ==
  /\ b[1] = Frame(b) * PageSize /\ b[2] <= 2^order[Frame(b)] * PageSize
  /\ \A q \in RunOf(b) : q \in taken /\ owner[q] = NoSlab

Blocks ==
  /\ \A b \in live : Frame(b) \in Page /\ 0 < b[2] /\ IF Whole(b) THEN IsRun(b) ELSE IsObject(b)
  /\ \A a, b \in live : a[1] = b[1] => a = b
  /\ \A a, b \in live : Whole(a) /\ Whole(b) /\ a # b => RunOf(a) \cap RunOf(b) = {}
  /\ \A q \in taken : owner[q] = NoSlab => \E b \in live : Whole(b) /\ q \in RunOf(b)

(* The chain of slab s goes through the objects F, once through each.      *)
IsChain(f, s) ==
  /\ s.first = (IF s.free = 0 THEN NoFree ELSE f[1])
  /\ \A k \in 1 .. s.free : s.next[f[k]] = (IF k = s.free THEN NoFree ELSE f[k + 1])
  /\ \A j, k \in 1 .. s.free : f[j] = f[k] => j = k

ChainOver(s, F) ==
  \E f \in [1 .. s.free -> F] : IsChain(f, s) /\ \A i \in F : \E k \in 1 .. s.free : f[k] = i

FreeObjects(p) == (0 .. CacheOf(p).objs - 1) \ InUse(p)
Chains == \A p \in Slabs : ChainOver(slab[p], FreeObjects(p))

(* The lists and counters of one cache.                                    *)
OwnSlabs(c) == {p \in Slabs : slab[p].cache = c}
Active(c) == UNION {Objects(p) : p \in OwnSlabs(c)}

ListsOf(c) ==
  /\ IsInjective(cache[c].partial) /\ IsInjective(cache[c].full)
  /\ ToSet(cache[c].partial) = {p \in OwnSlabs(c) : slab[p].free > 0}
  /\ ToSet(cache[c].full) = {p \in OwnSlabs(c) : slab[p].free = 0}
  /\ cache[c].slabs = Cardinality(OwnSlabs(c))
  /\ cache[c].active = Cardinality(Active(c))
Lists == \A c \in DOMAIN cache : ListsOf(c)

IInv == Typed /\ Geometry /\ RunsOwned /\ Blocks /\ Chains /\ Lists
USE SlabAssumption
-----------------------------------------------------------------------------
(* Arithmetic of the layout.                                               *)
LEMMA AlignFacts ==
  ASSUME NEW n \in Nat \ {0}, NEW a \in Nat \ {0}
  PROVE  /\ AlignUp(n, a) \in Nat /\ n <= AlignUp(n, a) /\ AlignUp(n, 1) = n
         /\ \E m \in Nat : AlignUp(n, a) = m * a
<1>. PICK q, m : q = (n + a - 1) \div a /\ m = n + a - 1
  OBVIOUS
<1>1. m \in Nat /\ q \in Nat /\ q * a <= m /\ m < q * a + a
  OBVIOUS
<1>2. AlignUp(n, a) = q * a /\ q * a \in Nat
  BY <1>1 DEF AlignUp
<1>3. n <= q * a
  BY <1>1, <1>2
<1>4. AlignUp(n, 1) = n
  <2>1. (n + 1 - 1) \div 1 = n
    OBVIOUS
  <2>. QED  BY <2>1 DEF AlignUp
<1>. QED  BY <1>1, <1>2, <1>3, <1>4

LEMMA PowerFacts ==
  ASSUME NEW o \in Order
  PROVE  2^o \in Nat \ {0} /\ 2^o * PageSize \in Nat \ {0}
<1>1. 2^o \in Nat \ {0}
  BY GeometryAssumption
<1>2. PICK k : k = 2^o
  OBVIOUS
<1>. QED  BY <1>1, <1>2

(* Addresses less than k frames behind frame p lie in the k frames from p. *)
LEMMA InFrames ==
  ASSUME NEW p \in Nat, NEW k \in Nat, NEW y \in Nat, y < k * PageSize
  PROVE  /\ (p * PageSize + y) \div PageSize \in p .. p + k - 1
         /\ p * PageSize + y \in p * PageSize .. (p + k) * PageSize - 1
<1>1. PICK q, r : y = q * PageSize + r /\ q \in Nat /\ r \in 0 .. PageSize - 1
  <2>1. /\ y \div PageSize \in Nat /\ (y \div PageSize) * PageSize <= y
        /\ y < (y \div PageSize) * PageSize + PageSize
    OBVIOUS
  <2>2. PICK q : q = y \div PageSize
    OBVIOUS
  <2>3. y - q * PageSize \in 0 .. PageSize - 1 /\ y = q * PageSize + (y - q * PageSize)
    BY <2>1, <2>2
  <2>. QED  BY <2>1, <2>2, <2>3
<1>2. q < k
  <2>. SUFFICES ASSUME k <= q PROVE FALSE
    BY <1>1
  <2>1. k * PageSize <= q * PageSize
    BY <1>1
  <2>. QED  BY <1>1, <2>1
<1>3. p * PageSize + y = (p + q) * PageSize + r
  BY <1>1
<1>4. ((p + q) * PageSize + r) \div PageSize = p + q
  <2>1. \A s \in Nat \ {0}, i \in Nat : \A j \in 0 .. s - 1 : (i * s + j) \div s = i
    OBVIOUS
  <2>2. p + q \in Nat
    BY <1>1
  <2>. QED  BY <1>1, <2>1, <2>2
<1>5. (p * PageSize + y) \div PageSize = p + q
  BY <1>3, <1>4
<1>6. (p + k) * PageSize = p * PageSize + k * PageSize /\ p * PageSize \in Nat /\ k * PageSize \in Nat
  OBVIOUS
<1>7. p * PageSize + y \in p * PageSize .. (p + k) * PageSize - 1
  BY <1>6
<1>8. p + q \in p .. p + k - 1
  BY <1>1, <1>2
<1>. QED  BY <1>5, <1>7, <1>8

(* Object i of a slab: where it lies, and how kKmemCacheFree finds i.      *)
LEMMA AtFacts ==
  ASSUME NEW r, Shaped(r), NEW p \in Nat, NEW i \in 0 .. r.objs - 1, NEW w \in 0 .. r.size - 1
  PROVE  /\ At(p, r, i) \in Nat
         /\ (At(p, r, i) + w) \div PageSize \in Run(p, r.order)
         /\ At(p, r, i) + w \in p * PageSize .. (p + 2^r.order) * PageSize - 1
         /\ p * PageSize + HeaderSize <= At(p, r, i)
         /\ At(p, r, i) % r.align = 0
         /\ (At(p, r, i) - p * PageSize - Header(r.align)) \div r.size = i
<1>. PICK h, k : h = Header(r.align) /\ k = 2^r.order
  OBVIOUS
<1>. DEFINE x == p * PageSize
            z == i * r.size
<1>1. /\ r.size \in Nat \ {0} /\ r.align \in Nat \ {0} /\ r.objs \in Nat \ {0} /\ r.order \in Order
      /\ h \in Nat /\ HeaderSize <= h /\ h + r.objs * r.size <= k * PageSize /\ k \in Nat \ {0}
  BY PowerFacts DEF Shaped
<1>2. At(p, r, i) = x + h + z /\ x \in Nat /\ z \in Nat /\ r.objs * r.size \in Nat
  BY <1>1 DEF At
<1>3. z + w < r.objs * r.size
  <2>1. \A s \in Nat \ {0}, n \in Nat : \A j \in 0 .. n - 1 : j * s + s <= n * s
    OBVIOUS
  <2>2. z + r.size <= r.objs * r.size
    BY <1>1, <2>1
  <2>. QED  BY <1>1, <1>2, <2>2
<1>4. h + z + w \in Nat /\ h + z + w < k * PageSize
  <2>1. k * PageSize \in Nat
    BY <1>1
  <2>. QED  BY <1>1, <1>2, <1>3, <2>1
<1>5. /\ (x + (h + z + w)) \div PageSize \in Run(p, r.order)
      /\ x + (h + z + w) \in x .. (p + 2^r.order) * PageSize - 1
  BY <1>1, <1>4, InFrames DEF Run
<1>6. x + (h + z + w) = At(p, r, i) + w
  BY <1>1, <1>2
<1>7. At(p, r, i) % r.align = 0
  <2>1. PICK a \in Nat, b \in Nat, c \in Nat :
          PageSize = a * r.align /\ h = b * r.align /\ r.size = c * r.align
    BY DEF Shaped
  <2>2. PICK m \in Nat : m = p * a + b + i * c
    OBVIOUS
  <2>3. At(p, r, i) = m * r.align
    <3>1. x = (p * a) * r.align
      BY <1>1, <2>1
    <3>2. z = (i * c) * r.align
      BY <1>1, <2>1
    <3>. QED  BY <1>1, <1>2, <2>1, <2>2, <3>1, <3>2
  <2>4. \A s \in Nat \ {0}, n \in Nat : (n * s) % s = 0
    OBVIOUS
  <2>. QED  BY <1>1, <2>2, <2>3, <2>4
<1>8. (At(p, r, i) - x - h) \div r.size = i
  <2>1. At(p, r, i) - x - h = i * r.size
    BY <1>1, <1>2
  <2>2. \A s \in Nat \ {0}, n \in Nat : (n * s) \div s = n
    OBVIOUS
  <2>. QED  BY <1>1, <2>1, <2>2
<1>9. At(p, r, i) \in Nat /\ p * PageSize + HeaderSize <= At(p, r, i)
  BY <1>1, <1>2
<1>. QED  BY <1>5, <1>6, <1>7, <1>8, <1>9

(* Two objects of a slab do not overlap.                                   *)
LEMMA ObjectsApart ==
  ASSUME NEW r, Shaped(r), NEW p \in Nat, NEW i \in 0 .. r.objs - 1, NEW j \in 0 .. r.objs - 1,
         NEW w \in 0 .. r.size - 1, NEW v \in 0 .. r.size - 1, At(p, r, i) + w = At(p, r, j) + v
  PROVE  i = j
<1>1. r.size \in Nat \ {0} /\ Header(r.align) \in Nat /\ i \in Nat /\ j \in Nat
  BY DEF Shaped
<1>2. i * r.size + w = j * r.size + v
  <2>1. p * PageSize \in Nat /\ i * r.size \in Nat /\ j * r.size \in Nat
    BY <1>1
  <2>. QED  BY <1>1, <2>1 DEF At
<1>3. \A s \in Nat \ {0}, n \in Nat : \A y \in 0 .. s - 1 : (n * s + y) \div s = n
  OBVIOUS
<1>. QED  BY <1>1, <1>2, <1>3
(* What kKmemCacheCreate makes of a request that it accepts.               *)
LEMMA NewCacheFacts ==
  ASSUME NEW size \in Nat \ {0}, NEW align \in Nat \ {0}, Roomy(size, align) # {},
         PageSize % align = 0
  PROVE  LET r == NewCache(size, align) IN
         /\ r \in Cache /\ Shaped(r) /\ r.partial = <<>> /\ r.full = <<>>
         /\ r.active = 0 /\ r.slabs = 0 /\ r.size = AlignUp(size, align)
<1>. DEFINE r == NewCache(size, align)
            o == CHOOSE k \in Roomy(size, align) : \A j \in Roomy(size, align) : k <= j
<1>1. o \in Order /\ 2^o * PageSize > Header(align) /\ ObjsIn(o, size, align) >= MinObjs
  <2>1. Roomy(size, align) \subseteq Nat
    BY DEF Roomy, Order
  <2>2. o \in Roomy(size, align)
    BY <2>1, LeastMember
  <2>. QED  BY <2>2 DEF Roomy
<1>2. r = [size |-> AlignUp(size, align), align |-> align, order |-> o,
           objs |-> ObjsIn(o, size, align), partial |-> <<>>, full |-> <<>>,
           active |-> 0, slabs |-> 0]
  BY DEF NewCache
<1>. HIDE DEF o, r
<1>3. /\ AlignUp(size, align) \in Nat \ {0} /\ \E m \in Nat : AlignUp(size, align) = m * align
  <2>1. PICK a : a = AlignUp(size, align)
    OBVIOUS
  <2>2. a \in Nat /\ size <= a /\ \E m \in Nat : a = m * align
    <3>1. size \in Nat \ {0} /\ align \in Nat \ {0}
      OBVIOUS
    <3>. QED  BY ONLY <2>1, <3>1, AlignFacts
  <2>3. a \in Nat \ {0}
    BY <2>2
  <2>. QED  BY <2>1, <2>2, <2>3
<1>4. /\ Header(align) \in Nat /\ HeaderSize <= Header(align) /\ \E m \in Nat : Header(align) = m * align
  BY AlignFacts DEF Header
<1>5. \E m \in Nat : PageSize = m * align
  <2>1. \A a \in Nat \ {0}, n \in Nat : n % a = 0 => n = (n \div a) * a /\ n \div a \in Nat
    OBVIOUS
  <2>2. PageSize \in Nat
    OBVIOUS
  <2>. QED  BY <2>1, <2>2
<1>6. /\ ObjsIn(o, size, align) \in Nat \ {0}
      /\ Header(align) + ObjsIn(o, size, align) * AlignUp(size, align) <= 2^o * PageSize
  <2>1. PICK k, h, s : k = 2^o * PageSize /\ h = Header(align) /\ s = AlignUp(size, align)
    OBVIOUS
  <2>2. k \in Nat /\ h \in Nat /\ s \in Nat \ {0} /\ k - h \in Nat
    BY <1>1, <1>3, <1>4, <2>1, PowerFacts
  <2>3. \A n \in Nat, a \in Nat \ {0} : n \div a \in Nat /\ (n \div a) * a <= n
    OBVIOUS
  <2>4. (k - h) \div s \in Nat /\ ((k - h) \div s) * s <= k - h
    BY <2>2, <2>3
  <2>5. ObjsIn(o, size, align) = (k - h) \div s
    BY <2>1 DEF ObjsIn
  <2>6. ((k - h) \div s) * s \in Nat
    BY <2>2, <2>4
  <2>. QED  BY <1>1, <2>1, <2>2, <2>4, <2>5, <2>6
<1>7. r \in Cache
  BY <1>1, <1>2, <1>3, <1>6 DEF Cache
<1>8. Shaped(r)
  BY <1>1, <1>2, <1>3, <1>4, <1>5, <1>6 DEF Shaped
<1>. QED  BY <1>2, <1>7, <1>8 DEF r
-----------------------------------------------------------------------------
(* Chains of free objects.                                                 *)

(* A new slab has all its objects in the chain.                            *)
LEMMA GrownFacts ==
  ASSUME NEW c, cache[c].objs \in Nat \ {0}
  PROVE  /\ Grown(c) \in SlabRec(c, cache[c].objs) /\ Grown(c).cache = c
         /\ Grown(c).free = cache[c].objs /\ Grown(c).first = 0
         /\ ChainOver(Grown(c), 0 .. cache[c].objs - 1)
<1>. PICK n : n = cache[c].objs
  OBVIOUS
<1>. DEFINE s == Grown(c)
            f == [k \in 1 .. n |-> k - 1]
<1>1. n \in Nat \ {0}
  OBVIOUS
<1>2. /\ s.cache = c /\ s.free = n /\ s.first = 0
      /\ s.next = [i \in 0 .. n - 1 |-> IF i + 1 < n THEN i + 1 ELSE NoFree]
  BY DEF Grown
<1>3. s.next \in [0 .. n - 1 -> -1 .. n - 1]
  BY <1>1, <1>2 DEF NoFree
<1>4. s \in SlabRec(c, n)
  BY <1>1, <1>3 DEF SlabRec, Grown
<1>5. f \in [1 .. n -> 0 .. n - 1] /\ \A i \in 0 .. n - 1 : i + 1 \in 1 .. n /\ f[i + 1] = i
  BY <1>1, SMTT(30)
<1>6. IsChain(f, s)
  <2>1. s.first = (IF s.free = 0 THEN NoFree ELSE f[1])
    BY <1>1, <1>2
  <2>2. ASSUME NEW k \in 1 .. s.free PROVE s.next[f[k]] = (IF k = s.free THEN NoFree ELSE f[k + 1])
    <3>1. k \in 1 .. n /\ f[k] = k - 1 /\ k - 1 \in 0 .. n - 1 /\ (k - 1) + 1 = k
      BY <1>1, <1>2
    <3>2. s.next[k - 1] = IF k < n THEN k ELSE NoFree
      BY <1>2, <3>1
    <3>. QED  BY <1>1, <1>2, <3>1, <3>2
  <2>3. \A j, k \in 1 .. s.free : f[j] = f[k] => j = k
    BY <1>1, <1>2
  <2>. QED  BY <2>1, <2>2, <2>3 DEF IsChain
<1>7. ChainOver(s, 0 .. n - 1)
  <2>1. f \in [1 .. s.free -> 0 .. n - 1] /\ \A i \in 0 .. n - 1 : \E k \in 1 .. s.free : f[k] = i
    BY <1>2, <1>5
  <2>. QED  BY <1>6, <2>1 DEF ChainOver
<1>. QED  BY <1>2, <1>4, <1>7

(* kKmemCacheAlloc takes the first object out of the chain.                *)
LEMMA PoppedFacts ==
  ASSUME NEW c, NEW n \in Nat \ {0}, NEW s \in SlabRec(c, n), NEW F \in SUBSET (0 .. n - 1),
         ChainOver(s, F), s.free > 0
  PROVE  /\ s.first \in F
         /\ Popped(s) \in SlabRec(c, n) /\ Popped(s).cache = c /\ Popped(s).free = s.free - 1
         /\ ChainOver(Popped(s), F \ {s.first})
<1>0. PICK f \in [1 .. s.free -> F] : IsChain(f, s) /\ \A i \in F : \E k \in 1 .. s.free : f[k] = i
  BY DEF ChainOver
<1>. DEFINE t == Popped(s)
            g == [k \in 1 .. s.free - 1 |-> f[k + 1]]
<1>1. /\ s.cache = c /\ s.free \in 1 .. n /\ s.free \in Nat
      /\ s.next \in [0 .. n - 1 -> -1 .. n - 1]
      /\ s = [cache |-> c, free |-> s.free, first |-> s.first, next |-> s.next]
  BY DEF SlabRec
<1>2. s.first = f[1] /\ f[1] \in F /\ f[1] \in 0 .. n - 1
  <2>1. 1 \in 1 .. s.free /\ s.free # 0
    BY <1>1
  <2>. QED  BY <1>0, <2>1 DEF IsChain
<1>3. /\ t.cache = c /\ t.free = s.free - 1 /\ t.first = s.next[f[1]]
      /\ t.next = [s.next EXCEPT ![f[1]] = 0]
      /\ t = [cache |-> c, free |-> s.free - 1, first |-> s.next[f[1]],
              next |-> [s.next EXCEPT ![f[1]] = 0]]
  <2>1. PICK m, x, nx : m = s.free /\ x = s.first /\ nx = s.next
    OBVIOUS
  <2>2. s = [cache |-> c, free |-> m, first |-> x, next |-> nx]
    BY <1>1, <2>1
  <2>3. t = [[[s EXCEPT !.first = nx[x]] EXCEPT !.free = m - 1] EXCEPT !.next = [nx EXCEPT ![x] = 0]]
    BY <1>1, <2>1 DEF Popped
  <2>4. t = [cache |-> c, free |-> m - 1, first |-> nx[x], next |-> [nx EXCEPT ![x] = 0]]
    BY <2>2, <2>3
  <2>. QED  BY <1>2, <2>1, <2>4
<1>. HIDE DEF t
<1>4. t.first = IF t.free = 0 THEN NoFree ELSE f[2]
  <2>1. 1 \in 1 .. s.free /\ 1 + 1 = 2 /\ (1 = s.free <=> s.free - 1 = 0)
    BY <1>1
  <2>2. s.next[f[1]] = (IF 1 = s.free THEN NoFree ELSE f[1 + 1])
    BY <1>0, <2>1 DEF IsChain
  <2>. QED  BY <1>3, <2>1, <2>2
<1>5. t \in SlabRec(c, n)
  <2>1. t.next \in [0 .. n - 1 -> -1 .. n - 1]
    BY <1>1, <1>3
  <2>2. t.free \in 0 .. n
    BY <1>1, <1>3
  <2>3. t.first \in 0 .. n - 1 \union {NoFree}
    BY <1>0, <1>1, <1>3, <1>4, SMTT(30)
  <2>. QED  BY <1>3, <2>1, <2>2, <2>3 DEF SlabRec
<1>6. ASSUME NEW k \in 1 .. t.free
      PROVE  /\ g[k] = f[k + 1] /\ k + 1 \in 1 .. s.free /\ g[k] # f[1] /\ g[k] \in F \ {s.first}
             /\ t.next[g[k]] = (IF k = t.free THEN NoFree ELSE g[k + 1])
  <2>1. k + 1 \in 1 .. s.free /\ k \in 1 .. s.free - 1 /\ g[k] = f[k + 1] /\ 1 \in 1 .. s.free
    BY <1>1, <1>3
  <2>2. f[k + 1] # f[1] /\ f[k + 1] \in F
    BY <1>0, <1>1, <2>1, SMTT(30) DEF IsChain
  <2>3. t.next[f[k + 1]] = s.next[f[k + 1]]
    BY <1>1, <1>3, <2>2
  <2>4. s.next[f[k + 1]] = (IF k + 1 = s.free THEN NoFree ELSE f[(k + 1) + 1])
    BY <1>0, <2>1 DEF IsChain
  <2>5. k # t.free => g[k + 1] = f[(k + 1) + 1]
    BY <1>1, <1>3
  <2>6. k + 1 = s.free <=> k = t.free
    BY <1>1, <1>3
  <2>. HIDE DEF g
  <2>7. g[k] # f[1] /\ g[k] \in F \ {s.first}
    BY <1>2, <2>1, <2>2
  <2>8. t.next[g[k]] = (IF k = t.free THEN NoFree ELSE g[k + 1])
    BY <2>1, <2>3, <2>4, <2>5, <2>6
  <2>. QED  BY <2>1, <2>7, <2>8
<1>7. IsChain(g, t)
  <2>1. t.first = (IF t.free = 0 THEN NoFree ELSE g[1])
    BY <1>1, <1>3, <1>4
  <2>2. \A j, k \in 1 .. t.free : g[j] = g[k] => j = k
    <3>. SUFFICES ASSUME NEW j \in 1 .. t.free, NEW k \in 1 .. t.free, g[j] = g[k] PROVE j = k
      OBVIOUS
    <3>1. f[j + 1] = f[k + 1] /\ j + 1 \in 1 .. s.free /\ k + 1 \in 1 .. s.free
      BY <1>6
    <3>2. j + 1 = k + 1
      BY <1>0, <3>1 DEF IsChain
    <3>. QED  BY <1>1, <3>2
  <2>. QED  BY <1>6, <2>1, <2>2 DEF IsChain
<1>8. g \in [1 .. t.free -> F \ {s.first}]
  BY <1>1, <1>3, <1>6
<1>9. ASSUME NEW i \in F \ {s.first} PROVE \E k \in 1 .. t.free : g[k] = i
  <2>1. PICK k \in 1 .. s.free : f[k] = i
    BY <1>0
  <2>2. k # 1 /\ k - 1 \in 1 .. t.free /\ (k - 1) + 1 = k
    BY <1>1, <1>2, <1>3, <2>1, SMTT(30)
  <2>. QED  BY <1>6, <2>1, <2>2
<1>10. ChainOver(t, F \ {s.first})
  BY <1>7, <1>8, <1>9 DEF ChainOver
<1>. QED  BY <1>2, <1>3, <1>5, <1>10 DEF t
(* A chain has as many places as there are free objects.                   *)
LEMMA ChainCount ==
  ASSUME NEW s, NEW F, ChainOver(s, F), s.free \in Nat
  PROVE  IsFiniteSet(F) /\ Cardinality(F) = s.free
<1>1. PICK f \in [1 .. s.free -> F] : IsChain(f, s) /\ \A i \in F : \E k \in 1 .. s.free : f[k] = i
  BY DEF ChainOver
<1>2. \A j, k \in 1 .. s.free : f[j] = f[k] => j = k
  BY <1>1 DEF IsChain
<1>3. f \in Bijection(1 .. s.free, F)
  <2>. DOMAIN f = 1 .. s.free
    OBVIOUS
  <2>. QED  BY <1>1, <1>2 DEF Bijection, Injection, Surjection, IsInjective
<1>4. ExistsBijection(1 .. s.free, F)
  BY <1>3 DEF ExistsBijection
<1>5. Cardinality(F) = s.free
  BY <1>4, FS_CountingElements
<1>6. IsFiniteSet(1 .. s.free)
  <2>1. 1 \in Int /\ s.free \in Int
    OBVIOUS
  <2>. QED  BY <2>1, FS_Interval
<1>. QED  BY <1>4, <1>5, <1>6, FS_Bijection

(* kKmemCacheFree puts object i in front of the chain.                     *)
Pushed(s, i) == [s EXCEPT !.next[i] = s.first, !.first = i, !.free = @ + 1]

LEMMA PushedFacts ==
  ASSUME NEW c, NEW n \in Nat \ {0}, NEW s \in SlabRec(c, n), NEW F \in SUBSET (0 .. n - 1),
         ChainOver(s, F), NEW i \in 0 .. n - 1, i \notin F
  PROVE  /\ Pushed(s, i) \in SlabRec(c, n) /\ Pushed(s, i).cache = c
         /\ Pushed(s, i).free = s.free + 1 /\ s.free \in Nat
         /\ ChainOver(Pushed(s, i), F \union {i})
<1>0. PICK f \in [1 .. s.free -> F] : IsChain(f, s) /\ \A j \in F : \E k \in 1 .. s.free : f[k] = j
  BY DEF ChainOver
<1>. DEFINE t == Pushed(s, i)
            g == [k \in 1 .. s.free + 1 |-> IF k = 1 THEN i ELSE f[k - 1]]
<1>1. /\ s.cache = c /\ s.free \in 0 .. n /\ s.free \in Nat
      /\ s.next \in [0 .. n - 1 -> -1 .. n - 1] /\ s.first \in (0 .. n - 1) \union {NoFree}
      /\ s = [cache |-> c, free |-> s.free, first |-> s.first, next |-> s.next]
  BY DEF SlabRec
<1>2. s.free + 1 \in 0 .. n
  <2>1. IsFiniteSet(F) /\ Cardinality(F) = s.free
    BY <1>1, ChainCount
  <2>2. Cardinality(F \union {i}) = s.free + 1
    BY <2>1, FS_AddElement
  <2>3. IsFiniteSet(0 .. n - 1) /\ Cardinality(0 .. n - 1) = n
    <3>1. 0 \in Int /\ n - 1 \in Int /\ ~(0 > n - 1) /\ (n - 1) - 0 + 1 = n
      OBVIOUS
    <3>. QED  BY <3>1, FS_Interval
  <2>4. F \union {i} \in SUBSET (0 .. n - 1)
    OBVIOUS
  <2>5. Cardinality(F \union {i}) <= Cardinality(0 .. n - 1)
    BY <2>3, <2>4, FS_Subset
  <2>. QED  BY <1>1, <2>2, <2>3, <2>5
<1>3. /\ t.cache = c /\ t.free = s.free + 1 /\ t.first = i
      /\ t.next = [s.next EXCEPT ![i] = s.first]
      /\ t = [cache |-> c, free |-> s.free + 1, first |-> i, next |-> [s.next EXCEPT ![i] = s.first]]
  <2>1. PICK m, x, nx : m = s.free /\ x = s.first /\ nx = s.next
    OBVIOUS
  <2>2. s = [cache |-> c, free |-> m, first |-> x, next |-> nx]
    BY <1>1, <2>1
  <2>3. t = [[[s EXCEPT !.next = [nx EXCEPT ![i] = x]] EXCEPT !.first = i] EXCEPT !.free = m + 1]
    BY <1>1, <2>1 DEF Pushed
  <2>4. t = [cache |-> c, free |-> m + 1, first |-> i, next |-> [nx EXCEPT ![i] = x]]
    BY <2>2, <2>3
  <2>. QED  BY <2>1, <2>4
<1>. HIDE DEF t
<1>4. t \in SlabRec(c, n)
  <2>1. t.next \in [0 .. n - 1 -> -1 .. n - 1]
    BY <1>1, <1>3 DEF NoFree
  <2>2. t.first \in 0 .. n - 1
    BY <1>3
  <2>. QED  BY <1>2, <1>3, <2>1, <2>2 DEF SlabRec
<1>5. g[1] = i /\ \A k \in 1 .. s.free : k + 1 \in 1 .. t.free /\ g[k + 1] = f[k] /\ f[k] # i /\ f[k] \in F
  <2>1. 1 \in 1 .. s.free + 1 /\ t.free = s.free + 1
    BY <1>1, <1>3
  <2>2. \A k \in 1 .. s.free : k + 1 \in 1 .. s.free + 1 /\ k + 1 # 1 /\ (k + 1) - 1 = k
    BY <1>1, SMTT(30)
  <2>3. \A k \in 1 .. s.free : f[k] \in F
    BY <1>0
  <2>4. g[1] = i /\ \A k \in 1 .. s.free : g[k + 1] = f[k]
    BY <2>1, <2>2
  <2>. QED  BY <2>1, <2>2, <2>3, <2>4
<1>6. g \in [1 .. t.free -> F \union {i}]
  BY <1>0, <1>1, <1>3, SMTT(30)
<1>7. \A k \in 1 .. t.free : k # 1 => k - 1 \in 1 .. s.free /\ (k - 1) + 1 = k
  BY <1>1, <1>3
<1>. HIDE DEF g
<1>8. IsChain(g, t)
  <2>1. t.first = (IF t.free = 0 THEN NoFree ELSE g[1])
    BY <1>1, <1>3, <1>5
  <2>2. ASSUME NEW k \in 1 .. t.free PROVE t.next[g[k]] = (IF k = t.free THEN NoFree ELSE g[k + 1])
    <3>1. CASE k = 1
      <4>1. t.next[g[k]] = s.first
        BY <1>1, <1>3, <1>5, <3>1
      <4>2. s.first = (IF s.free = 0 THEN NoFree ELSE f[1])
        BY <1>0 DEF IsChain
      <4>3. s.free = 0 <=> k = t.free
        BY <1>1, <1>3, <3>1
      <4>4. s.free # 0 => 1 \in 1 .. s.free
        BY <1>1
      <4>. QED  BY <1>5, <3>1, <4>1, <4>2, <4>3, <4>4
    <3>2. CASE k # 1
      <4>1. k - 1 \in 1 .. s.free /\ (k - 1) + 1 = k /\ g[k] = f[k - 1]
        BY <1>5, <1>7, <3>2
      <4>2. f[k - 1] # i /\ f[k - 1] \in 0 .. n - 1
        BY <1>5, <4>1
      <4>3. t.next[f[k - 1]] = s.next[f[k - 1]]
        BY <1>1, <1>3, <4>2
      <4>4. s.next[f[k - 1]] = (IF k - 1 = s.free THEN NoFree ELSE f[(k - 1) + 1])
        BY <1>0, <4>1 DEF IsChain
      <4>5. k - 1 = s.free <=> k = t.free
        BY <1>1, <1>3, SMTT(30)
      <4>6. k # t.free => k \in 1 .. s.free
        BY <1>1, <1>3, <4>1, SMTT(30)
      <4>. QED  BY <1>5, <4>1, <4>3, <4>4, <4>5, <4>6
    <3>. QED  BY <3>1, <3>2
  <2>3. ASSUME NEW j \in 1 .. t.free, NEW k \in 1 .. t.free, g[j] = g[k] PROVE j = k
    <3>1. ASSUME NEW l \in 1 .. t.free, l # 1 PROVE l - 1 \in 1 .. s.free /\ g[l] = f[l - 1] /\ g[l] # g[1]
      BY <1>5, <1>7, <3>1
    <3>2. CASE j = 1 \/ k = 1
      BY <2>3, <3>1, <3>2
    <3>3. CASE j # 1 /\ k # 1
      <4>1. j - 1 = k - 1
        BY <1>0, <2>3, <3>1, <3>3 DEF IsChain
      <4>. QED  BY <1>1, <1>3, <4>1, SMTT(30)
    <3>. QED  BY <3>2, <3>3
  <2>. QED  BY <2>1, <2>2, <2>3 DEF IsChain
<1>9. ASSUME NEW j \in F \union {i} PROVE \E k \in 1 .. t.free : g[k] = j
  <2>1. CASE j = i
    <3>1. 1 \in 1 .. t.free
      BY <1>1, <1>3
    <3>. QED  BY <1>5, <2>1, <3>1
  <2>2. CASE j \in F
    <3>1. PICK k \in 1 .. s.free : f[k] = j
      BY <1>0, <2>2
    <3>. QED  BY <1>5, <3>1
  <2>. QED  BY <2>1, <2>2
<1>10. ChainOver(t, F \union {i})
  BY <1>6, <1>8, <1>9 DEF ChainOver
<1>. QED  BY <1>1, <1>3, <1>4, <1>10 DEF t
-----------------------------------------------------------------------------
(* The lists of a cache.                                                   *)
SameShape(r, t) ==
  t.size = r.size /\ t.align = r.align /\ t.order = r.order /\ t.objs = r.objs

Listed(r, P, F) ==
  /\ IsInjective(r.partial) /\ ToSet(r.partial) = P
  /\ IsInjective(r.full) /\ ToSet(r.full) = F

LEMMA AfterAllocFacts ==
  ASSUME NEW r \in Cache, NEW P, NEW F, Listed(r, P, F), NEW p \in P, p \in Page, p \notin F, NEW s
  PROVE  LET t == AfterAlloc(r, p, s) IN
         /\ t \in Cache /\ SameShape(r, t) /\ t.active = r.active + 1 /\ t.slabs = r.slabs
         /\ Listed(t, IF s.free = 1 THEN P \ {p} ELSE P, IF s.free = 1 THEN F \union {p} ELSE F)
<1>. DEFINE t == AfterAlloc(r, p, s)
<1>. PICK a, x, y : /\ a = r.active + 1
                    /\ x = IF s.free = 1 THEN RemoveFirst(r.partial, p) ELSE r.partial
                    /\ y = IF s.free = 1 THEN <<p>> \o r.full ELSE r.full
  OBVIOUS
<1>1. /\ r.active \in Int /\ r.partial \in Seq(Page) /\ r.full \in Seq(Page)
      /\ r.size \in Nat /\ r.align \in Nat /\ r.order \in Order /\ r.objs \in Nat /\ r.slabs \in Nat
      /\ r = [size |-> r.size, align |-> r.align, order |-> r.order, objs |-> r.objs,
              partial |-> r.partial, full |-> r.full, active |-> r.active, slabs |-> r.slabs]
  BY DEF Cache
<1>2. t = [size |-> r.size, align |-> r.align, order |-> r.order, objs |-> r.objs,
           partial |-> x, full |-> y, active |-> a, slabs |-> r.slabs]
  <2>1. t = [[[r EXCEPT !.active = a] EXCEPT !.partial = x] EXCEPT !.full = y]
    BY <1>1 DEF AfterAlloc
  <2>. QED  BY <1>1, <2>1
<1>. HIDE DEF t
<1>3. x \in Seq(Page) /\ IsInjective(x) /\ ToSet(x) = IF s.free = 1 THEN P \ {p} ELSE P
  BY <1>1, RemoveFirstFacts DEF Listed
<1>4. y \in Seq(Page) /\ IsInjective(y) /\ ToSet(y) = IF s.free = 1 THEN F \union {p} ELSE F
  <2>1. PICK l, m : l = r.full /\ m = <<p>> \o l
    OBVIOUS
  <2>2. l \in Seq(Page) /\ IsInjective(l) /\ ToSet(l) = F
    BY <1>1, <2>1 DEF Listed
  <2>3. m \in Seq(Page) /\ ToSet(m) = F \union {p} /\ (p \notin F => IsInjective(m))
    BY <2>1, <2>2, PrependFacts
  <2>. QED  BY <2>1, <2>2, <2>3
<1>5. t \in Cache
  BY <1>1, <1>2, <1>3, <1>4 DEF Cache
<1>6. SameShape(r, t) /\ t.active = r.active + 1 /\ t.slabs = r.slabs
  BY <1>2 DEF SameShape
<1>7. Listed(t, IF s.free = 1 THEN P \ {p} ELSE P, IF s.free = 1 THEN F \union {p} ELSE F)
  BY <1>2, <1>3, <1>4 DEF Listed
<1>. QED  BY <1>5, <1>6, <1>7 DEF t

LEMMA AfterFreeFacts ==
  ASSUME NEW r \in Cache, NEW P, NEW F, Listed(r, P, F), NEW p \in Page, NEW s,
         s.free = 0 => p \notin P
  PROVE  LET t == AfterFree(r, p, s) IN
         /\ t \in Cache /\ SameShape(r, t) /\ t.active = r.active - 1 /\ t.slabs = r.slabs
         /\ Listed(t, IF s.free = 0 THEN P \union {p} ELSE P, IF s.free = 0 THEN F \ {p} ELSE F)
<1>. DEFINE t == AfterFree(r, p, s)
<1>. PICK a, x, y : /\ a = r.active - 1
                    /\ x = IF s.free = 0 THEN RemoveFirst(r.full, p) ELSE r.full
                    /\ y = IF s.free = 0 THEN <<p>> \o r.partial ELSE r.partial
  OBVIOUS
<1>1. /\ r.active \in Int /\ r.partial \in Seq(Page) /\ r.full \in Seq(Page)
      /\ r.size \in Nat /\ r.align \in Nat /\ r.order \in Order /\ r.objs \in Nat /\ r.slabs \in Nat
      /\ r = [size |-> r.size, align |-> r.align, order |-> r.order, objs |-> r.objs,
              partial |-> r.partial, full |-> r.full, active |-> r.active, slabs |-> r.slabs]
  BY DEF Cache
<1>2. t = [size |-> r.size, align |-> r.align, order |-> r.order, objs |-> r.objs,
           partial |-> y, full |-> x, active |-> a, slabs |-> r.slabs]
  <2>1. t = [[[r EXCEPT !.active = a] EXCEPT !.full = x] EXCEPT !.partial = y]
    BY <1>1 DEF AfterFree
  <2>. QED  BY <1>1, <2>1
<1>. HIDE DEF t
<1>3. x \in Seq(Page) /\ IsInjective(x) /\ ToSet(x) = IF s.free = 0 THEN F \ {p} ELSE F
  BY <1>1, RemoveFirstFacts DEF Listed
<1>4. y \in Seq(Page) /\ IsInjective(y) /\ ToSet(y) = IF s.free = 0 THEN P \union {p} ELSE P
  <2>1. PICK l, m : l = r.partial /\ m = <<p>> \o l
    OBVIOUS
  <2>2. l \in Seq(Page) /\ IsInjective(l) /\ ToSet(l) = P
    BY <1>1, <2>1 DEF Listed
  <2>3. m \in Seq(Page) /\ ToSet(m) = P \union {p} /\ (p \notin P => IsInjective(m))
    BY <2>1, <2>2, PrependFacts
  <2>. QED  BY <2>1, <2>2, <2>3
<1>5. t \in Cache
  BY <1>1, <1>2, <1>3, <1>4 DEF Cache
<1>6. SameShape(r, t) /\ t.active = r.active - 1 /\ t.slabs = r.slabs
  BY <1>2 DEF SameShape
<1>7. Listed(t, IF s.free = 0 THEN P \union {p} ELSE P, IF s.free = 0 THEN F \ {p} ELSE F)
  BY <1>2, <1>3, <1>4 DEF Listed
<1>. QED  BY <1>5, <1>6, <1>7 DEF t

(* kSlabGrow puts the new slab in front of the partial list.               *)
LEMMA AfterGrowFacts ==
  ASSUME NEW r \in Cache, NEW P, NEW F, Listed(r, P, F), NEW p \in Page, p \notin P
  PROVE  LET t == AfterGrow(r, p) IN
         /\ t \in Cache /\ SameShape(r, t) /\ t.active = r.active /\ t.slabs = r.slabs + 1
         /\ Listed(t, P \union {p}, F)
<1>. DEFINE t == AfterGrow(r, p)
<1>. PICK a, x : a = r.slabs + 1 /\ x = <<p>> \o r.partial
  OBVIOUS
<1>1. /\ r.active \in Int /\ r.partial \in Seq(Page) /\ r.full \in Seq(Page)
      /\ r.size \in Nat /\ r.align \in Nat /\ r.order \in Order /\ r.objs \in Nat /\ r.slabs \in Nat
      /\ r = [size |-> r.size, align |-> r.align, order |-> r.order, objs |-> r.objs,
              partial |-> r.partial, full |-> r.full, active |-> r.active, slabs |-> r.slabs]
  BY DEF Cache
<1>2. t = [size |-> r.size, align |-> r.align, order |-> r.order, objs |-> r.objs,
           partial |-> x, full |-> r.full, active |-> r.active, slabs |-> a]
  <2>1. t = [[r EXCEPT !.partial = x] EXCEPT !.slabs = a]
    BY <1>1 DEF AfterGrow
  <2>. QED  BY <1>1, <2>1
<1>. HIDE DEF t
<1>3. x \in Seq(Page) /\ IsInjective(x) /\ ToSet(x) = P \union {p}
  BY <1>1, PrependFacts DEF Listed
<1>4. t \in Cache
  BY <1>1, <1>2, <1>3 DEF Cache
<1>5. SameShape(r, t) /\ t.active = r.active /\ t.slabs = r.slabs + 1
  BY <1>2 DEF SameShape
<1>6. Listed(t, P \union {p}, F)
  BY <1>2, <1>3 DEF Listed
<1>. QED  BY <1>4, <1>5, <1>6 DEF t
-----------------------------------------------------------------------------
(* Where the slabs and the blocks of a state lie.                          *)
LEMMA PageFacts ==
  ASSUME NEW p \in Page
  PROVE  p \in Nat /\ p # NoSlab /\ \A o \in Order : p \in Run(p, o)
<1>1. p \in Nat /\ p # NoSlab
  BY DEF Page, NoSlab
<1>2. ASSUME NEW o \in Order PROVE p \in Run(p, o)
  <2>1. PICK k : k = 2^o
    OBVIOUS
  <2>2. k \in Nat \ {0}
    BY <2>1, PowerFacts
  <2>3. p \in p .. p + k - 1
    BY <1>1, <2>2
  <2>. QED  BY <2>1, <2>3 DEF Run
<1>. QED  BY <1>1, <1>2

LEMMA SlabFacts ==
  ASSUME Typed, Geometry, RunsOwned, NEW p \in Slabs
  PROVE  /\ p \in Page /\ p \in Nat /\ slab[p].cache \in DOMAIN cache
         /\ CacheOf(p) \in Cache /\ Shaped(CacheOf(p))
         /\ slab[p] \in SlabRec(slab[p].cache, CacheOf(p).objs)
         /\ owner[p] = p /\ p \in taken
<1>1. p \in Page /\ slab[p].cache \in DOMAIN cache
  BY DEF Typed, Slabs
<1>2. CacheOf(p) \in Cache
  BY <1>1 DEF Typed, CacheOf
<1>3. Shaped(CacheOf(p))
  BY <1>1 DEF Geometry, CacheOf
<1>4. owner[p] = p
  <2>1. CacheOf(p).order \in Order
    BY <1>3 DEF Shaped
  <2>2. p \in Run(p, CacheOf(p).order)
    BY <1>1, <2>1, PageFacts
  <2>. QED  BY <2>2 DEF RunsOwned
<1>5. p \in taken
  BY <1>1, <1>4, PageFacts DEF RunsOwned
<1>6. slab[p] \in SlabRec(slab[p].cache, CacheOf(p).objs)
  BY DEF Typed
<1>. QED  BY <1>1, <1>2, <1>3, <1>4, <1>5, <1>6, PageFacts

(* Object i of slab p is found again as object i of slab p.                *)
LEMMA FoundAgain ==
  ASSUME NEW p \in Nat, NEW i \in 0 .. CacheOf(p).objs - 1, Shaped(CacheOf(p)),
         NEW x, x = At(p, CacheOf(p), i),
         \A q \in Run(p, CacheOf(p).order) : owner[q] = p
  PROVE  /\ x \in Nat /\ x \div PageSize \in Run(p, CacheOf(p).order)
         /\ SlabAt(x) = p /\ IndexOf(x) = i
<1>1. CacheOf(p).size \in Nat \ {0}
  BY DEF Shaped
<1>2. 0 \in 0 .. CacheOf(p).size - 1
  BY <1>1
<1>3. /\ At(p, CacheOf(p), i) \in Nat
      /\ (At(p, CacheOf(p), i) + 0) \div PageSize \in Run(p, CacheOf(p).order)
      /\ (At(p, CacheOf(p), i) - p * PageSize - Header(CacheOf(p).align)) \div CacheOf(p).size = i
  BY <1>2, AtFacts
<1>4. x \in Nat /\ x + 0 = x
  BY <1>3
<1>5. x \div PageSize \in Run(p, CacheOf(p).order)
  BY <1>3, <1>4
<1>6. SlabAt(x) = p
  BY <1>5 DEF SlabAt
<1>7. IndexOf(x) = i
  BY <1>3, <1>6 DEF IndexOf, CacheOf
<1>. QED  BY <1>4, <1>5, <1>6, <1>7

LEMMA BlockFacts ==
  ASSUME Typed, Geometry, RunsOwned, Blocks, NEW b \in live
  PROVE  /\ b[1] \in Nat /\ b[2] \in Nat \ {0} /\ Frame(b) \in Page /\ Frame(b) \in taken
         /\ SlabAt(b[1]) = owner[Frame(b)]
         /\ Whole(b) => IsRun(b) /\ Frame(b) \in RunOf(b) /\ order[Frame(b)] \in Order
         /\ ~Whole(b) => LET p == SlabAt(b[1]) IN
              /\ p \in Slabs /\ b[2] <= CacheOf(p).size
              /\ IndexOf(b[1]) \in 0 .. CacheOf(p).objs - 1
              /\ b[1] = At(p, CacheOf(p), IndexOf(b[1]))
<1>1. /\ b[1] \in Nat /\ b[2] \in Nat \ {0} /\ Frame(b) \in Page
      /\ IF Whole(b) THEN IsRun(b) ELSE IsObject(b)
  BY DEF Blocks, Typed
<1>2. SlabAt(b[1]) = owner[Frame(b)]
  BY DEF SlabAt, Frame
<1>3. order[Frame(b)] \in Order /\ owner[Frame(b)] \in Page \union {NoSlab}
  BY <1>1 DEF Typed
<1>4. Frame(b) \in RunOf(b)
  BY <1>1, <1>3, PageFacts DEF RunOf
<1>5. ASSUME Whole(b) PROVE IsRun(b) /\ Frame(b) \in taken
  BY <1>1, <1>4, <1>5 DEF IsRun
<1>6. ASSUME ~Whole(b)
      PROVE  LET p == SlabAt(b[1]) IN
             /\ Frame(b) \in taken /\ p \in Slabs /\ b[2] <= CacheOf(p).size
             /\ IndexOf(b[1]) \in 0 .. CacheOf(p).objs - 1
             /\ b[1] = At(p, CacheOf(p), IndexOf(b[1]))
  <2>1. PICK p : p = SlabAt(b[1])
    OBVIOUS
  <2>2. p \in Slabs /\ Frame(b) \in taken
    BY <1>1, <1>2, <1>6, <2>1 DEF RunsOwned, Whole
  <2>3. PICK i \in 0 .. CacheOf(p).objs - 1 : b[1] = At(p, CacheOf(p), i)
    BY <1>1, <1>6, <2>1 DEF IsObject
  <2>4. p \in Nat /\ Shaped(CacheOf(p))
    BY <2>2, SlabFacts
  <2>5. \A q \in Run(p, CacheOf(p).order) : owner[q] = p
    BY <2>2 DEF RunsOwned
  <2>6. IndexOf(b[1]) = i
    BY <2>3, <2>4, <2>5, FoundAgain
  <2>7. b[2] <= CacheOf(p).size
    BY <1>1, <1>6, <2>1 DEF IsObject
  <2>. QED  BY <2>1, <2>2, <2>3, <2>6, <2>7
<1>. QED  BY <1>1, <1>2, <1>3, <1>4, <1>5, <1>6
(* The frames of k frames' addresses from frame p on.                      *)
LEMMA FramesOf ==
  ASSUME NEW p \in Nat, NEW o \in Order, NEW w \in p * PageSize .. (p + 2^o) * PageSize - 1
  PROVE  w \div PageSize \in Run(p, o)
<1>. PICK k : k = 2^o
  OBVIOUS
<1>1. k \in Nat \ {0} /\ p * PageSize \in Nat /\ k * PageSize \in Nat
  BY PowerFacts
<1>2. (p + k) * PageSize = p * PageSize + k * PageSize
  BY <1>1
<1>3. PICK y : y = w - p * PageSize
  OBVIOUS
<1>4. y \in Nat /\ y < k * PageSize /\ p * PageSize + y = w
  BY <1>1, <1>2, <1>3
<1>5. (p * PageSize + y) \div PageSize \in p .. p + k - 1
  BY <1>1, <1>4, InFrames
<1>. QED  BY <1>4, <1>5 DEF Run

LEMMA WordFacts ==
  ASSUME Typed, Geometry, RunsOwned, Blocks, NEW b \in live, NEW w \in Words(b)
  PROVE  /\ w \in Nat /\ owner[w \div PageSize] = owner[Frame(b)]
         /\ Whole(b) => /\ w \div PageSize \in RunOf(b)
                        /\ w \in b[1] .. b[1] + 2^order[Frame(b)] * PageSize - 1
         /\ ~Whole(b) => LET p == SlabAt(b[1]) IN
              /\ w \in p * PageSize .. (p + 2^CacheOf(p).order) * PageSize - 1
              /\ w - b[1] \in 0 .. CacheOf(p).size - 1
<1>1. /\ b[1] \in Nat /\ b[2] \in Nat \ {0} /\ Frame(b) \in Page /\ Frame(b) \in Nat
      /\ SlabAt(b[1]) = owner[Frame(b)]
  BY BlockFacts, PageFacts
<1>2. PICK y : y = w - b[1]
  OBVIOUS
<1>3. y \in 0 .. b[2] - 1 /\ y \in Nat /\ b[1] + y = w /\ w \in Nat
  BY <1>1, <1>2 DEF Words
<1>4. ASSUME Whole(b)
      PROVE  /\ w \div PageSize \in RunOf(b)
             /\ w \in b[1] .. b[1] + 2^order[Frame(b)] * PageSize - 1
             /\ owner[w \div PageSize] = owner[Frame(b)]
  <2>1. /\ b[1] = Frame(b) * PageSize /\ b[2] <= 2^order[Frame(b)] * PageSize
        /\ order[Frame(b)] \in Order
    BY <1>4, BlockFacts DEF IsRun
  <2>. PICK k, m : k = 2^order[Frame(b)] /\ m = k * PageSize
    OBVIOUS
  <2>2. k \in Nat \ {0} /\ m \in Nat
    BY <2>1, PowerFacts
  <2>3. y < m
    BY <1>1, <1>3, <2>1, <2>2
  <2>4. (Frame(b) * PageSize + y) \div PageSize \in Frame(b) .. Frame(b) + k - 1
    BY <1>1, <1>3, <2>2, <2>3, InFrames
  <2>5. w \div PageSize \in RunOf(b)
    BY <1>3, <2>1, <2>4 DEF RunOf, Run
  <2>6. w \in b[1] .. b[1] + m - 1
    BY <1>1, <1>3, <2>2, <2>3
  <2>7. owner[w \div PageSize] = NoSlab /\ owner[Frame(b)] = NoSlab
    BY <1>1, <1>4, <2>5, BlockFacts DEF IsRun, Whole
  <2>. QED  BY <2>5, <2>6, <2>7
<1>5. ASSUME ~Whole(b)
      PROVE  LET p == SlabAt(b[1]) IN
             /\ w \in p * PageSize .. (p + 2^CacheOf(p).order) * PageSize - 1
             /\ w - b[1] \in 0 .. CacheOf(p).size - 1
             /\ owner[w \div PageSize] = owner[Frame(b)]
  <2>1. PICK p, i : p = SlabAt(b[1]) /\ i = IndexOf(b[1])
    OBVIOUS
  <2>2. /\ p \in Slabs /\ b[2] <= CacheOf(p).size /\ i \in 0 .. CacheOf(p).objs - 1
        /\ b[1] = At(p, CacheOf(p), i)
    BY <1>5, <2>1, BlockFacts
  <2>3. p \in Nat /\ Shaped(CacheOf(p)) /\ CacheOf(p).size \in Nat
    BY <2>2, SlabFacts DEF Shaped
  <2>4. y \in 0 .. CacheOf(p).size - 1
    BY <1>1, <1>3, <2>2, <2>3
  <2>5. /\ (At(p, CacheOf(p), i) + y) \div PageSize \in Run(p, CacheOf(p).order)
        /\ At(p, CacheOf(p), i) + y \in p * PageSize .. (p + 2^CacheOf(p).order) * PageSize - 1
    BY <2>2, <2>3, <2>4, AtFacts
  <2>6. owner[w \div PageSize] = p
    BY <1>3, <2>2, <2>5 DEF RunsOwned
  <2>. QED  BY <1>1, <1>2, <1>3, <2>1, <2>2, <2>4, <2>5, <2>6
<1>. QED  BY <1>3, <1>4, <1>5

LEMMA ApartInv == IInv => BlocksApart
<1>. SUFFICES ASSUME Typed, Geometry, RunsOwned, Blocks PROVE BlocksApart
  BY DEF IInv
<1>1. ASSUME NEW a \in live, NEW b \in live, NEW w \in Words(a), w \in Words(b) PROVE a = b
  <2>1. owner[Frame(a)] = owner[Frame(b)]
    BY <1>1, WordFacts
  <2>2. SlabAt(a[1]) = SlabAt(b[1])
    BY <2>1, BlockFacts
  <2>3. CASE Whole(a)
    <3>1. Whole(b)
      BY <2>2, <2>3 DEF Whole
    <3>2. w \div PageSize \in RunOf(a) \cap RunOf(b)
      BY <1>1, <2>3, <3>1, WordFacts
    <3>. QED  BY <2>3, <3>1, <3>2 DEF Blocks
  <2>4. CASE ~Whole(a)
    <3>1. ~Whole(b)
      BY <2>2, <2>4 DEF Whole
    <3>2. PICK p, i, j : p = SlabAt(a[1]) /\ i = IndexOf(a[1]) /\ j = IndexOf(b[1])
      OBVIOUS
    <3>3. /\ p \in Slabs /\ i \in 0 .. CacheOf(p).objs - 1 /\ a[1] = At(p, CacheOf(p), i)
          /\ j \in 0 .. CacheOf(p).objs - 1 /\ b[1] = At(p, CacheOf(p), j)
      BY <2>2, <2>4, <3>1, <3>2, BlockFacts
    <3>4. p \in Nat /\ Shaped(CacheOf(p))
      BY <3>3, SlabFacts
    <3>5. PICK u, v : u = w - a[1] /\ v = w - b[1]
      OBVIOUS
    <3>6. u \in 0 .. CacheOf(p).size - 1 /\ v \in 0 .. CacheOf(p).size - 1
      BY <1>1, <2>2, <2>4, <3>1, <3>2, <3>5, WordFacts
    <3>7. a[1] + u = b[1] + v
      <4>1. a[1] \in Nat /\ b[1] \in Nat /\ w \in Nat
        BY <1>1, BlockFacts, WordFacts
      <4>. QED  BY <3>5, <4>1
    <3>8. i = j
      BY <3>3, <3>4, <3>6, <3>7, ObjectsApart
    <3>. QED  BY <3>3, <3>8 DEF Blocks
  <2>. QED  BY <2>3, <2>4
<1>2. ASSUME NEW p \in Slabs, NEW b \in live,
             NEW w \in p * PageSize .. (p + 2^CacheOf(p).order) * PageSize - 1, w \in Words(b)
      PROVE  /\ b \in Objects(p)
             /\ Words(b) \subseteq p * PageSize .. (p + 2^CacheOf(p).order) * PageSize - 1
             /\ b[1] >= p * PageSize + HeaderSize /\ b[1] % CacheOf(p).align = 0
  <2>1. p \in Nat /\ p # NoSlab /\ Shaped(CacheOf(p)) /\ CacheOf(p).order \in Order
    BY SlabFacts, PageFacts DEF Shaped
  <2>2. w \div PageSize \in Run(p, CacheOf(p).order)
    BY <2>1, FramesOf
  <2>3. owner[w \div PageSize] = p
    BY <2>2 DEF RunsOwned
  <2>4. owner[Frame(b)] = p /\ SlabAt(b[1]) = p /\ ~Whole(b)
    BY <1>2, <2>1, <2>3, BlockFacts, WordFacts DEF Whole
  <2>5. b \in Objects(p)
    BY <2>4 DEF Objects, Frame
  <2>6. Words(b) \subseteq p * PageSize .. (p + 2^CacheOf(p).order) * PageSize - 1
    BY <2>4, WordFacts
  <2>7. PICK i \in 0 .. CacheOf(p).objs - 1 : b[1] = At(p, CacheOf(p), i)
    BY <2>4, BlockFacts
  <2>8. 0 \in 0 .. CacheOf(p).size - 1
    BY <2>1 DEF Shaped
  <2>9. p * PageSize + HeaderSize <= At(p, CacheOf(p), i) /\ At(p, CacheOf(p), i) % CacheOf(p).align = 0
    BY <2>1, <2>8, AtFacts
  <2>10. At(p, CacheOf(p), i) \in Nat /\ p * PageSize + HeaderSize \in Nat
    BY <2>1, <2>7, BlockFacts
  <2>. QED  BY <2>5, <2>6, <2>7, <2>9, <2>10
<1>. QED  BY <1>1, <1>2 DEF BlocksApart, CacheOf
LEMMA OwnersInv == IInv => OwnersFound
<1>. SUFFICES ASSUME Typed, Geometry, RunsOwned, Blocks PROVE OwnersFound
  BY DEF IInv
<1>1. \A p \in Slabs : \A q \in Run(p, cache[slab[p].cache].order) : owner[q] = p
  BY DEF RunsOwned, CacheOf
<1>2. ASSUME NEW b \in live, SlabAt(b[1]) = NoSlab
      PROVE  Words(b) \subseteq b[1] .. b[1] + 2^order[b[1] \div PageSize] * PageSize - 1
  BY <1>2, WordFacts DEF Whole, Frame
<1>. DEFINE S == {Run(p, cache[slab[p].cache].order) : p \in Slabs}
            W == {b \in live : SlabAt(b[1]) = NoSlab}
            R == {Run(b[1] \div PageSize, order[b[1] \div PageSize]) : b \in W}
<1>3. ASSUME NEW q \in taken PROVE q \in UNION (S \union R)
  <2>1. q \in Page
    BY DEF Typed
  <2>2. CASE owner[q] = NoSlab
    <3>1. PICK b \in live : Whole(b) /\ q \in RunOf(b)
      BY <2>2 DEF Blocks
    <3>. QED  BY <3>1 DEF Whole, RunOf, Frame
  <2>3. CASE owner[q] # NoSlab
    <3>1. owner[q] \in Slabs /\ q \in Run(owner[q], CacheOf(owner[q]).order)
      BY <2>1, <2>3 DEF RunsOwned
    <3>. QED  BY <3>1 DEF CacheOf
  <2>. QED  BY <2>2, <2>3
<1>4. ASSUME NEW q \in UNION (S \union R) PROVE q \in taken
  <2>1. CASE \E p \in Slabs : q \in Run(p, CacheOf(p).order)
    <3>1. PICK p \in Slabs : q \in Run(p, CacheOf(p).order)
      BY <2>1
    <3>2. q \in Page /\ owner[q] = p /\ p # NoSlab
      BY <3>1, SlabFacts, PageFacts DEF RunsOwned
    <3>. QED  BY <3>2 DEF RunsOwned
  <2>2. CASE \E b \in W : q \in RunOf(b)
    <3>1. PICK b \in live : Whole(b) /\ q \in RunOf(b)
      BY <2>2 DEF Whole
    <3>. QED  BY <3>1, BlockFacts DEF IsRun
  <2>. QED  BY <1>4, <2>1, <2>2 DEF CacheOf, RunOf, Frame
<1>5. taken = UNION (S \union R)
  BY <1>3, <1>4
<1>. QED  BY <1>1, <1>2, <1>5 DEF OwnersFound
(* The chain of ChainsExact, followed from first, is the one of ChainOver. *)
LEMMA VisitedFacts ==
  ASSUME NEW s, NEW n \in Nat, s.free = n, NEW f, IsChain(f, s)
  PROVE  \A k \in 0 .. n : Visited(s)[k] = IF k = n THEN NoFree ELSE f[k + 1]
<1>. DEFINE h == [k \in 0 .. n |-> IF k = n THEN NoFree ELSE f[k + 1]]
            v == Visited(s)
<1>1. h = [k \in 0 .. n |-> IF k = 0 THEN s.first ELSE s.next[h[k - 1]]]
  <2>1. ASSUME NEW k \in 0 .. n
        PROVE  (IF k = n THEN NoFree ELSE f[k + 1]) = (IF k = 0 THEN s.first ELSE s.next[h[k - 1]])
    <3>1. CASE k = 0
      BY <3>1 DEF IsChain
    <3>2. CASE k # 0
      <4>1. k \in 1 .. n /\ k - 1 \in 0 .. n /\ k - 1 # n /\ (k - 1) + 1 = k
        BY <3>2
      <4>2. h[k - 1] = f[k]
        BY <4>1
      <4>3. s.next[f[k]] = (IF k = n THEN NoFree ELSE f[k + 1])
        BY <4>1, SMTT(30) DEF IsChain
      <4>. QED  BY <3>2, <4>2, <4>3
    <3>. QED  BY <3>1, <3>2
  <2>. QED  BY <2>1
<1>2. v = [k \in 0 .. n |-> IF k = 0 THEN s.first ELSE s.next[v[k - 1]]]
  <2>. HIDE DEF h
  <2>1. v = CHOOSE g : g = [k \in 0 .. n |-> IF k = 0 THEN s.first ELSE s.next[g[k - 1]]]
    BY DEF Visited
  <2>. HIDE DEF v
  <2>. QED  BY <1>1, <2>1
<1>. HIDE DEF v
<1>3. \A k \in 0 .. n : v[k] = h[k]
  <2>. DEFINE T == {k \in 0 .. n : v[k] # h[k]}
  <2>. SUFFICES ASSUME T # {} PROVE FALSE
    OBVIOUS
  <2>1. T \subseteq Nat
    OBVIOUS
  <2>2. PICK k \in T : \A j \in T : k <= j
    BY <2>1, LeastMember
  <2>. HIDE DEF h
  <2>3. v[0] = s.first /\ h[0] = s.first
    <3>1. 0 \in 0 .. n
      OBVIOUS
    <3>. QED  BY <1>1, <1>2, <3>1
  <2>4. k # 0 /\ k \in 0 .. n
    BY <2>3
  <2>5. k - 1 \in 0 .. n /\ ~(k <= k - 1)
    BY <2>4
  <2>6. v[k - 1] = h[k - 1]
    BY <2>2, <2>5
  <2>7. v[k] = s.next[v[k - 1]] /\ h[k] = s.next[h[k - 1]]
    BY <1>1, <1>2, <2>4
  <2>. QED  BY <2>2, <2>6, <2>7
<1>. QED  BY <1>3 DEF v
LEMMA ExactInv == IInv => SlabsExact
<1>. SUFFICES ASSUME IInv PROVE SlabsExact
  OBVIOUS
<1>. USE DEF IInv
<1>1. TypeOK
  <2>1. ASSUME NEW p \in Page, slab[p] # Nothing
        PROVE  LET s == slab[p] IN
               /\ s.cache \in DOMAIN cache /\ s.free \in 0 .. cache[s.cache].objs
               /\ s.first \in 0 .. cache[s.cache].objs - 1 \union {NoFree}
               /\ s.next \in [0 .. cache[s.cache].objs - 1 -> -1 .. cache[s.cache].objs - 1]
    <3>1. p \in Slabs
      BY <2>1 DEF Slabs
    <3>2. slab[p].cache \in DOMAIN cache /\ slab[p] \in SlabRec(slab[p].cache, CacheOf(p).objs)
      BY <3>1 DEF Typed
    <3>. QED  BY <3>2 DEF SlabRec, CacheOf
  <2>. QED  BY <2>1 DEF TypeOK, Typed
<1>2. ChainsExact
  <2>. SUFFICES ASSUME NEW p \in Slabs
                PROVE  LET s == slab[p]
                           Chain == {Visited(s)[k] : k \in 0 .. s.free - 1}
                       IN /\ Visited(s)[s.free] = NoFree
                          /\ Chain = DOMAIN s.next \ InUse(p)
                          /\ Cardinality(Chain) = s.free
    BY DEF ChainsExact
  <2>. PICK s, F : s = slab[p] /\ F = FreeObjects(p)
    OBVIOUS
  <2>. DEFINE C == {Visited(s)[k] : k \in 0 .. s.free - 1}
  <2>1. s.free \in Nat /\ DOMAIN s.next = 0 .. CacheOf(p).objs - 1
    BY SlabFacts DEF SlabRec
  <2>2. ChainOver(s, F)
    BY DEF Chains
  <2>3. PICK f \in [1 .. s.free -> F] : IsChain(f, s) /\ \A i \in F : \E k \in 1 .. s.free : f[k] = i
    BY <2>2 DEF ChainOver
  <2>4. \A k \in 0 .. s.free : Visited(s)[k] = IF k = s.free THEN NoFree ELSE f[k + 1]
    <3>1. PICK n : n = s.free
      OBVIOUS
    <3>2. n \in Nat /\ s.free = n /\ IsChain(f, s)
      BY <2>1, <2>3, <3>1
    <3>3. \A k \in 0 .. n : Visited(s)[k] = IF k = n THEN NoFree ELSE f[k + 1]
      BY <3>2, VisitedFacts
    <3>. QED  BY <3>1, <3>3
  <2>5. Visited(s)[s.free] = NoFree
    BY <2>1, <2>4
  <2>6. ASSUME NEW k \in 0 .. s.free - 1 PROVE Visited(s)[k] = f[k + 1] /\ k + 1 \in 1 .. s.free
    BY <2>1, <2>4
  <2>7. C \subseteq F
    BY <2>3, <2>6
  <2>8. ASSUME NEW i \in F PROVE i \in C
    <3>1. PICK k \in 1 .. s.free : f[k] = i
      BY <2>3
    <3>2. k - 1 \in 0 .. s.free - 1 /\ (k - 1) + 1 = k
      BY <2>1
    <3>. QED  BY <2>6, <3>1, <3>2
  <2>9. C = F
    BY <2>7, <2>8
  <2>10. F = DOMAIN s.next \ InUse(p)
    BY <2>1 DEF FreeObjects
  <2>11. Cardinality(F) = s.free
    BY <2>1, <2>2, ChainCount
  <2>. QED  BY <2>5, <2>9, <2>10, <2>11
<1>3. ListsExact
  BY DEF ListsExact, Lists, ListsOf, OwnSlabs, Active
<1>. QED  BY <1>1, <1>2, <1>3 DEF SlabsExact
-----------------------------------------------------------------------------
(* What every step keeps: the shape of a cache, the cache of a slab, and   *)
(* what the page_t of a frame that is taken says.                          *)
Kept ==
  /\ \A c \in DOMAIN cache : c \in DOMAIN cache' /\ SameShape(cache[c], cache'[c])
  /\ \A p \in Slabs : slab'[p] # Nothing /\ slab'[p].cache = slab[p].cache
  /\ \A q \in taken : owner'[q] = owner[q] /\ order'[q] = order[q]

LEMMA KeptFacts ==
  ASSUME Typed, Geometry, RunsOwned, Blocks, Kept
  PROVE  /\ \A p \in Slabs : p \in Slabs' /\ SameShape(CacheOf(p), CacheOf(p)')
         /\ \A b \in live :
              /\ SlabAt(b[1])' = SlabAt(b[1]) /\ (Whole(b)' <=> Whole(b))
              /\ order'[Frame(b)] = order[Frame(b)] /\ RunOf(b)' = RunOf(b)
              /\ ~Whole(b) => IsObject(b)' /\ IndexOf(b[1])' = IndexOf(b[1])
<1>1. ASSUME NEW p \in Slabs PROVE p \in Slabs' /\ SameShape(CacheOf(p), CacheOf(p)')
  BY SlabFacts DEF Kept, Slabs, CacheOf
<1>2. ASSUME NEW b \in live
      PROVE  /\ SlabAt(b[1])' = SlabAt(b[1]) /\ (Whole(b)' <=> Whole(b))
             /\ order'[Frame(b)] = order[Frame(b)] /\ RunOf(b)' = RunOf(b)
             /\ ~Whole(b) => IsObject(b)' /\ IndexOf(b[1])' = IndexOf(b[1])
  <2>1. owner'[Frame(b)] = owner[Frame(b)] /\ order'[Frame(b)] = order[Frame(b)]
    BY BlockFacts DEF Kept
  <2>2. SlabAt(b[1])' = SlabAt(b[1])
    BY <2>1 DEF SlabAt, Frame
  <2>3. Whole(b)' <=> Whole(b)
    BY <2>2 DEF Whole
  <2>4. RunOf(b)' = RunOf(b)
    BY <2>1 DEF RunOf, Frame
  <2>5. ASSUME ~Whole(b) PROVE IsObject(b)' /\ IndexOf(b[1])' = IndexOf(b[1])
    <3>1. PICK p : p = SlabAt(b[1])
      OBVIOUS
    <3>2. /\ p \in Slabs /\ b[2] <= CacheOf(p).size
          /\ \E i \in 0 .. CacheOf(p).objs - 1 : b[1] = At(p, CacheOf(p), i)
      BY <2>5, <3>1, BlockFacts
    <3>3. SameShape(CacheOf(p), CacheOf(p)')
      BY <1>1, <3>2
    <3>4. IsObject(b)'
      BY <2>2, <3>1, <3>2, <3>3 DEF IsObject, SameShape, At
    <3>5. IndexOf(b[1])' = IndexOf(b[1])
      BY <2>2, <3>1, <3>3 DEF IndexOf, SameShape, CacheOf
    <3>. QED  BY <3>4, <3>5
  <2>. QED  BY <2>1, <2>2, <2>3, <2>4, <2>5
<1>. QED  BY <1>1, <1>2

(* The objects that callers hold of the caches, as kSlabInfo counts them.  *)
ActiveOf(c) == {b \in live : ~Whole(b) /\ slab[SlabAt(b[1])].cache = c}

LEMMA ActiveIs ==
  Typed /\ Geometry /\ RunsOwned /\ Blocks => \A c \in Nat : Active(c) = ActiveOf(c)
<1>. SUFFICES ASSUME Typed, Geometry, RunsOwned, Blocks, NEW c \in Nat PROVE Active(c) = ActiveOf(c)
  OBVIOUS
<1>1. ASSUME NEW b \in Active(c) PROVE b \in ActiveOf(c)
  <2>1. PICK p \in OwnSlabs(c) : b \in Objects(p)
    BY <1>1 DEF Active
  <2>2. p \in Slabs /\ slab[p].cache = c /\ b \in live /\ SlabAt(b[1]) = p
    BY <2>1 DEF OwnSlabs, Objects, SlabAt
  <2>3. ~Whole(b)
    BY <2>2, SlabFacts, PageFacts DEF Whole
  <2>. QED  BY <2>2, <2>3 DEF ActiveOf
<1>2. ASSUME NEW b \in ActiveOf(c) PROVE b \in Active(c)
  <2>1. b \in live /\ ~Whole(b) /\ slab[SlabAt(b[1])].cache = c
    BY <1>2 DEF ActiveOf
  <2>2. SlabAt(b[1]) \in OwnSlabs(c)
    BY <2>1, BlockFacts DEF OwnSlabs
  <2>3. b \in Objects(SlabAt(b[1]))
    BY <2>1 DEF Objects, SlabAt
  <2>. QED  BY <2>2, <2>3 DEF Active
<1>. QED  BY <1>1, <1>2

LEMMA ActiveIsNext ==
  (Typed /\ Geometry /\ RunsOwned /\ Blocks => \A c \in Nat : Active(c) = ActiveOf(c))'
BY ActiveIs, PTL

(* The objects of the caches that a step leaves with their callers.        *)
LEMMA ActiveKept ==
  ASSUME Typed, Geometry, RunsOwned, Blocks, Kept, NEW c \in Nat
  PROVE  /\ IsFiniteSet(ActiveOf(c))
         /\ \A b \in live : b \in live' => (b \in ActiveOf(c)' <=> b \in ActiveOf(c))
<1>1. ActiveOf(c) \in SUBSET live /\ IsFiniteSet(live)
  BY DEF ActiveOf, Typed
<1>2. IsFiniteSet(ActiveOf(c))
  BY <1>1, FS_Subset
<1>3. ASSUME NEW b \in live, b \in live' PROVE b \in ActiveOf(c)' <=> b \in ActiveOf(c)
  <2>1. SlabAt(b[1])' = SlabAt(b[1]) /\ (Whole(b)' <=> Whole(b))
    BY KeptFacts
  <2>2. ~Whole(b) => slab'[SlabAt(b[1])].cache = slab[SlabAt(b[1])].cache
    BY BlockFacts DEF Kept
  <2>. QED  BY <1>3, <2>1, <2>2 DEF ActiveOf
<1>. QED  BY <1>2, <1>3
LEMMA RunKept ==
  ASSUME Typed, Geometry, RunsOwned, Blocks, Kept, NEW b \in live, Whole(b), RunOf(b) \subseteq taken'
  PROVE  IsRun(b)'
<1>1. /\ b[1] = Frame(b) * PageSize /\ b[2] <= 2^order[Frame(b)] * PageSize
      /\ \A q \in RunOf(b) : q \in taken /\ owner[q] = NoSlab
  BY BlockFacts DEF IsRun
<1>2. order'[Frame(b)] = order[Frame(b)] /\ RunOf(b)' = RunOf(b)
  BY KeptFacts
<1>3. \A q \in RunOf(b)' : q \in taken' /\ owner'[q] = NoSlab
  BY <1>1, <1>2 DEF Kept
<1>4. b[1] = Frame(b)' * PageSize /\ b[2] <= 2^order'[Frame(b)] * PageSize
  BY <1>1, <1>2 DEF Frame
<1>. QED  BY <1>3, <1>4 DEF IsRun, Frame

(* A caller gets object i of slab p, old or new.                           *)
LEMMA ObjectAdded ==
  ASSUME Typed, Geometry, RunsOwned, Blocks, Kept, taken \subseteq taken',
         \A q \in taken' : owner'[q] = NoSlab => q \in taken,
         NEW p \in Page, NEW r, r = CacheOf(p)', Shaped(r),
         \A q \in Run(p, r.order) : q \in Page /\ owner'[q] = p,
         NEW i \in 0 .. r.objs - 1, NEW n \in Nat \ {0}, n <= r.size,
         \A a \in live : owner[Frame(a)] = p => IndexOf(a[1]) # i,
         NEW b, b = <<At(p, r, i), n>>, live' = live \union {b}
  PROVE  /\ Blocks' /\ b \in Nat \X Nat /\ b \notin live
         /\ SlabAt(b[1])' = p /\ ~Whole(b)'
         /\ \A q \in Page : InUse(q)' = IF q = p THEN InUse(q) \union {i} ELSE InUse(q)
<1>. PICK x : x = b[1]
  OBVIOUS
<1>1. r.size \in Nat \ {0} /\ p \in Nat /\ p # NoSlab
  BY PageFacts DEF Shaped
<1>2. /\ x \in Nat /\ x \div PageSize \in Run(p, r.order)
      /\ (x - p * PageSize - Header(r.align)) \div r.size = i
  <2>1. 0 \in 0 .. r.size - 1
    BY <1>1
  <2>2. /\ At(p, r, i) \in Nat /\ (At(p, r, i) + 0) \div PageSize \in Run(p, r.order)
        /\ (At(p, r, i) - p * PageSize - Header(r.align)) \div r.size = i
    BY <1>1, <2>1, AtFacts, SMTT(30)
  <2>3. x = At(p, r, i) /\ x + 0 = x
    BY <2>2
  <2>. QED  BY <2>2, <2>3
<1>3. Frame(b) \in Page /\ owner'[Frame(b)] = p
  BY <1>2 DEF Frame
<1>4. SlabAt(b[1])' = p /\ ~Whole(b)'
  BY <1>1, <1>3 DEF SlabAt, Whole, Frame
<1>5. IndexOf(b[1])' = i
  BY <1>2, <1>4 DEF IndexOf, CacheOf
<1>6. IsObject(b)'
  <2>1. b[1] = At(p, r, i) /\ b[2] <= r.size
    OBVIOUS
  <2>2. b[1] = At(p, CacheOf(p)', i) /\ b[2] <= CacheOf(p)'.size /\ i \in 0 .. CacheOf(p)'.objs - 1
    BY <2>1, SMTT(30)
  <2>. QED  BY <1>4, <2>2 DEF IsObject, At
<1>7. ASSUME NEW a \in live, a[1] = b[1] PROVE FALSE
  <2>1. SlabAt(a[1]) = p
    BY <1>4, <1>7, KeptFacts
  <2>2. ~Whole(a) /\ owner[Frame(a)] = p
    BY <1>1, <2>1, BlockFacts DEF Whole
  <2>3. IndexOf(a[1])' = IndexOf(a[1])
    BY <2>2, KeptFacts
  <2>. QED  BY <1>5, <1>7, <2>2, <2>3
<1>8. b \notin live /\ b \in Nat \X Nat
  BY <1>2, <1>7
<1>9. Blocks'
  <2>1. ASSUME NEW a \in live'
        PROVE  Frame(a) \in Page /\ 0 < a[2] /\ IF Whole(a)' THEN IsRun(a)' ELSE IsObject(a)'
    <3>1. CASE a = b
      BY <1>3, <1>4, <1>6, <3>1
    <3>2. CASE a \in live
      <4>1. Frame(a) \in Page /\ a[2] \in Nat \ {0}
        BY <3>2, BlockFacts
      <4>2. ASSUME Whole(a) PROVE IsRun(a)'
        <5>1. RunOf(a) \subseteq taken'
          BY <3>2, <4>2, BlockFacts DEF IsRun
        <5>. QED  BY <3>2, <4>2, <5>1, RunKept
      <4>3. (Whole(a)' <=> Whole(a)) /\ (~Whole(a) => IsObject(a)')
        BY <3>2, KeptFacts
      <4>. QED  BY <4>1, <4>2, <4>3
    <3>. QED  BY <3>1, <3>2
  <2>2. ASSUME NEW a \in live', NEW d \in live', a[1] = d[1] PROVE a = d
    BY <1>7, <2>2 DEF Blocks
  <2>3. ASSUME NEW a \in live', NEW d \in live', Whole(a)', Whole(d)', a # d
        PROVE  RunOf(a)' \cap RunOf(d)' = {}
    <3>1. a \in live /\ d \in live
      BY <1>4, <2>3
    <3>2. Whole(a) /\ Whole(d) /\ RunOf(a)' = RunOf(a) /\ RunOf(d)' = RunOf(d)
      BY <2>3, <3>1, KeptFacts
    <3>. QED  BY <2>3, <3>1, <3>2 DEF Blocks
  <2>4. ASSUME NEW q \in taken', owner'[q] = NoSlab
        PROVE  \E a \in live' : Whole(a)' /\ q \in RunOf(a)'
    <3>1. q \in taken /\ owner[q] = NoSlab
      BY <2>4 DEF Kept
    <3>2. PICK a \in live : Whole(a) /\ q \in RunOf(a)
      BY <3>1 DEF Blocks
    <3>3. Whole(a)' /\ RunOf(a)' = RunOf(a)
      BY <3>2, KeptFacts
    <3>. QED  BY <3>2, <3>3
  <2>5. \A a \in live' : Frame(a)' = Frame(a)
    BY DEF Frame
  <2>. QED  BY <2>1, <2>2, <2>3, <2>4, <2>5 DEF Blocks
<1>10. ASSUME NEW q \in Page PROVE InUse(q)' = IF q = p THEN InUse(q) \union {i} ELSE InUse(q)
  <2>1. q # NoSlab
    BY PageFacts
  <2>2. ASSUME NEW a \in live
        PROVE  /\ a \in Objects(q)' <=> a \in Objects(q)
               /\ a \in Objects(q) => IndexOf(a[1])' = IndexOf(a[1])
    <3>1. SlabAt(a[1])' = SlabAt(a[1]) /\ (~Whole(a) => IndexOf(a[1])' = IndexOf(a[1]))
      BY KeptFacts
    <3>2. a \in Objects(q)' <=> a \in Objects(q)
      BY <3>1 DEF Objects, SlabAt
    <3>3. a \in Objects(q) => ~Whole(a)
      BY <2>1 DEF Objects, Whole, SlabAt
    <3>. QED  BY <3>1, <3>2, <3>3
  <2>3. b \in Objects(q)' <=> q = p
    BY <1>4 DEF Objects, SlabAt
  <2>4. \A a \in Objects(q)' : a = b \/ a \in live
    BY DEF Objects
  <2>5. Objects(q) \subseteq live
    BY DEF Objects
  <2>6. ASSUME NEW j \in InUse(q)' PROVE j \in InUse(q) \/ (q = p /\ j = i)
    <3>1. PICK a \in Objects(q)' : j = IndexOf(a[1])'
      BY <2>6 DEF InUse
    <3>. QED  BY <1>5, <2>2, <2>3, <2>4, <3>1 DEF InUse
  <2>7. ASSUME NEW j \in InUse(q) PROVE j \in InUse(q)'
    <3>1. PICK a \in Objects(q) : j = IndexOf(a[1])
      BY <2>7 DEF InUse
    <3>2. a \in Objects(q)' /\ IndexOf(a[1])' = j
      BY <2>2, <2>5, <3>1
    <3>. QED  BY <3>2 DEF InUse
  <2>8. q = p => i \in InUse(q)'
    BY <1>5, <2>3 DEF InUse
  <2>. QED  BY <2>6, <2>7, <2>8
<1>. QED  BY <1>4, <1>8, <1>9, <1>10
(* A caller gives an object back.                                          *)
LEMMA ObjectRemoved ==
  ASSUME Typed, Geometry, RunsOwned, Blocks, Kept, taken' = taken,
         NEW b \in live, ~Whole(b), live' = live \ {b}
  PROVE  /\ Blocks' /\ IndexOf(b[1]) \in InUse(SlabAt(b[1]))
         /\ \A q \in Page : InUse(q)' = IF q = SlabAt(b[1]) THEN InUse(q) \ {IndexOf(b[1])} ELSE InUse(q)
<1>. PICK p, i : p = SlabAt(b[1]) /\ i = IndexOf(b[1])
  OBVIOUS
<1>1. p \in Slabs /\ b[1] = At(p, CacheOf(p), i) /\ b \in Objects(p)
  BY BlockFacts DEF Objects, SlabAt
<1>2. i \in InUse(p)
  BY <1>1 DEF InUse
<1>3. Blocks'
  <2>1. ASSUME NEW a \in live'
        PROVE  Frame(a) \in Page /\ 0 < a[2] /\ IF Whole(a)' THEN IsRun(a)' ELSE IsObject(a)'
    <3>1. a \in live /\ Frame(a) \in Page /\ a[2] \in Nat \ {0}
      BY BlockFacts
    <3>2. ASSUME Whole(a) PROVE IsRun(a)'
      <4>1. RunOf(a) \subseteq taken'
        BY <3>1, <3>2, BlockFacts DEF IsRun
      <4>. QED  BY <3>1, <3>2, <4>1, RunKept
    <3>3. (Whole(a)' <=> Whole(a)) /\ (~Whole(a) => IsObject(a)')
      BY <3>1, KeptFacts
    <3>. QED  BY <3>1, <3>2, <3>3
  <2>2. ASSUME NEW a \in live', NEW d \in live', a[1] = d[1] PROVE a = d
    BY <2>2 DEF Blocks
  <2>3. ASSUME NEW a \in live', NEW d \in live', Whole(a)', Whole(d)', a # d
        PROVE  RunOf(a)' \cap RunOf(d)' = {}
    <3>1. Whole(a) /\ Whole(d) /\ RunOf(a)' = RunOf(a) /\ RunOf(d)' = RunOf(d)
      BY <2>3, KeptFacts
    <3>. QED  BY <2>3, <3>1 DEF Blocks
  <2>4. ASSUME NEW q \in taken', owner'[q] = NoSlab
        PROVE  \E a \in live' : Whole(a)' /\ q \in RunOf(a)'
    <3>1. q \in taken /\ owner[q] = NoSlab
      BY <2>4 DEF Kept
    <3>2. PICK a \in live : Whole(a) /\ q \in RunOf(a)
      BY <3>1 DEF Blocks
    <3>3. Whole(a)' /\ RunOf(a)' = RunOf(a) /\ a # b
      BY <3>2, KeptFacts
    <3>. QED  BY <3>2, <3>3
  <2>5. \A a \in live' : Frame(a)' = Frame(a)
    BY DEF Frame
  <2>. QED  BY <2>1, <2>2, <2>3, <2>4, <2>5 DEF Blocks
<1>4. ASSUME NEW q \in Page PROVE InUse(q)' = IF q = p THEN InUse(q) \ {i} ELSE InUse(q)
  <2>1. q # NoSlab
    BY PageFacts
  <2>2. Objects(q) \subseteq live
    BY DEF Objects
  <2>3. ASSUME NEW a \in Objects(q)
        PROVE  /\ a \in Objects(q)' <=> a # b
               /\ IndexOf(a[1])' = IndexOf(a[1]) /\ a \in live /\ ~Whole(a) /\ SlabAt(a[1]) = q
    <3>1. a \in live /\ SlabAt(a[1])' = SlabAt(a[1]) /\ (~Whole(a) => IndexOf(a[1])' = IndexOf(a[1]))
      BY <2>2, KeptFacts
    <3>2. a \in Objects(q)' <=> a # b
      BY <3>1 DEF Objects, SlabAt
    <3>3. ~Whole(a) /\ SlabAt(a[1]) = q
      BY <2>1 DEF Objects, Whole, SlabAt
    <3>. QED  BY <3>1, <3>2, <3>3
  <2>4. ASSUME NEW a \in Objects(q)' PROVE a \in Objects(q)
    <3>1. a \in live /\ SlabAt(a[1])' = q
      BY DEF Objects, SlabAt
    <3>2. SlabAt(a[1]) = q
      BY <3>1, KeptFacts
    <3>. QED  BY <3>1, <3>2 DEF Objects, SlabAt
  <2>5. ASSUME NEW j \in InUse(q)' PROVE j \in InUse(q) /\ (q = p => j # i)
    <3>1. PICK a \in Objects(q)' : j = IndexOf(a[1])'
      BY <2>5 DEF InUse
    <3>2. a \in Objects(q) /\ a # b /\ j = IndexOf(a[1]) /\ a \in live /\ ~Whole(a) /\ SlabAt(a[1]) = q
      BY <2>3, <2>4, <3>1
    <3>3. a[1] = At(q, CacheOf(q), j)
      BY <3>2, BlockFacts
    <3>4. q = p /\ j = i => a[1] = b[1]
      BY <1>1, <3>3
    <3>5. a[1] # b[1]
      BY <3>2 DEF Blocks
    <3>. QED  BY <3>2, <3>4, <3>5 DEF InUse
  <2>6. ASSUME NEW j \in InUse(q), q = p => j # i PROVE j \in InUse(q)'
    <3>1. PICK a \in Objects(q) : j = IndexOf(a[1])
      BY <2>6 DEF InUse
    <3>2. a # b
      <4>1. a = b => q = p
        BY <2>3
      <4>. QED  BY <2>6, <3>1, <4>1
    <3>3. a \in Objects(q)' /\ IndexOf(a[1])' = j
      BY <2>3, <3>1, <3>2
    <3>. QED  BY <3>3 DEF InUse
  <2>. QED  BY <2>5, <2>6
<1>. QED  BY <1>2, <1>3, <1>4

(* A step that writes one cache and leaves its shape.                      *)
LEMMA CacheChanged ==
  ASSUME Typed, Geometry, NEW c \in DOMAIN cache, NEW t \in Cache, SameShape(cache[c], t),
         cache' = [cache EXCEPT ![c] = t]
  PROVE  /\ cache' \in Seq(Cache) /\ Len(cache') = Len(cache) /\ DOMAIN cache' = DOMAIN cache
         /\ Geometry' /\ Shaped(t) /\ cache'[c] = t
         /\ \A d \in DOMAIN cache : /\ SameShape(cache[d], cache'[d])
                                    /\ d # c => cache'[d] = cache[d]
<1>1. cache \in Seq(Cache)
  BY DEF Typed
<1>2. cache' \in Seq(Cache) /\ Len(cache') = Len(cache) /\ DOMAIN cache' = DOMAIN cache
  BY <1>1
<1>3. \A d \in DOMAIN cache : cache'[d] = IF d = c THEN t ELSE cache[d]
  BY <1>1
<1>4. \A d \in DOMAIN cache : SameShape(cache[d], cache'[d])
  BY <1>3 DEF SameShape
<1>5. \A d \in DOMAIN cache : Shaped(cache'[d])
  BY <1>4 DEF Geometry, SameShape, Shaped
<1>6. Geometry'
  <2>1. ASSUME NEW k \in 0 .. MaxShift PROVE cache'[k + 1].size = 2^k
    <3>1. k + 1 \in DOMAIN cache
      <4>1. DOMAIN cache = 1 .. Len(cache) /\ Len(cache) \in Nat /\ MaxShift < Len(cache)
        BY <1>1 DEF Typed
      <4>. QED  BY <4>1
    <3>. QED  BY <1>4, <3>1 DEF Geometry, SameShape
  <2>. QED  BY <1>2, <1>5, <2>1 DEF Geometry
<1>. QED  BY <1>2, <1>3, <1>4, <1>5, <1>6
(* The lists of a cache that a step does not touch.                        *)
LEMMA ListsKept ==
  ASSUME NEW d, ListsOf(d), cache'[d] = cache[d], Active(d)' = Active(d),
         \A q : q \in OwnSlabs(d)' <=> q \in OwnSlabs(d),
         \A q \in OwnSlabs(d) : slab'[q] = slab[q]
  PROVE  ListsOf(d)'
<1>1. OwnSlabs(d)' = OwnSlabs(d)
  OBVIOUS
<1>2. \A q \in OwnSlabs(d) : slab'[q].free = slab[q].free
  OBVIOUS
<1>3. /\ {q \in OwnSlabs(d)' : slab'[q].free > 0} = {q \in OwnSlabs(d) : slab[q].free > 0}
      /\ {q \in OwnSlabs(d)' : slab'[q].free = 0} = {q \in OwnSlabs(d) : slab[q].free = 0}
  BY <1>1, <1>2
<1>. QED  BY <1>1, <1>3 DEF ListsOf

LEMMA NotNothing ==
  ASSUME Typed, NEW c \in DOMAIN cache, NEW s, s.cache = c
  PROVE  s # Nothing
<1>1. c \in Nat \ {0}
  BY DEF Typed
<1>2. Nothing.cache = 0
  BY DEF Nothing
<1>. QED  BY <1>1, <1>2

(* kKmemCacheAlloc, from a slab of the partial list or from a new one: s   *)
(* is the slab and r the cache before the object is taken.                 *)
LEMMA HandedOut ==
  ASSUME IInv, NEW c \in DOMAIN cache, NEW p \in Page, NEW s \in SlabRec(c, cache[c].objs), s.free > 0,
         p \in Slabs => slab[p] = s,
         ChainOver(s, (0 .. cache[c].objs - 1) \ InUse(p)),
         NEW r \in Cache, SameShape(cache[c], r), r.active = cache[c].active,
         r.slabs = Cardinality(OwnSlabs(c) \union {p}),
         Listed(r, {q \in OwnSlabs(c) : slab[q].free > 0} \union {p},
                   {q \in OwnSlabs(c) : slab[q].free = 0}),
         NEW n \in Nat \ {0}, n <= cache[c].size,
         slab' = [slab EXCEPT ![p] = Popped(s)],
         cache' = [cache EXCEPT ![c] = AfterAlloc(r, p, s)],
         live' = live \union {<<At(p, cache[c], s.first), n>>},
         owner' \in [Page -> Page \union {NoSlab}], order' \in [Page -> Order],
         taken \subseteq taken', taken' \subseteq Page,
         \A q \in taken : owner'[q] = owner[q] /\ order'[q] = order[q],
         \A q \in taken' : owner'[q] = NoSlab => q \in taken,
         \A q \in Run(p, cache[c].order) : q \in Page /\ owner'[q] = p,
         \A q \in Page \ taken : owner'[q] # NoSlab =>
           q \in taken' /\ owner'[q] = p /\ q \in Run(p, cache[c].order)
  PROVE  IInv'
<1>. PICK t, N, F, P, Q, b, i :
       /\ t = AfterAlloc(r, p, s) /\ N = cache[c].objs /\ F = (0 .. N - 1) \ InUse(p)
       /\ P = {q \in OwnSlabs(c) : slab[q].free > 0} \union {p}
       /\ Q = {q \in OwnSlabs(c) : slab[q].free = 0}
       /\ b = <<At(p, cache[c], s.first), n>> /\ i = s.first
  OBVIOUS
<1>0. Typed /\ Geometry /\ RunsOwned /\ Blocks /\ Chains /\ Lists
  BY DEF IInv
<1>1. Shaped(cache[c]) /\ N \in Nat \ {0} /\ s.cache = c /\ s.free \in Nat /\ c \in Nat
  <2>1. Shaped(cache[c]) /\ c \in Nat
    BY <1>0 DEF Geometry, Typed
  <2>2. N \in Nat \ {0}
    BY <2>1 DEF Shaped
  <2>3. s.cache = c /\ s.free \in Nat
    BY <2>2 DEF SlabRec
  <2>. QED  BY <2>1, <2>2, <2>3
<1>2. /\ i \in F /\ s.first = i /\ Popped(s) \in SlabRec(c, N) /\ Popped(s).cache = c
      /\ Popped(s).free = s.free - 1 /\ ChainOver(Popped(s), F \ {i})
  <2>1. /\ N \in Nat \ {0} /\ s \in SlabRec(c, N) /\ F \in SUBSET (0 .. N - 1)
        /\ ChainOver(s, F) /\ s.free > 0
    BY <1>1
  <2>2. /\ s.first \in F /\ Popped(s) \in SlabRec(c, N) /\ Popped(s).cache = c
        /\ Popped(s).free = s.free - 1 /\ ChainOver(Popped(s), F \ {s.first})
    BY ONLY <2>1, PoppedFacts
  <2>. QED  BY <2>2
<1>3. p \notin Q
  BY DEF OwnSlabs
<1>4. /\ t \in Cache /\ SameShape(r, t) /\ t.active = r.active + 1 /\ t.slabs = r.slabs
      /\ Listed(t, IF s.free = 1 THEN P \ {p} ELSE P, IF s.free = 1 THEN Q \union {p} ELSE Q)
  <2>1. p \in P /\ p \in Page /\ r \in Cache /\ Listed(r, P, Q)
    OBVIOUS
  <2>2. LET u == AfterAlloc(r, p, s) IN
        /\ u \in Cache /\ SameShape(r, u) /\ u.active = r.active + 1 /\ u.slabs = r.slabs
        /\ Listed(u, IF s.free = 1 THEN P \ {p} ELSE P, IF s.free = 1 THEN Q \union {p} ELSE Q)
    BY ONLY <1>3, <2>1, AfterAllocFacts
  <2>. QED  BY <2>2
<1>5. SameShape(cache[c], t)
  BY <1>4 DEF SameShape
<1>6. /\ cache' \in Seq(Cache) /\ Len(cache') = Len(cache) /\ DOMAIN cache' = DOMAIN cache
      /\ Geometry' /\ Shaped(t) /\ cache'[c] = t
      /\ \A d \in DOMAIN cache : /\ SameShape(cache[d], cache'[d])
                                 /\ d # c => cache'[d] = cache[d]
  <2>1. cache' = [cache EXCEPT ![c] = t]
    OBVIOUS
  <2>. QED  BY <1>0, <1>4, <1>5, <2>1, CacheChanged
<1>7. slab' = [q \in Page |-> IF q = p THEN Popped(s) ELSE slab[q]]
  BY <1>0 DEF Typed
<1>8. \A q \in Page : slab'[q] = IF q = p THEN Popped(s) ELSE slab[q]
  BY <1>7
<1>9. Popped(s) # Nothing
  BY <1>0, <1>2, NotNothing
<1>10. \A q : q \in Slabs' <=> (q \in Slabs \/ q = p)
  BY <1>8, <1>9 DEF Slabs
<1>11. \A q \in Slabs : slab'[q].cache = slab[q].cache
  BY <1>1, <1>2, <1>8 DEF Slabs
<1>12. Kept
  <2>1. \A q \in Slabs : slab'[q] # Nothing
    BY <1>10 DEF Slabs
  <2>. QED  BY <1>6, <1>11, <2>1 DEF Kept
<1>13. CacheOf(p)' = t
  BY <1>2, <1>6, <1>8 DEF CacheOf
<1>14. /\ Blocks' /\ b \in Nat \X Nat /\ b \notin live /\ SlabAt(b[1])' = p /\ ~Whole(b)'
       /\ \A q \in Page : InUse(q)' = IF q = p THEN InUse(q) \union {i} ELSE InUse(q)
  <2>1. \A q \in Run(p, t.order) : q \in Page /\ owner'[q] = p
    BY <1>5 DEF SameShape
  <2>2. i \in 0 .. t.objs - 1 /\ n <= t.size
    BY <1>2, <1>5 DEF SameShape
  <2>3. ASSUME NEW a \in live, owner[Frame(a)] = p PROVE IndexOf(a[1]) # i
    <3>1. a \in Objects(p)
      BY <2>3 DEF Objects, Frame
    <3>. QED  BY <1>2, <3>1 DEF InUse
  <2>4. b = <<At(p, t, i), n>>
    BY <1>2, <1>5 DEF SameShape, At
  <2>5. /\ live' = live \union {b} /\ taken \subseteq taken'
        /\ \A q \in taken' : owner'[q] = NoSlab => q \in taken
    OBVIOUS
  <2>6. Shaped(t) /\ t = CacheOf(p)'
    BY <1>6, <1>13
  <2>. QED  BY <1>0, <1>12, <2>1, <2>2, <2>3, <2>4, <2>5, <2>6, ObjectAdded
<1>15. Typed'
  <2>1. \A q \in Slabs' : /\ slab'[q].cache \in DOMAIN cache'
                          /\ slab'[q] \in SlabRec(slab'[q].cache, CacheOf(q)'.objs)
    <3>1. slab'[p].cache = c /\ slab'[p] \in SlabRec(c, CacheOf(p)'.objs)
      BY <1>2, <1>5, <1>8, <1>13 DEF SameShape
    <3>2. ASSUME NEW q \in Slabs, q # p
          PROVE  slab'[q].cache \in DOMAIN cache' /\ slab'[q] \in SlabRec(slab'[q].cache, CacheOf(q)'.objs)
      <4>1. slab'[q] = slab[q] /\ slab[q].cache \in DOMAIN cache
        BY <1>0, <1>8, <3>2, SlabFacts
      <4>2. slab[q] \in SlabRec(slab[q].cache, CacheOf(q).objs) /\ CacheOf(q)'.objs = CacheOf(q).objs
        BY <1>0, <1>12, KeptFacts, SlabFacts DEF SameShape
      <4>. QED  BY <1>6, <4>1, <4>2
    <3>. QED  BY <1>6, <1>10, <3>1, <3>2
  <2>2. IsFiniteSet(live') /\ live' \subseteq Nat \X Nat
    BY <1>0, <1>14, FS_AddElement DEF Typed
  <2>3. slab' = [q \in Page |-> slab'[q]]
    BY <1>7
  <2>4. Len(cache') <= MaxCache /\ MaxShift < Len(cache')
    BY <1>0, <1>6 DEF Typed
  <2>. QED  BY <1>6, <2>1, <2>2, <2>3, <2>4 DEF Typed
<1>16. RunsOwned'
  <2>1. ASSUME NEW q \in Slabs', NEW f \in Run(q, CacheOf(q)'.order) PROVE f \in Page /\ owner'[f] = q
    <3>1. CASE q = p
      BY <1>5, <1>13, <2>1, <3>1 DEF SameShape
    <3>2. CASE q \in Slabs
      <4>1. f \in Run(q, CacheOf(q).order)
        BY <1>0, <1>12, <2>1, <3>2, KeptFacts DEF SameShape
      <4>2. f \in Page /\ owner[f] = q /\ q # NoSlab
        BY <1>0, <3>2, <4>1, SlabFacts, PageFacts DEF RunsOwned
      <4>. QED  BY <1>0, <4>2 DEF RunsOwned
    <3>. QED  BY <1>10, <3>1, <3>2
  <2>2. ASSUME NEW f \in Page, owner'[f] # NoSlab
        PROVE  f \in taken' /\ owner'[f] \in Slabs' /\ f \in Run(owner'[f], cache'[slab'[owner'[f]].cache].order)
    <3>1. CASE f \in taken
      <4>1. owner'[f] = owner[f]
        BY <3>1
      <4>2. PICK q : q = owner[f]
        OBVIOUS
      <4>3. q \in Slabs /\ f \in Run(q, CacheOf(q).order)
        BY <1>0, <2>2, <4>1, <4>2 DEF RunsOwned
      <4>4. CacheOf(q)'.order = CacheOf(q).order
        BY <1>0, <1>12, <4>3, KeptFacts DEF SameShape
      <4>5. f \in Run(q, cache'[slab'[q].cache].order)
        BY <4>3, <4>4 DEF CacheOf
      <4>. QED  BY <1>10, <3>1, <4>1, <4>2, <4>3, <4>5
    <3>2. CASE f \notin taken
      <4>1. f \in taken' /\ owner'[f] = p /\ f \in Run(p, cache[c].order)
        BY <2>2, <3>2
      <4>2. cache'[slab'[p].cache].order = cache[c].order
        BY <1>5, <1>13 DEF SameShape, CacheOf
      <4>. QED  BY <1>10, <4>1, <4>2
    <3>. QED  BY <3>1, <3>2
  <2>3. \A q \in Slabs' : \A f \in Run(q, CacheOf(q)'.order) : f \in Page /\ owner'[f] = q
    BY <2>1
  <2>. QED  BY <2>2, <2>3 DEF RunsOwned, CacheOf
<1>17. Chains'
  <2>1. ASSUME NEW q \in Slabs' PROVE ChainOver(slab'[q], FreeObjects(q)')
    <3>1. CASE q = p
      <4>1. FreeObjects(q)' = (0 .. t.objs - 1) \ (InUse(p) \union {i})
        BY <1>13, <1>14, <3>1 DEF FreeObjects
      <4>2. FreeObjects(q)' = F \ {i}
        BY <1>5, <4>1 DEF SameShape
      <4>. QED  BY <1>2, <1>8, <3>1, <4>2
    <3>2. CASE q \in Slabs /\ q # p
      <4>1. q \in Page /\ slab'[q] = slab[q] /\ InUse(q)' = InUse(q)
        BY <1>8, <1>14, <3>2 DEF Slabs
      <4>2. CacheOf(q)'.objs = CacheOf(q).objs
        BY <1>0, <1>12, <3>2, KeptFacts DEF SameShape
      <4>3. FreeObjects(q)' = FreeObjects(q)
        BY <4>1, <4>2 DEF FreeObjects
      <4>. QED  BY <1>0, <3>2, <4>1, <4>3 DEF Chains
    <3>. QED  BY <1>10, <3>1, <3>2
  <2>. QED  BY <2>1 DEF Chains
<1>18. Lists'
  <2>1. \A d \in Nat : Active(d) = ActiveOf(d)
    BY <1>0, ActiveIs
  <2>3. \A d \in Nat : Active(d)' = ActiveOf(d)'
    BY <1>6, <1>14, <1>15, <1>16, ActiveIsNext
  <2>4. DOMAIN cache \subseteq Nat
    BY <1>0 DEF Typed
  <2>5. ASSUME NEW d \in DOMAIN cache
        PROVE  ActiveOf(d)' = IF d = c THEN ActiveOf(d) \union {b} ELSE ActiveOf(d)
    <3>1. b \in ActiveOf(d)' <=> d = c
      <4>1. b \in live' /\ slab'[SlabAt(b[1])'].cache = c
        BY <1>2, <1>8, <1>14
      <4>. QED  BY <1>14, <4>1 DEF ActiveOf
    <3>2. \A a \in live : a \in live' /\ (a \in ActiveOf(d)' <=> a \in ActiveOf(d))
      BY <1>0, <1>12, <2>4, ActiveKept
    <3>3. \A a \in ActiveOf(d)' : a \in live \/ a = b
      BY DEF ActiveOf
    <3>4. \A a \in ActiveOf(d) : a \in live
      BY DEF ActiveOf
    <3>5. PICK A, B : A = ActiveOf(d) /\ B = ActiveOf(d)'
      OBVIOUS
    <3>6. \A a : a \in B <=> a \in A \/ (a = b /\ d = c)
      BY <3>1, <3>2, <3>3, <3>4, <3>5
    <3>7. B = IF d = c THEN A \union {b} ELSE A
      BY <3>6
    <3>. QED  BY <3>5, <3>7
  <2>6. ASSUME NEW d \in DOMAIN cache, NEW q
        PROVE  q \in OwnSlabs(d)' <=> (q \in OwnSlabs(d) \/ (d = c /\ q = p))
    <3>1. q \in Slabs /\ q # p => slab'[q] = slab[q]
      BY <1>8 DEF Slabs
    <3>. QED  BY <1>1, <1>2, <1>8, <1>10, <3>1 DEF OwnSlabs
  <2>7. ASSUME NEW d \in DOMAIN cache, d # c PROVE ListsOf(d)'
    <3>1. \A q \in OwnSlabs(d) : slab'[q] = slab[q]
      <4>1. p \notin OwnSlabs(d)
        BY <1>1, <2>7 DEF OwnSlabs
      <4>. QED  BY <1>8, <4>1 DEF OwnSlabs, Slabs
    <3>2. Active(d)' = Active(d)
      BY <2>1, <2>3, <2>4, <2>5, <2>7
    <3>3. \A q : q \in OwnSlabs(d)' <=> q \in OwnSlabs(d)
      BY <2>6, <2>7
    <3>4. ListsOf(d) /\ cache'[d] = cache[d]
      BY <1>0, <1>6, <2>7 DEF Lists
    <3>. QED  BY <3>1, <3>2, <3>3, <3>4, ListsKept
  <2>8. ListsOf(c)'
    <3>1. OwnSlabs(c)' = OwnSlabs(c) \union {p}
      BY <2>6
    <3>2. cache'[c].slabs = Cardinality(OwnSlabs(c)')
      BY <1>4, <1>6, <3>1
    <3>3. cache'[c].active = Cardinality(Active(c)')
      <4>1. IsFiniteSet(ActiveOf(c)) /\ b \notin ActiveOf(c)
        BY <1>0, <1>1, <1>12, <1>14, ActiveKept DEF ActiveOf
      <4>2. ActiveOf(c)' = ActiveOf(c) \union {b}
        BY <2>5
      <4>3. Cardinality(ActiveOf(c)') = Cardinality(ActiveOf(c)) + 1
        <5>. PICK A : A = ActiveOf(c)
          OBVIOUS
        <5>1. Cardinality(A \union {b}) = Cardinality(A) + 1
          BY <4>1, FS_AddElement
        <5>. QED  BY <4>2, <5>1
      <4>4. cache[c].active = Cardinality(ActiveOf(c))
        BY <1>0, <1>1, <2>1 DEF Lists, ListsOf
      <4>. QED  BY <1>1, <1>4, <1>6, <2>3, <4>3, <4>4
    <3>4. \A q \in OwnSlabs(c)' : slab'[q].free = IF q = p THEN s.free - 1 ELSE slab[q].free
      BY <1>2, <1>8, <3>1 DEF OwnSlabs, Slabs
    <3>5. s.free - 1 > 0 <=> s.free # 1
      BY <1>1
    <3>6. {q \in OwnSlabs(c)' : slab'[q].free > 0} = (IF s.free = 1 THEN P \ {p} ELSE P)
      BY <3>1, <3>4, <3>5
    <3>7. {q \in OwnSlabs(c)' : slab'[q].free = 0} = (IF s.free = 1 THEN Q \union {p} ELSE Q)
      BY <1>1, <1>3, <3>1, <3>4, <3>5
    <3>. QED  BY <1>4, <1>6, <3>2, <3>3, <3>6, <3>7 DEF ListsOf, Listed
  <2>. QED  BY <1>6, <2>7, <2>8 DEF Lists
<1>. QED  BY <1>6, <1>14, <1>15, <1>16, <1>17, <1>18 DEF IInv
LEMMA PartialStep ==
  ASSUME IInv, NEW c \in DOMAIN cache, NEW n \in Nat \ {0}, n <= cache[c].size, AllocFromPartial(c, n)
  PROVE  IInv'
<1>0. Typed /\ Geometry /\ RunsOwned /\ Blocks /\ Chains /\ Lists
  BY DEF IInv
<1>. PICK p, s : p = Head(cache[c].partial) /\ s = slab[p]
  OBVIOUS
<1>1. /\ cache[c].partial # <<>>
      /\ slab' = [slab EXCEPT ![p] = Popped(s)]
      /\ cache' = [cache EXCEPT ![c] = AfterAlloc(cache[c], p, s)]
      /\ live' = live \union {<<Handed(p, s), n>>}
      /\ owner' = owner /\ order' = order /\ taken' = taken
  BY DEF AllocFromPartial
<1>2. cache[c] \in Cache /\ cache[c].partial \in Seq(Page) /\ cache[c].order \in Order
  <2>1. cache[c] \in Cache
    BY <1>0 DEF Typed
  <2>. QED  BY <2>1 DEF Cache
<1>3. p \in ToSet(cache[c].partial)
  BY <1>1, <1>2, TailFacts
<1>4. p \in OwnSlabs(c) /\ s.free > 0
  BY <1>0, <1>3 DEF Lists, ListsOf
<1>5. p \in Slabs /\ p \in Page /\ s.cache = c /\ CacheOf(p) = cache[c]
  BY <1>4 DEF OwnSlabs, Slabs, CacheOf
<1>6. s \in SlabRec(c, cache[c].objs) /\ ChainOver(s, (0 .. cache[c].objs - 1) \ InUse(p))
  BY <1>0, <1>5, SlabFacts DEF Chains, FreeObjects
<1>7. Handed(p, s) = At(p, cache[c], s.first)
  BY <1>5 DEF Handed, At
<1>8. /\ SameShape(cache[c], cache[c]) /\ cache[c].slabs = Cardinality(OwnSlabs(c) \union {p})
      /\ Listed(cache[c], {q \in OwnSlabs(c) : slab[q].free > 0} \union {p},
                          {q \in OwnSlabs(c) : slab[q].free = 0})
  <2>1. OwnSlabs(c) \union {p} = OwnSlabs(c)
    BY <1>4
  <2>2. {q \in OwnSlabs(c) : slab[q].free > 0} \union {p} = {q \in OwnSlabs(c) : slab[q].free > 0}
    BY <1>4
  <2>3. ListsOf(c)
    BY <1>0 DEF Lists
  <2>. QED  BY <2>1, <2>2, <2>3 DEF ListsOf, Listed, SameShape
<1>9. /\ owner' \in [Page -> Page \union {NoSlab}] /\ order' \in [Page -> Order]
      /\ taken \subseteq taken' /\ taken' \subseteq Page
      /\ \A q \in taken : owner'[q] = owner[q] /\ order'[q] = order[q]
      /\ \A q \in taken' : owner'[q] = NoSlab => q \in taken
  BY <1>0, <1>1 DEF Typed
<1>10. \A q \in Run(p, cache[c].order) : q \in Page /\ owner'[q] = p
  BY <1>0, <1>1, <1>5 DEF RunsOwned
<1>11. \A q \in Page \ taken : owner'[q] # NoSlab =>
         q \in taken' /\ owner'[q] = p /\ q \in Run(p, cache[c].order)
  BY <1>0, <1>1 DEF RunsOwned
<1>12. live' = live \union {<<At(p, cache[c], s.first), n>>}
  BY <1>1, <1>7
<1>13. /\ IInv /\ c \in DOMAIN cache /\ n \in Nat \ {0} /\ n <= cache[c].size
       /\ p \in Slabs => slab[p] = s
       /\ cache[c].active = cache[c].active
  OBVIOUS
<1>. QED  BY ONLY <1>1, <1>2, <1>4, <1>5, <1>6, <1>8, <1>9, <1>10, <1>11, <1>12, <1>13, HandedOut

LEMMA NewSlabStep ==
  ASSUME IInv, NEW c \in DOMAIN cache, NEW n \in Nat \ {0}, n <= cache[c].size, AllocFromNewSlab(c, n)
  PROVE  IInv'
<1>0. Typed /\ Geometry /\ RunsOwned /\ Blocks /\ Chains /\ Lists
  BY DEF IInv
<1>. PICK o : o = cache[c].order
  OBVIOUS
<1>1. PICK p \in FreeRuns(o) :
        /\ taken' = taken \union Run(p, o)
        /\ order' = [order EXCEPT ![p] = o]
        /\ owner' = [q \in Page |-> IF q \in Run(p, o) THEN p ELSE owner[q]]
        /\ slab' = [slab EXCEPT ![p] = Popped(Grown(c))]
        /\ cache' = [cache EXCEPT ![c] = AfterAlloc(AfterGrow(cache[c], p), p, Grown(c))]
        /\ live' = live \union {<<Handed(p, Grown(c)), n>>}
  BY DEF AllocFromNewSlab
<1>. PICK s, r : s = Grown(c) /\ r = AfterGrow(cache[c], p)
  OBVIOUS
<1>2. cache[c] \in Cache /\ o \in Order /\ Shaped(cache[c]) /\ cache[c].objs \in Nat \ {0}
  <2>1. cache[c] \in Cache /\ Shaped(cache[c])
    BY <1>0 DEF Typed, Geometry
  <2>. QED  BY <2>1 DEF Shaped
<1>3. p \in Page /\ Run(p, o) \subseteq Page \ taken /\ p \in Run(p, o)
  BY <1>2, PageFacts DEF FreeRuns
<1>4. p \notin Slabs
  BY <1>0, <1>3, SlabFacts
<1>5. Objects(p) = {}
  <2>1. ASSUME NEW b \in Objects(p) PROVE FALSE
    <3>1. b \in live /\ owner[Frame(b)] = p
      BY DEF Objects, Frame
    <3>2. owner[Frame(b)] \in Slabs
      BY <1>0, <1>3, <3>1, BlockFacts, PageFacts DEF RunsOwned
    <3>. QED  BY <1>4, <3>1, <3>2
  <2>. QED  BY <2>1
<1>6. InUse(p) = {}
  BY <1>5 DEF InUse
<1>7. /\ s \in SlabRec(c, cache[c].objs) /\ s.cache = c /\ s.free = cache[c].objs /\ s.first = 0
      /\ s.free > 0 /\ ChainOver(s, (0 .. cache[c].objs - 1) \ InUse(p))
  <2>1. /\ s \in SlabRec(c, cache[c].objs) /\ s.cache = c /\ s.free = cache[c].objs /\ s.first = 0
        /\ ChainOver(s, 0 .. cache[c].objs - 1)
    BY <1>2, GrownFacts
  <2>2. (0 .. cache[c].objs - 1) \ InUse(p) = 0 .. cache[c].objs - 1
    BY <1>6
  <2>3. \A k \in Nat \ {0} : k > 0
    OBVIOUS
  <2>. QED  BY <1>2, <2>1, <2>2, <2>3
<1>8. /\ r \in Cache /\ SameShape(cache[c], r) /\ r.active = cache[c].active
      /\ r.slabs = Cardinality(OwnSlabs(c) \union {p})
      /\ Listed(r, {q \in OwnSlabs(c) : slab[q].free > 0} \union {p},
                   {q \in OwnSlabs(c) : slab[q].free = 0})
  <2>. PICK P, F : /\ P = {q \in OwnSlabs(c) : slab[q].free > 0}
                   /\ F = {q \in OwnSlabs(c) : slab[q].free = 0}
    OBVIOUS
  <2>1. p \notin OwnSlabs(c) /\ p \notin P
    BY <1>4 DEF OwnSlabs
  <2>2. ListsOf(c)
    BY <1>0 DEF Lists
  <2>3. Listed(cache[c], P, F) /\ cache[c].slabs = Cardinality(OwnSlabs(c))
    BY <2>2 DEF ListsOf, Listed
  <2>4. LET t == AfterGrow(cache[c], p) IN
        /\ t \in Cache /\ SameShape(cache[c], t) /\ t.active = cache[c].active
        /\ t.slabs = cache[c].slabs + 1 /\ Listed(t, P \union {p}, F)
    BY ONLY <1>2, <1>3, <2>1, <2>3, AfterGrowFacts
  <2>5. Cardinality(OwnSlabs(c) \union {p}) = Cardinality(OwnSlabs(c)) + 1
    <3>. PICK S : S = OwnSlabs(c)
      OBVIOUS
    <3>1. S \in SUBSET Page
      BY DEF OwnSlabs, Slabs
    <3>2. IsFiniteSet(Page)
      <4>1. 0 \in Int /\ Pages - 1 \in Int
        OBVIOUS
      <4>. QED  BY <4>1, FS_Interval DEF Page
    <3>3. IsFiniteSet(S)
      BY <3>1, <3>2, FS_Subset
    <3>. QED  BY <2>1, <3>3, FS_AddElement
  <2>. QED  BY <2>3, <2>4, <2>5
<1>9. /\ slab' = [slab EXCEPT ![p] = Popped(s)]
      /\ cache' = [cache EXCEPT ![c] = AfterAlloc(r, p, s)]
  BY <1>1
<1>10. live' = live \union {<<At(p, cache[c], s.first), n>>}
  BY <1>1, <1>7 DEF Handed, At
<1>11. /\ owner' \in [Page -> Page \union {NoSlab}] /\ order' \in [Page -> Order]
       /\ taken \subseteq taken' /\ taken' \subseteq Page
  BY <1>0, <1>1, <1>2, <1>3 DEF Typed
<1>12. \A q \in taken : owner'[q] = owner[q] /\ order'[q] = order[q]
  <2>1. ASSUME NEW q \in taken PROVE owner'[q] = owner[q] /\ order'[q] = order[q]
    <3>1. q \in Page /\ q \notin Run(p, o) /\ q # p
      BY <1>0, <1>3 DEF Typed
    <3>. QED  BY <1>0, <1>1, <3>1 DEF Typed
  <2>. QED  BY <2>1
<1>13. \A q \in taken' : owner'[q] = NoSlab => q \in taken
  BY <1>1, <1>3, PageFacts
<1>14. \A q \in Run(p, cache[c].order) : q \in Page /\ owner'[q] = p
  BY <1>1, <1>3
<1>15. \A q \in Page \ taken : owner'[q] # NoSlab =>
         q \in taken' /\ owner'[q] = p /\ q \in Run(p, cache[c].order)
  BY <1>0, <1>1 DEF RunsOwned
<1>16. /\ IInv /\ c \in DOMAIN cache /\ n \in Nat \ {0} /\ n <= cache[c].size
       /\ p \in Slabs => slab[p] = s
  BY <1>4
<1>. QED  BY ONLY <1>3, <1>7, <1>8, <1>9, <1>10, <1>11, <1>12, <1>13, <1>14, <1>15, <1>16, HandedOut
LEMMA FreeStep ==
  ASSUME IInv, NEW c, NEW b \in live, KmemCacheFree(c, b)
  PROVE  IInv'
<1>0. Typed /\ Geometry /\ RunsOwned /\ Blocks /\ Chains /\ Lists
  BY DEF IInv
<1>. PICK p, i, s, t, P, Q :
       /\ p = SlabAt(b[1]) /\ i = IndexOf(b[1]) /\ s = slab[p] /\ t = AfterFree(cache[c], p, s)
       /\ P = {q \in OwnSlabs(c) : slab[q].free > 0} /\ Q = {q \in OwnSlabs(c) : slab[q].free = 0}
  OBVIOUS
<1>1. /\ p # NoSlab /\ s.cache = c
      /\ slab' = [slab EXCEPT ![p] = Pushed(s, i)]
      /\ cache' = [cache EXCEPT ![c] = t]
      /\ live' = live \ {b} /\ owner' = owner /\ order' = order /\ taken' = taken
  BY DEF KmemCacheFree, Pushed
<1>2. ~Whole(b) /\ p \in Slabs
  BY <1>0, <1>1, BlockFacts DEF Whole
<1>. PICK N, F : N = cache[c].objs /\ F = FreeObjects(p)
  OBVIOUS
<1>3. /\ p \in Page /\ c \in DOMAIN cache /\ cache[c] \in Cache /\ CacheOf(p) = cache[c]
      /\ s \in SlabRec(c, N) /\ Shaped(cache[c]) /\ N \in Nat \ {0}
  <2>1. p \in Page /\ c \in DOMAIN cache /\ CacheOf(p) = cache[c]
    BY <1>0, <1>1, <1>2, SlabFacts DEF CacheOf
  <2>2. s \in SlabRec(c, N) /\ Shaped(cache[c]) /\ cache[c] \in Cache
    BY <1>0, <1>1, <1>2, <2>1, SlabFacts
  <2>. QED  BY <2>1, <2>2 DEF Shaped
<1>4. i \in InUse(p) /\ i \in 0 .. N - 1 /\ F = (0 .. N - 1) \ InUse(p)
  <2>1. b \in Objects(p)
    BY DEF Objects, SlabAt
  <2>. QED  BY <1>0, <1>2, <1>3, <2>1, BlockFacts DEF InUse, FreeObjects
<1>5. /\ Pushed(s, i) \in SlabRec(c, N) /\ Pushed(s, i).cache = c
      /\ Pushed(s, i).free = s.free + 1 /\ s.free \in Nat
      /\ ChainOver(Pushed(s, i), F \union {i})
  <2>1. F \in SUBSET (0 .. N - 1) /\ ChainOver(s, F) /\ i \notin F /\ i \in 0 .. N - 1
    BY <1>0, <1>2, <1>4 DEF Chains
  <2>. QED  BY ONLY <1>3, <2>1, PushedFacts
<1>6. /\ p \in OwnSlabs(c) /\ Listed(cache[c], P, Q) /\ cache[c].slabs = Cardinality(OwnSlabs(c))
      /\ cache[c].active = Cardinality(Active(c))
  <2>1. ListsOf(c)
    BY <1>0, <1>3 DEF Lists
  <2>. QED  BY <1>1, <1>2, <2>1 DEF ListsOf, Listed, OwnSlabs
<1>7. /\ t \in Cache /\ SameShape(cache[c], t) /\ t.active = cache[c].active - 1
      /\ t.slabs = cache[c].slabs
      /\ Listed(t, IF s.free = 0 THEN P \union {p} ELSE P, IF s.free = 0 THEN Q \ {p} ELSE Q)
  <2>1. s.free = 0 => p \notin P
    OBVIOUS
  <2>2. LET u == AfterFree(cache[c], p, s) IN
        /\ u \in Cache /\ SameShape(cache[c], u) /\ u.active = cache[c].active - 1
        /\ u.slabs = cache[c].slabs
        /\ Listed(u, IF s.free = 0 THEN P \union {p} ELSE P, IF s.free = 0 THEN Q \ {p} ELSE Q)
    <3>. PICK r : r = cache[c]
      OBVIOUS
    <3>1. r \in Cache /\ Listed(r, P, Q) /\ p \in Page
      BY <1>3, <1>6
    <3>2. LET u == AfterFree(r, p, s) IN
          /\ u \in Cache /\ SameShape(r, u) /\ u.active = r.active - 1 /\ u.slabs = r.slabs
          /\ Listed(u, IF s.free = 0 THEN P \union {p} ELSE P, IF s.free = 0 THEN Q \ {p} ELSE Q)
      BY ONLY <2>1, <3>1, AfterFreeFacts
    <3>. QED  BY <3>2
  <2>. QED  BY <2>2
<1>8. /\ cache' \in Seq(Cache) /\ Len(cache') = Len(cache) /\ DOMAIN cache' = DOMAIN cache
      /\ Geometry' /\ Shaped(t) /\ cache'[c] = t
      /\ \A d \in DOMAIN cache : /\ SameShape(cache[d], cache'[d])
                                 /\ d # c => cache'[d] = cache[d]
  BY <1>0, <1>1, <1>3, <1>7, CacheChanged
<1>9. slab' = [q \in Page |-> IF q = p THEN Pushed(s, i) ELSE slab[q]]
  BY <1>0, <1>1 DEF Typed
<1>10. \A q \in Page : slab'[q] = IF q = p THEN Pushed(s, i) ELSE slab[q]
  BY <1>9
<1>11. Pushed(s, i) # Nothing
  BY <1>0, <1>3, <1>5, NotNothing
<1>12. \A q : q \in Slabs' <=> q \in Slabs
  BY <1>2, <1>10, <1>11 DEF Slabs
<1>13. \A q \in Slabs : slab'[q].cache = slab[q].cache
  BY <1>1, <1>5, <1>10 DEF Slabs
<1>14. Kept
  <2>1. \A q \in Slabs : slab'[q] # Nothing
    BY <1>12 DEF Slabs
  <2>. QED  BY <1>1, <1>8, <1>13, <2>1 DEF Kept
<1>15. \A q \in Slabs : SameShape(CacheOf(q), CacheOf(q)')
  BY <1>0, <1>14, KeptFacts
<1>16. /\ Blocks'
       /\ \A q \in Page : InUse(q)' = IF q = p THEN InUse(q) \ {i} ELSE InUse(q)
  BY <1>0, <1>1, <1>2, <1>14, ObjectRemoved
<1>17. Typed'
  <2>1. ASSUME NEW q \in Slabs'
        PROVE  slab'[q].cache \in DOMAIN cache' /\ slab'[q] \in SlabRec(slab'[q].cache, CacheOf(q)'.objs)
    <3>1. CacheOf(q)'.objs = CacheOf(q).objs /\ q \in Slabs /\ q \in Page
      BY <1>12, <1>15 DEF SameShape, Slabs
    <3>2. CASE q = p
      BY <1>3, <1>5, <1>8, <1>10, <3>1, <3>2
    <3>3. CASE q # p
      BY <1>0, <1>8, <1>10, <3>1, <3>3, SlabFacts
    <3>. QED  BY <3>2, <3>3
  <2>2. IsFiniteSet(live') /\ live' \subseteq Nat \X Nat
    BY <1>0, <1>1, FS_RemoveElement DEF Typed
  <2>3. slab' = [q \in Page |-> slab'[q]]
    BY <1>9
  <2>4. Len(cache') <= MaxCache /\ MaxShift < Len(cache')
    BY <1>0, <1>8 DEF Typed
  <2>5. /\ owner' \in [Page -> Page \union {NoSlab}] /\ order' \in [Page -> Order]
        /\ taken' \subseteq Page
    BY <1>0, <1>1 DEF Typed
  <2>. QED  BY <1>8, <2>1, <2>2, <2>3, <2>4, <2>5 DEF Typed
<1>18. RunsOwned'
  <2>1. ASSUME NEW q \in Slabs' PROVE \A f \in Run(q, CacheOf(q)'.order) : f \in Page /\ owner'[f] = q
    BY <1>0, <1>1, <1>12, <1>15 DEF RunsOwned, SameShape
  <2>2. ASSUME NEW f \in Page, owner'[f] # NoSlab
        PROVE  f \in taken' /\ owner'[f] \in Slabs' /\ f \in Run(owner'[f], cache'[slab'[owner'[f]].cache].order)
    <3>. PICK q : q = owner[f]
      OBVIOUS
    <3>1. f \in taken /\ q \in Slabs /\ f \in Run(q, CacheOf(q).order)
      BY <1>0, <1>1, <2>2 DEF RunsOwned
    <3>2. f \in Run(q, cache'[slab'[q].cache].order)
      BY <1>15, <3>1 DEF SameShape, CacheOf
    <3>. QED  BY <1>1, <1>12, <3>1, <3>2
  <2>. QED  BY <2>1, <2>2 DEF RunsOwned, CacheOf
<1>19. Chains'
  <2>1. ASSUME NEW q \in Slabs' PROVE ChainOver(slab'[q], FreeObjects(q)')
    <3>1. CacheOf(q)'.objs = CacheOf(q).objs /\ q \in Slabs /\ q \in Page
      BY <1>12, <1>15 DEF SameShape, Slabs
    <3>2. CASE q = p
      <4>1. FreeObjects(q)' = (0 .. N - 1) \ (InUse(p) \ {i})
        BY <1>3, <1>16, <3>1, <3>2 DEF FreeObjects
      <4>2. FreeObjects(q)' = F \union {i}
        BY <1>4, <4>1
      <4>. QED  BY <1>5, <1>10, <3>1, <3>2, <4>2
    <3>3. CASE q # p
      <4>1. FreeObjects(q)' = FreeObjects(q)
        BY <1>16, <3>1, <3>3 DEF FreeObjects
      <4>. QED  BY <1>0, <1>10, <3>1, <3>3, <4>1 DEF Chains
    <3>. QED  BY <3>2, <3>3
  <2>. QED  BY <2>1 DEF Chains
<1>20. Lists'
  <2>1. \A d \in Nat : Active(d) = ActiveOf(d)
    BY <1>0, ActiveIs
  <2>2. \A d \in Nat : Active(d)' = ActiveOf(d)'
    BY <1>8, <1>16, <1>17, <1>18, ActiveIsNext
  <2>3. DOMAIN cache \subseteq Nat
    BY <1>0 DEF Typed
  <2>4. b \in ActiveOf(c) /\ \A d : d # c => b \notin ActiveOf(d)
    BY <1>1, <1>2 DEF ActiveOf
  <2>5. ASSUME NEW d \in DOMAIN cache
        PROVE  ActiveOf(d)' = ActiveOf(d) \ {b}
    <3>1. \A a \in live : a # b => a \in live' /\ (a \in ActiveOf(d)' <=> a \in ActiveOf(d))
      BY <1>0, <1>1, <1>14, <2>3, ActiveKept
    <3>2. \A a \in ActiveOf(d)' : a \in live /\ a # b
      BY <1>1 DEF ActiveOf
    <3>3. \A a \in ActiveOf(d) : a \in live
      BY DEF ActiveOf
    <3>4. PICK A, B : A = ActiveOf(d) /\ B = ActiveOf(d)'
      OBVIOUS
    <3>5. \A a : a \in B <=> a \in A /\ a # b
      BY <3>1, <3>2, <3>3, <3>4
    <3>6. B = A \ {b}
      BY <3>5
    <3>. QED  BY <3>4, <3>6
  <2>6. \A d : OwnSlabs(d)' = OwnSlabs(d)
    <3>. SUFFICES ASSUME NEW d PROVE OwnSlabs(d)' = OwnSlabs(d)
      OBVIOUS
    <3>1. \A q : q \in OwnSlabs(d)' <=> q \in OwnSlabs(d)
      BY <1>12, <1>13 DEF OwnSlabs
    <3>. QED  BY <3>1
  <2>7. ASSUME NEW d \in DOMAIN cache, d # c PROVE ListsOf(d)'
    <3>1. \A q \in OwnSlabs(d) : slab'[q] = slab[q]
      BY <1>1, <1>10, <2>7 DEF OwnSlabs, Slabs
    <3>2. ActiveOf(d)' = ActiveOf(d)
      BY <2>4, <2>5, <2>7
    <3>3. Active(d)' = Active(d)
      BY <2>1, <2>2, <2>3, <3>2
    <3>4. \A q : q \in OwnSlabs(d)' <=> q \in OwnSlabs(d)
      BY <2>6
    <3>5. ListsOf(d) /\ cache'[d] = cache[d]
      BY <1>0, <1>8, <2>7 DEF Lists
    <3>. QED  BY ONLY <3>1, <3>3, <3>4, <3>5, ListsKept
  <2>8. ListsOf(c)'
    <3>1. cache'[c].slabs = Cardinality(OwnSlabs(c)')
      BY <1>6, <1>7, <1>8, <2>6
    <3>2. cache'[c].active = Cardinality(Active(c)')
      <4>. PICK A : A = ActiveOf(c)
        OBVIOUS
      <4>1. IsFiniteSet(A) /\ b \in A
        BY <1>0, <1>3, <1>14, <2>3, <2>4, ActiveKept
      <4>2. Cardinality(A \ {b}) = Cardinality(A) - 1
        BY <4>1, FS_RemoveElement
      <4>3. Active(c)' = A \ {b} /\ Active(c) = A
        BY <1>3, <2>1, <2>2, <2>3, <2>5
      <4>. QED  BY <1>6, <1>7, <1>8, <4>2, <4>3
    <3>3. \A q \in OwnSlabs(c) : slab'[q].free = IF q = p THEN s.free + 1 ELSE slab[q].free
      BY <1>5, <1>10 DEF OwnSlabs, Slabs
    <3>4. s.free + 1 > 0 /\ s.free + 1 # 0 /\ (s.free > 0 <=> s.free # 0)
      BY <1>5
    <3>5. {q \in OwnSlabs(c)' : slab'[q].free > 0} = (IF s.free = 0 THEN P \union {p} ELSE P)
      <4>. PICK B : B = {q \in OwnSlabs(c) : slab'[q].free > 0}
        OBVIOUS
      <4>1. \A q : q \in B <=> q \in P \/ q = p
        BY <1>6, <3>3, <3>4
      <4>2. s.free # 0 => p \in P
        BY <1>6, <3>4
      <4>3. B = (IF s.free = 0 THEN P \union {p} ELSE P)
        BY <4>1, <4>2
      <4>. QED  BY <2>6, <4>3
    <3>6. {q \in OwnSlabs(c)' : slab'[q].free = 0} = (IF s.free = 0 THEN Q \ {p} ELSE Q)
      <4>. PICK B : B = {q \in OwnSlabs(c) : slab'[q].free = 0}
        OBVIOUS
      <4>1. \A q : q \in B <=> q \in Q /\ q # p
        BY <3>3, <3>4
      <4>2. s.free # 0 => p \notin Q
        OBVIOUS
      <4>3. B = (IF s.free = 0 THEN Q \ {p} ELSE Q)
        BY <4>1, <4>2
      <4>. QED  BY <2>6, <4>3
    <3>. QED  BY <1>7, <1>8, <3>1, <3>2, <3>5, <3>6 DEF ListsOf, Listed
  <2>. QED  BY <1>8, <2>7, <2>8 DEF Lists
<1>. QED  BY <1>8, <1>16, <1>17, <1>18, <1>19, <1>20 DEF IInv
(* A step that gives or takes back frames for a block of its own leaves    *)
(* the caches and their objects alone.                                     *)
LEMMA FramesStep ==
  ASSUME IInv, UNCHANGED <<cache, slab, owner>>, order' \in [Page -> Order], taken' \subseteq Page,
         live' \subseteq Nat \X Nat, IsFiniteSet(live'), Blocks',
         \A q \in Page : \A a : a \in Objects(q)' <=> a \in Objects(q),
         \A q \in Page : owner[q] # NoSlab => q \in taken'
  PROVE  IInv'
<1>0. Typed /\ Geometry /\ RunsOwned /\ Blocks /\ Chains /\ Lists
  BY DEF IInv
<1>1. Slabs' = Slabs
  BY DEF Slabs
<1>2. \A q : CacheOf(q)' = CacheOf(q)
  BY DEF CacheOf
<1>3. Typed'
  BY <1>0, <1>1, <1>2 DEF Typed
<1>4. Geometry'
  BY <1>0 DEF Geometry
<1>5. RunsOwned'
  BY <1>0, <1>1 DEF RunsOwned, CacheOf
<1>6. \A q \in Page : Objects(q)' = Objects(q)
  <2>. SUFFICES ASSUME NEW q \in Page PROVE Objects(q)' = Objects(q)
    OBVIOUS
  <2>. QED  OBVIOUS
<1>7. \A q \in Page : InUse(q)' = InUse(q)
  <2>. SUFFICES ASSUME NEW q \in Page PROVE InUse(q)' = InUse(q)
    OBVIOUS
  <2>1. \A x : IndexOf(x)' = IndexOf(x)
    BY DEF IndexOf, SlabAt
  <2>. QED  BY <1>6, <2>1 DEF InUse
<1>8. Slabs \subseteq Page
  BY DEF Slabs
<1>9. Chains'
  BY <1>0, <1>1, <1>2, <1>7, <1>8 DEF Chains, FreeObjects
<1>10. Lists'
  <2>. SUFFICES ASSUME NEW d \in DOMAIN cache PROVE ListsOf(d)'
    BY DEF Lists
  <2>1. \A q : q \in OwnSlabs(d)' <=> q \in OwnSlabs(d)
    BY <1>1 DEF OwnSlabs
  <2>2. Active(d)' = Active(d)
    <3>1. \A q \in OwnSlabs(d) : Objects(q)' = Objects(q)
      BY <1>6, <1>8 DEF OwnSlabs
    <3>2. OwnSlabs(d)' = OwnSlabs(d)
      BY <2>1
    <3>. QED  BY <3>1, <3>2 DEF Active
  <2>3. ListsOf(d) /\ cache'[d] = cache[d] /\ \A q \in OwnSlabs(d) : slab'[q] = slab[q]
    BY <1>0 DEF Lists
  <2>. QED  BY ONLY <2>1, <2>2, <2>3, ListsKept
<1>. QED  BY <1>3, <1>4, <1>5, <1>9, <1>10 DEF IInv

(* kmalloc of more than the largest cache holds.                           *)
LEMMA LargeStep ==
  ASSUME IInv, NEW n \in Sizes, KmallocLarge(n)
  PROVE  IInv'
<1>0. Typed /\ Geometry /\ RunsOwned /\ Blocks /\ Chains /\ Lists
  BY DEF IInv
<1>. DEFINE k == CHOOSE j \in Orders(n) : \A l \in Orders(n) : j <= l
<1>1. k \in Order /\ n <= 2^k * PageSize
  <2>1. Orders(n) \subseteq Nat /\ Orders(n) # {}
    BY DEF Orders, Order, KmallocLarge
  <2>2. k \in Orders(n)
    BY <2>1, LeastMember
  <2>. QED  BY <2>2 DEF Orders
<1>2. \E p \in FreeRuns(k) :
        /\ taken' = taken \union Run(p, k)
        /\ order' = [order EXCEPT ![p] = k]
        /\ live' = live \union {<<p * PageSize, n>>}
  BY DEF KmallocLarge
<1>. PICK o : o = k
  OBVIOUS
<1>3. PICK p \in FreeRuns(o) : /\ taken' = taken \union Run(p, o)
                               /\ order' = [order EXCEPT ![p] = o]
                               /\ live' = live \union {<<p * PageSize, n>>}
  BY <1>2
<1>4. UNCHANGED <<cache, slab, owner>>
  BY DEF KmallocLarge
<1>5. o \in Order /\ n <= 2^o * PageSize /\ n \in Nat \ {0}
  BY <1>1
<1>. PICK b, m : b = <<p * PageSize, n>> /\ m = p * PageSize
  OBVIOUS
<1>6. p \in Page /\ p \in Nat /\ Run(p, o) \subseteq Page \ taken /\ p \in Run(p, o)
  BY <1>5, PageFacts DEF FreeRuns
<1>7. m \in Nat /\ m \div PageSize = p
  <2>1. \A s \in Nat \ {0}, i \in Nat : (i * s) \div s = i
    OBVIOUS
  <2>. QED  BY <1>6, <2>1
<1>8. b[1] = m /\ b[2] = n /\ b \in Nat \X Nat /\ Frame(b) = p /\ live' = live \union {b}
  BY <1>3, <1>5, <1>7 DEF Frame
<1>9. \A q \in Run(p, o) : q \in taken' /\ owner[q] = NoSlab /\ owner'[q] = NoSlab
  BY <1>0, <1>3, <1>4, <1>6 DEF RunsOwned
<1>10. \A q \in Page : order'[q] = IF q = p THEN o ELSE order[q]
  BY <1>0, <1>3 DEF Typed
<1>11. Kept
  <2>1. \A q \in taken : order'[q] = order[q]
    BY <1>0, <1>6, <1>10 DEF Typed
  <2>. QED  BY <1>4, <2>1 DEF Kept, SameShape, Slabs
<1>12. Whole(b)' /\ RunOf(b)' = Run(p, o) /\ IsRun(b)'
  <2>1. Whole(b)'
    BY <1>6, <1>7, <1>8, <1>9 DEF Whole, SlabAt
  <2>2. order'[p] = o
    BY <1>6, <1>10
  <2>3. RunOf(b)' = Run(p, o)
    BY <1>8, <2>2 DEF RunOf, Frame
  <2>4. b[1] = Frame(b) * PageSize /\ b[2] <= 2^order'[Frame(b)] * PageSize
    BY <1>5, <1>8, <2>2
  <2>. QED  BY <1>9, <2>1, <2>3, <2>4 DEF IsRun, Frame
<1>13. ASSUME NEW a \in live
       PROVE  /\ a[1] # b[1] /\ Frame(a) \in taken /\ (Whole(a)' <=> Whole(a)) /\ RunOf(a)' = RunOf(a)
              /\ Whole(a) => RunOf(a) \subseteq taken
  <2>1. Frame(a) \in taken /\ Frame(a) # p
    BY <1>0, <1>6, BlockFacts
  <2>2. a[1] # b[1]
    BY <1>8, <2>1 DEF Frame
  <2>3. Whole(a) => RunOf(a) \subseteq taken
    BY <1>0, BlockFacts DEF IsRun
  <2>. QED  BY <1>0, <1>11, <2>1, <2>2, <2>3, KeptFacts
<1>14. Blocks'
  <2>1. ASSUME NEW a \in live'
        PROVE  Frame(a) \in Page /\ 0 < a[2] /\ IF Whole(a)' THEN IsRun(a)' ELSE IsObject(a)'
    <3>1. CASE a = b
      BY <1>5, <1>6, <1>8, <1>12, <3>1
    <3>2. CASE a \in live
      <4>1. Frame(a) \in Page /\ a[2] \in Nat \ {0}
        BY <1>0, <3>2, BlockFacts
      <4>2. ASSUME Whole(a) PROVE IsRun(a)'
        <5>1. RunOf(a) \subseteq taken'
          BY <1>3, <1>13, <3>2, <4>2
        <5>. QED  BY <1>0, <1>11, <3>2, <4>2, <5>1, RunKept
      <4>3. (Whole(a)' <=> Whole(a)) /\ (~Whole(a) => IsObject(a)')
        BY <1>0, <1>11, <3>2, KeptFacts
      <4>. QED  BY <4>1, <4>2, <4>3
    <3>. QED  BY <1>8, <3>1, <3>2
  <2>2. ASSUME NEW a \in live', NEW d \in live', a[1] = d[1] PROVE a = d
    BY <1>0, <1>8, <1>13, <2>2 DEF Blocks
  <2>3. ASSUME NEW a \in live', NEW d \in live', Whole(a)', Whole(d)', a # d
        PROVE  RunOf(a)' \cap RunOf(d)' = {}
    <3>1. CASE a \in live /\ d \in live
      BY <1>0, <1>13, <2>3, <3>1 DEF Blocks
    <3>2. ASSUME NEW e \in live, Whole(e)' PROVE RunOf(e)' \cap RunOf(b)' = {}
      BY <1>6, <1>12, <1>13, <3>2
    <3>3. CASE a = b \/ d = b
      BY <1>8, <2>3, <3>2, <3>3
    <3>. QED  BY <1>8, <3>1, <3>3
  <2>4. ASSUME NEW q \in taken', owner'[q] = NoSlab
        PROVE  \E a \in live' : Whole(a)' /\ q \in RunOf(a)'
    <3>1. CASE q \in Run(p, o)
      BY <1>8, <1>12, <3>1
    <3>2. CASE q \in taken
      <4>1. PICK a \in live : Whole(a) /\ q \in RunOf(a)
        BY <1>0, <1>4, <2>4, <3>2 DEF Blocks
      <4>. QED  BY <1>8, <1>13, <4>1
    <3>. QED  BY <1>3, <3>1, <3>2
  <2>5. \A a \in live' : Frame(a)' = Frame(a)
    BY DEF Frame
  <2>. QED  BY <2>1, <2>2, <2>3, <2>4, <2>5 DEF Blocks
<1>15. \A q \in Page : \A a : a \in Objects(q)' <=> a \in Objects(q)
  <2>. SUFFICES ASSUME NEW q \in Page, NEW a PROVE a \in Objects(q)' <=> a \in Objects(q)
    OBVIOUS
  <2>1. q # NoSlab /\ owner[b[1] \div PageSize] = NoSlab
    BY <1>6, <1>7, <1>8, <1>9, PageFacts
  <2>. QED  BY <1>4, <1>8, <2>1 DEF Objects
<1>16. /\ order' \in [Page -> Order] /\ taken' \subseteq Page
       /\ live' \subseteq Nat \X Nat /\ IsFiniteSet(live')
       /\ \A q \in Page : owner[q] # NoSlab => q \in taken'
  <2>1. IsFiniteSet(live')
    BY <1>0, <1>8, FS_AddElement DEF Typed
  <2>2. order' \in [Page -> Order] /\ taken' \subseteq Page
    BY <1>0, <1>3, <1>5, <1>6 DEF Typed
  <2>3. live' \subseteq Nat \X Nat
    BY <1>0, <1>8 DEF Typed
  <2>. QED  BY <1>0, <1>3, <2>1, <2>2, <2>3 DEF RunsOwned
<1>. QED  BY <1>4, <1>14, <1>15, <1>16, FramesStep

LEMMA FreePagesStep ==
  ASSUME IInv, NEW b \in live, KfreePages(b)
  PROVE  IInv'
<1>0. Typed /\ Geometry /\ RunsOwned /\ Blocks /\ Chains /\ Lists
  BY DEF IInv
<1>1. /\ Whole(b) /\ taken' = taken \ RunOf(b) /\ live' = live \ {b}
      /\ UNCHANGED <<cache, slab, owner, order>>
  BY DEF KfreePages, Whole, RunOf, Frame
<1>2. Kept
  BY <1>1 DEF Kept, SameShape, Slabs
<1>3. \A q \in RunOf(b) : owner[q] = NoSlab
  BY <1>0, <1>1, BlockFacts DEF IsRun
<1>4. ASSUME NEW a \in live
      PROVE  /\ (Whole(a)' <=> Whole(a)) /\ RunOf(a)' = RunOf(a)
             /\ Whole(a) /\ a # b => RunOf(a) \subseteq taken'
  <2>1. Whole(a) => RunOf(a) \subseteq taken
    BY <1>0, BlockFacts DEF IsRun
  <2>2. Whole(a) /\ a # b => RunOf(a) \cap RunOf(b) = {}
    BY <1>0, <1>1 DEF Blocks
  <2>. QED  BY <1>0, <1>1, <1>2, <2>1, <2>2, KeptFacts
<1>5. Blocks'
  <2>1. ASSUME NEW a \in live'
        PROVE  Frame(a) \in Page /\ 0 < a[2] /\ IF Whole(a)' THEN IsRun(a)' ELSE IsObject(a)'
    <3>1. a \in live /\ a # b /\ Frame(a) \in Page /\ a[2] \in Nat \ {0}
      BY <1>0, <1>1, BlockFacts
    <3>2. ASSUME Whole(a) PROVE IsRun(a)'
      BY <1>0, <1>2, <1>4, <3>1, <3>2, RunKept
    <3>3. (Whole(a)' <=> Whole(a)) /\ (~Whole(a) => IsObject(a)')
      BY <1>0, <1>2, <3>1, KeptFacts
    <3>. QED  BY <3>1, <3>2, <3>3
  <2>2. ASSUME NEW a \in live', NEW d \in live', a[1] = d[1] PROVE a = d
    BY <1>0, <1>1, <2>2 DEF Blocks
  <2>3. ASSUME NEW a \in live', NEW d \in live', Whole(a)', Whole(d)', a # d
        PROVE  RunOf(a)' \cap RunOf(d)' = {}
    BY <1>0, <1>1, <1>4, <2>3 DEF Blocks
  <2>4. ASSUME NEW q \in taken', owner'[q] = NoSlab
        PROVE  \E a \in live' : Whole(a)' /\ q \in RunOf(a)'
    <3>1. q \in taken /\ owner[q] = NoSlab /\ q \notin RunOf(b)
      BY <1>1, <2>4
    <3>2. PICK a \in live : Whole(a) /\ q \in RunOf(a)
      BY <1>0, <3>1 DEF Blocks
    <3>3. a # b
      BY <3>1, <3>2
    <3>. QED  BY <1>1, <1>4, <3>2, <3>3
  <2>5. \A a \in live' : Frame(a)' = Frame(a)
    BY DEF Frame
  <2>. QED  BY <2>1, <2>2, <2>3, <2>4, <2>5 DEF Blocks
<1>6. \A q \in Page : \A a : a \in Objects(q)' <=> a \in Objects(q)
  <2>. SUFFICES ASSUME NEW q \in Page, NEW a PROVE a \in Objects(q)' <=> a \in Objects(q)
    OBVIOUS
  <2>1. q # NoSlab
    BY PageFacts
  <2>2. owner[b[1] \div PageSize] = NoSlab
    BY <1>1 DEF Whole, SlabAt
  <2>. QED  BY <1>1, <2>1, <2>2 DEF Objects
<1>7. /\ order' \in [Page -> Order] /\ taken' \subseteq Page
      /\ live' \subseteq Nat \X Nat /\ IsFiniteSet(live')
      /\ \A q \in Page : owner[q] # NoSlab => q \in taken'
  <2>1. IsFiniteSet(live')
    BY <1>0, <1>1, FS_RemoveElement DEF Typed
  <2>2. \A q \in Page : owner[q] # NoSlab => q \in taken'
    BY <1>0, <1>1, <1>3 DEF RunsOwned
  <2>. QED  BY <1>0, <1>1, <2>1, <2>2 DEF Typed
<1>. QED  BY <1>1, <1>5, <1>6, <1>7, FramesStep
LEMMA CreateStep ==
  ASSUME IInv, NEW size \in Nat \ {0}, NEW align \in Nat \ {0}, PageSize % align = 0,
         KmemCacheCreate(size, align)
  PROVE  IInv'
<1>0. Typed /\ Geometry /\ RunsOwned /\ Blocks /\ Chains /\ Lists
  BY DEF IInv
<1>. PICK r, k : r = NewCache(size, align) /\ k = Len(cache) + 1
  OBVIOUS
<1>1. /\ Len(cache) < MaxCache /\ Roomy(size, align) # {}
      /\ cache' = Append(cache, r) /\ UNCHANGED <<slab, owner, order, taken, live>>
  BY DEF KmemCacheCreate
<1>2. /\ r \in Cache /\ Shaped(r) /\ r.partial = <<>> /\ r.full = <<>>
      /\ r.active = 0 /\ r.slabs = 0
  BY <1>1, NewCacheFacts
<1>3. cache \in Seq(Cache) /\ Len(cache) \in Nat /\ DOMAIN cache = 1 .. Len(cache) /\ k \notin DOMAIN cache
  BY <1>0 DEF Typed
<1>4. /\ cache' \in Seq(Cache) /\ Len(cache') = k /\ DOMAIN cache' = DOMAIN cache \union {k}
      /\ cache'[k] = r /\ \A d \in DOMAIN cache : cache'[d] = cache[d]
  <2>1. /\ cache' \in Seq(Cache) /\ Len(cache') = k /\ DOMAIN cache' = 1 .. k
        /\ cache'[k] = r /\ \A d \in 1 .. Len(cache) : cache'[d] = cache[d]
    BY <1>1, <1>2, <1>3
  <2>2. 1 .. k = (1 .. Len(cache)) \union {k}
    BY <1>3
  <2>. QED  BY <1>3, <2>1, <2>2
<1>5. Slabs' = Slabs
  BY <1>1 DEF Slabs
<1>6. Kept
  BY <1>1, <1>4 DEF Kept, SameShape, Slabs
<1>7. \A q \in Slabs : CacheOf(q)' = CacheOf(q) /\ slab[q].cache \in DOMAIN cache
  BY <1>0, <1>1, <1>4, SlabFacts DEF CacheOf
<1>8. Typed'
  <2>1. Len(cache') <= MaxCache /\ MaxShift < Len(cache')
    BY <1>0, <1>1, <1>3, <1>4 DEF Typed
  <2>2. \A q \in Slabs' : /\ slab'[q].cache \in DOMAIN cache'
                          /\ slab'[q] \in SlabRec(slab'[q].cache, CacheOf(q)'.objs)
    BY <1>0, <1>1, <1>4, <1>5, <1>7, SlabFacts
  <2>. QED  BY <1>0, <1>1, <1>4, <2>1, <2>2 DEF Typed
<1>9. Geometry'
  <2>1. \A j \in 0 .. MaxShift : j + 1 \in DOMAIN cache
    BY <1>0, <1>3 DEF Typed
  <2>. QED  BY <1>0, <1>2, <1>4, <2>1 DEF Geometry
<1>10. RunsOwned'
  <2>1. \A q \in Slabs' : \A f \in Run(q, CacheOf(q)'.order) : f \in Page /\ owner'[f] = q
    BY <1>0, <1>1, <1>5, <1>7 DEF RunsOwned
  <2>2. ASSUME NEW f \in Page, owner'[f] # NoSlab
        PROVE  f \in taken' /\ owner'[f] \in Slabs' /\ f \in Run(owner'[f], cache'[slab'[owner'[f]].cache].order)
    <3>. PICK q : q = owner[f]
      OBVIOUS
    <3>1. f \in taken /\ q \in Slabs /\ f \in Run(q, CacheOf(q).order)
      BY <1>0, <1>1, <2>2 DEF RunsOwned
    <3>2. f \in Run(q, cache'[slab'[q].cache].order)
      BY <1>7, <3>1 DEF CacheOf
    <3>. QED  BY <1>1, <1>5, <3>1, <3>2
  <2>. QED  BY <2>1, <2>2 DEF RunsOwned, CacheOf
<1>11. Blocks'
  <2>1. ASSUME NEW a \in live
        PROVE  /\ Frame(a) \in Page /\ 0 < a[2] /\ IF Whole(a)' THEN IsRun(a)' ELSE IsObject(a)'
               /\ (Whole(a)' <=> Whole(a)) /\ RunOf(a)' = RunOf(a)
    <3>1. Frame(a) \in Page /\ a[2] \in Nat \ {0}
      BY <1>0, BlockFacts
    <3>2. ASSUME Whole(a) PROVE IsRun(a)'
      <4>1. RunOf(a) \subseteq taken'
        BY <1>0, <1>1, <3>2, BlockFacts DEF IsRun
      <4>. QED  BY <1>0, <1>6, <3>2, <4>1, RunKept
    <3>3. (Whole(a)' <=> Whole(a)) /\ RunOf(a)' = RunOf(a) /\ (~Whole(a) => IsObject(a)')
      BY <1>0, <1>6, KeptFacts
    <3>. QED  BY <3>1, <3>2, <3>3
  <2>2. \A a \in live : Frame(a)' = Frame(a)
    BY DEF Frame
  <2>3. \A a, d \in live : a[1] = d[1] => a = d
    BY <1>0 DEF Blocks
  <2>4. \A a, d \in live : Whole(a)' /\ Whole(d)' /\ a # d => RunOf(a)' \cap RunOf(d)' = {}
    BY <1>0, <2>1 DEF Blocks
  <2>5. \A q \in taken' : owner'[q] = NoSlab => \E a \in live : Whole(a)' /\ q \in RunOf(a)'
    BY <1>0, <1>1, <2>1 DEF Blocks
  <2>. QED  BY <1>1, <2>1, <2>2, <2>3, <2>4, <2>5 DEF Blocks
<1>12. \A q \in Page : Objects(q)' = Objects(q)
  BY <1>1 DEF Objects
<1>13. \A q \in Slabs : InUse(q)' = InUse(q)
  <2>. SUFFICES ASSUME NEW q \in Slabs PROVE InUse(q)' = InUse(q)
    OBVIOUS
  <2>1. q \in Page
    BY DEF Slabs
  <2>2. ASSUME NEW a \in Objects(q) PROVE IndexOf(a[1])' = IndexOf(a[1])
    <3>1. a \in live /\ ~Whole(a)
      BY <2>1, PageFacts DEF Objects, Whole, SlabAt
    <3>. QED  BY <1>0, <1>6, <3>1, KeptFacts
  <2>. QED  BY <1>12, <2>1, <2>2 DEF InUse
<1>14. Chains'
  <2>1. ASSUME NEW q \in Slabs' PROVE ChainOver(slab'[q], FreeObjects(q)')
    <3>1. FreeObjects(q)' = FreeObjects(q)
      BY <1>5, <1>7, <1>13 DEF FreeObjects
    <3>. QED  BY <1>0, <1>1, <1>5, <3>1 DEF Chains
  <2>. QED  BY <2>1 DEF Chains
<1>15. Lists'
  <2>1. ASSUME NEW d \in DOMAIN cache PROVE ListsOf(d)'
    <3>1. \A q : q \in OwnSlabs(d)' <=> q \in OwnSlabs(d)
      BY <1>1, <1>5 DEF OwnSlabs
    <3>2. Active(d)' = Active(d)
      <4>1. \A q \in OwnSlabs(d) : Objects(q)' = Objects(q)
        BY <1>12 DEF OwnSlabs, Slabs
      <4>2. OwnSlabs(d)' = OwnSlabs(d)
        BY <3>1
      <4>. QED  BY <4>1, <4>2 DEF Active
    <3>3. ListsOf(d) /\ cache'[d] = cache[d] /\ \A q \in OwnSlabs(d) : slab'[q] = slab[q]
      BY <1>0, <1>1, <1>4 DEF Lists
    <3>. QED  BY ONLY <3>1, <3>2, <3>3, ListsKept
  <2>2. ListsOf(k)'
    <3>1. OwnSlabs(k)' = {}
      <4>1. \A q : q \notin OwnSlabs(k)'
        BY <1>1, <1>3, <1>5, <1>7 DEF OwnSlabs
      <4>. QED  BY <4>1
    <3>2. Active(k)' = {}
      BY <3>1 DEF Active
    <3>3. IsInjective(<<>>) /\ ToSet(<<>>) = {}
      BY DEF IsInjective, ToSet
    <3>4. Cardinality({}) = 0
      BY FS_EmptySet
    <3>. QED  BY <1>2, <1>4, <3>1, <3>2, <3>3, <3>4 DEF ListsOf
  <2>. QED  BY <1>4, <2>1, <2>2 DEF Lists
<1>. QED  BY <1>8, <1>9, <1>10, <1>11, <1>14, <1>15 DEF IInv

LEMMA InitGood == Init => IInv
<1>. SUFFICES ASSUME Init PROVE IInv
  OBVIOUS
<1>1. /\ cache = [i \in 1 .. MaxShift + 1 |-> NewCache(2^(i - 1), 1)]
      /\ slab = [p \in Page |-> Nothing]
      /\ owner = [p \in Page |-> NoSlab] /\ order = [p \in Page |-> 0]
      /\ taken = {} /\ live = {}
  BY DEF Init
<1>2. Slabs = {}
  BY <1>1 DEF Slabs
<1>3. ASSUME NEW i \in 1 .. MaxShift + 1
      PROVE  /\ cache[i] \in Cache /\ Shaped(cache[i]) /\ cache[i].size = 2^(i - 1)
             /\ cache[i].partial = <<>> /\ cache[i].full = <<>> /\ cache[i].active = 0 /\ cache[i].slabs = 0
  <2>. PICK k, n : k = i - 1 /\ n = 2^k
    OBVIOUS
  <2>1. k \in 0 .. MaxShift /\ n \in Nat \ {0} /\ Roomy(n, 1) # {} /\ PageSize % 1 = 0
    <3>1. k \in 0 .. MaxShift
      OBVIOUS
    <3>2. \A x \in Nat : x % 1 = 0
      OBVIOUS
    <3>. QED  BY <3>1, <3>2, GeometryAssumption
  <2>2. cache[i] = NewCache(n, 1)
    BY <1>1
  <2>3. 1 \in Nat \ {0}
    OBVIOUS
  <2>4. AlignUp(n, 1) = n
    BY <2>1, <2>3, AlignFacts
  <2>5. LET r == NewCache(n, 1) IN
        /\ r \in Cache /\ Shaped(r) /\ r.partial = <<>> /\ r.full = <<>>
        /\ r.active = 0 /\ r.slabs = 0 /\ r.size = AlignUp(n, 1)
    BY ONLY <2>1, <2>3, NewCacheFacts
  <2>. QED  BY <2>2, <2>4, <2>5
<1>4. cache \in Seq(Cache) /\ Len(cache) = MaxShift + 1 /\ DOMAIN cache = 1 .. MaxShift + 1
  <2>1. DOMAIN cache = 1 .. MaxShift + 1 /\ MaxShift + 1 \in Nat
    BY <1>1
  <2>2. cache = [i \in 1 .. MaxShift + 1 |-> cache[i]]
    BY <1>1, <2>1
  <2>3. cache \in [1 .. MaxShift + 1 -> Cache]
    BY <1>3, <2>2
  <2>. QED  BY <2>1, <2>3
<1>5. Typed
  <2>1. 0 \in Order
    BY DEF Order
  <2>2. IsFiniteSet(live)
    BY <1>1, FS_EmptySet
  <2>3. Len(cache) <= MaxCache /\ MaxShift < Len(cache)
    BY <1>4
  <2>. QED  BY <1>1, <1>2, <1>4, <2>1, <2>2, <2>3 DEF Typed
<1>6. Geometry
  <2>1. \A k \in 0 .. MaxShift : k + 1 \in 1 .. MaxShift + 1 /\ (k + 1) - 1 = k
    OBVIOUS
  <2>. QED  BY <1>3, <1>4, <2>1 DEF Geometry
<1>7. RunsOwned /\ Blocks /\ Chains
  BY <1>1, <1>2 DEF RunsOwned, Blocks, Chains
<1>8. Lists
  <2>. SUFFICES ASSUME NEW c \in DOMAIN cache PROVE ListsOf(c)
    BY DEF Lists
  <2>1. OwnSlabs(c) = {} /\ Active(c) = {}
    BY <1>2 DEF OwnSlabs, Active
  <2>2. IsInjective(<<>>) /\ ToSet(<<>>) = {}
    BY DEF IsInjective, ToSet
  <2>3. Cardinality({}) = 0
    BY FS_EmptySet
  <2>. QED  BY <1>3, <1>4, <2>1, <2>2, <2>3 DEF ListsOf
<1>. QED  BY <1>5, <1>6, <1>7, <1>8 DEF IInv
-----------------------------------------------------------------------------
(* Every operation keeps the invariant; n is what the caller asked for.    *)
LEMMA NextGood == IInv /\ [Next]_vars => IInv'
<1>. SUFFICES ASSUME IInv, [Next]_vars PROVE IInv'
  OBVIOUS
<1>0. Typed /\ Geometry
  BY DEF IInv
<1>1. ASSUME NEW s \in Requests, KmemCacheCreate(s[1], s[2]) PROVE IInv'
  <2>. PICK size, align : size = s[1] /\ align = s[2]
    OBVIOUS
  <2>1. size \in Nat \ {0} /\ align \in Nat \ {0} /\ PageSize % align = 0
    BY GeometryAssumption
  <2>2. KmemCacheCreate(size, align)
    BY <1>1
  <2>3. IInv
    OBVIOUS
  <2>. QED  BY ONLY <2>1, <2>2, <2>3, CreateStep
<1>2. ASSUME NEW c \in DOMAIN cache, NEW n \in Nat \ {0}, n <= cache[c].size, KmemCacheAlloc(c, n)
      PROVE  IInv'
  BY <1>2, PartialStep, NewSlabStep DEF KmemCacheAlloc
<1>3. ASSUME NEW c \in MaxShift + 2 .. Len(cache), KmemCacheAlloc(c, cache[c].size) PROVE IInv'
  <2>. PICK n : n = cache[c].size
    OBVIOUS
  <2>1. c \in DOMAIN cache
    BY <1>0 DEF Typed
  <2>2. n \in Nat \ {0} /\ n <= n
    <3>1. n \in Nat \ {0}
      BY <1>0, <2>1 DEF Geometry, Shaped
    <3>. QED  BY <3>1
  <2>. QED  BY <1>2, <1>3, <2>1, <2>2
<1>4. ASSUME NEW n \in Sizes, KmallocSmall(n) PROVE IInv'
  <2>. DEFINE i == CHOOSE j \in Classes(n) : \A k \in Classes(n) : j <= k
  <2>1. i \in 0 .. MaxShift /\ n <= 2^i
    <3>1. Classes(n) \subseteq Nat /\ Classes(n) # {}
      BY <1>4 DEF Classes, KmallocSmall
    <3>2. i \in Classes(n)
      BY <3>1, LeastMember
    <3>. QED  BY <3>2 DEF Classes
  <2>2. KmemCacheAlloc(1 + i, n)
    BY <1>4 DEF KmallocSmall
  <2>. HIDE DEF i
  <2>3. 1 + i \in DOMAIN cache /\ 1 + i = i + 1
    BY <1>0, <2>1 DEF Typed
  <2>4. cache[1 + i].size = 2^i
    BY <1>0, <2>1, <2>3 DEF Geometry
  <2>. QED  BY <1>2, <2>1, <2>2, <2>3, <2>4
<1>5. ASSUME NEW b \in live, KfreeObject(b) PROVE IInv'
  BY <1>5, FreeStep DEF KfreeObject
<1>6. CASE UNCHANGED vars
  <2>1. UNCHANGED <<cache, slab, owner, order, taken, live>>
    BY <1>6 DEF vars
  <2>2. order' \in [Page -> Order] /\ taken' \subseteq Page /\ live' \subseteq Nat \X Nat /\ IsFiniteSet(live')
    BY <1>0, <2>1, SMTT(30) DEF Typed
  <2>3. Blocks'
    BY <1>6 DEF vars, IInv, Blocks, Frame, Whole, SlabAt, IsRun, RunOf, IsObject, CacheOf
  <2>4. \A q \in Page : \A a : a \in Objects(q)' <=> a \in Objects(q)
    BY <2>1 DEF Objects
  <2>5. \A q \in Page : owner[q] # NoSlab => q \in taken'
    BY <2>1 DEF IInv, RunsOwned
  <2>6. IInv /\ UNCHANGED <<cache, slab, owner>>
    BY <2>1
  <2>. QED  BY ONLY <2>2, <2>3, <2>4, <2>5, <2>6, FramesStep
<1>. QED  BY <1>1, <1>3, <1>4, <1>5, <1>6, FreeStep, LargeStep, FreePagesStep DEF Next

THEOREM InvHolds == Spec => []IInv
BY InitGood, NextGood, PTL DEF Spec

(* Live blocks never share a word and stay inside their slab.              *)
THEOREM BlocksStayApart == Spec => []BlocksApart
BY InvHolds, ApartInv, PTL

(* An object is free or with one caller, and the lists and counters of     *)
(* every cache agree with its slabs.                                       *)
THEOREM SlabsStayExact == Spec => []SlabsExact
BY InvHolds, ExactInv, PTL

(* kfree finds the slab or the frames of every live address, and no frame  *)
(* is lost.                                                                *)
THEOREM OwnersStayFound == Spec => []OwnersFound
BY InvHolds, OwnersInv, PTL
=============================================================================
