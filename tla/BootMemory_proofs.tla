-------------------------- MODULE BootMemory_proofs --------------------------
(***************************************************************************)
(* Proofs about Buddy and BootMemory, for any memory size, layout, image   *)
(* and firmware that the assumptions of those modules allow: first what    *)
(* splitting and merging do to the free lists (FramesInv), then what the   *)
(* map, the bump allocator and the reservations do to the machine's        *)
(* memory (BootInv), then the properties the run checks, and that it all   *)
(* implements FrameAllocator.                                              *)
(***************************************************************************)
EXTENDS BootMemory, KernelLemmas, FiniteSetTheorems, FunctionTheorems

(* Powers of two up to 2^MaxOrder.                                         *)
LEMMA PowerFacts ==
  /\ 2^0 = 1
  /\ \A k \in 0 .. MaxOrder : 2^k \in Nat \ {0} /\ 2^(k + 1) = 2 * 2^k
BY PowerAssumption

(* A larger power is a multiple of a smaller one. *)
LEMMA PowerMultiple ==
  ASSUME NEW j \in 0 .. MaxOrder, NEW k \in 0 .. MaxOrder, j <= k
  PROVE  \E m \in Nat \ {0} : 2^k = m * 2^j
<1>. MaxOrder \in Nat
  BY BuddyAssumption
<1>. DEFINE T == {x \in Nat : j <= x /\ x <= MaxOrder /\ ~\E m \in Nat \ {0} : 2^x = m * 2^j}
<1>0. SUFFICES ASSUME ~\E m \in Nat \ {0} : 2^k = m * 2^j PROVE FALSE
  OBVIOUS
<1>1. T # {}
  <2>1. k \in Nat /\ k <= MaxOrder
    OBVIOUS
  <2>2. k \in T
    BY <1>0, <2>1
  <2>. QED  BY <2>2
<1>2. PICK x \in T : \A y \in T : x <= y
  BY <1>1, LeastMember
<1>3. x # j
  <2>1. 2^j = 1 * 2^j
    BY PowerFacts
  <2>. QED  BY <2>1
<1>4. PICK y \in Nat : x = y + 1 /\ j <= y /\ y \in 0 .. MaxOrder
  <2>1. x - 1 \in Nat /\ x = (x - 1) + 1 /\ j <= x - 1 /\ x - 1 \in 0 .. MaxOrder
    BY <1>3
  <2>. QED  BY <2>1
<1>5. y \notin T
  BY <1>2, <1>4
<1>6. PICK m \in Nat \ {0} : 2^y = m * 2^j
  BY <1>4, <1>5
<1>7. 2^x = 2 * 2^y /\ 2^j \in Nat
  BY <1>4, PowerFacts
<1>8. 2^x = (2 * m) * 2^j /\ 2 * m \in Nat \ {0}
  <2>. PICK w \in Nat : w = 2^j
    BY <1>7
  <2>1. 2^x = 2 * (m * w)
    BY <1>6, <1>7
  <2>2. 2 * (m * w) = (2 * m) * w
    OBVIOUS
  <2>. QED  BY <2>1, <2>2
<1>. QED  BY <1>8

(* A larger exponent gives a larger power.                                 *)
LEMMA PowerOrder ==
  ASSUME NEW j \in 0 .. MaxOrder, NEW k \in 0 .. MaxOrder, j < k
  PROVE  2^(j + 1) <= 2^k /\ 2^j < 2^k /\ 2 * 2^j <= 2^k
<1>. MaxOrder \in Nat
  BY BuddyAssumption
<1>0. j + 1 \in 0 .. MaxOrder /\ j + 1 <= k
  OBVIOUS
<1>1. PICK m \in Nat \ {0} : 2^k = m * 2^(j + 1)
  BY <1>0, PowerMultiple
<1>2. 2^(j + 1) = 2 * 2^j /\ 2^j \in Nat \ {0} /\ 2^k \in Nat
  BY PowerFacts
<1>. PICK w \in Nat \ {0} : w = 2^j
  BY <1>2
<1>3. m * (2 * w) >= 2 * w
  OBVIOUS
<1>. QED  BY <1>1, <1>2, <1>3

(* What is aligned to an order is aligned to the lower ones.               *)
LEMMA AlignedBelow ==
  ASSUME NEW j \in 0 .. MaxOrder, NEW k \in 0 .. MaxOrder, j <= k, NEW p \in Nat, p % 2^k = 0
  PROVE  p % 2^j = 0
<1>1. 2^j \in Nat \ {0} /\ 2^k \in Nat \ {0}
  BY PowerFacts
<1>2. PICK m \in Nat \ {0} : 2^k = m * 2^j
  BY PowerMultiple
<1>3. PICK i \in Nat : p = i * 2^k
  BY <1>1, MultipleIff
<1>. PICK w \in Nat : w = 2^j
  BY <1>1
<1>4. p = i * (m * w)
  BY <1>2, <1>3
<1>5. p = (i * m) * w /\ i * m \in Nat
  BY <1>4
<1>. QED  BY <1>1, <1>5, MultipleIff

(* Two aligned runs are nested or apart. *)
LEMMA RunsNest ==
  ASSUME NEW j \in 0 .. MaxOrder, NEW k \in 0 .. MaxOrder, j <= k,
         NEW p \in Nat, NEW q \in Nat, p % 2^j = 0, q % 2^k = 0,
         Run(p, j) \cap Run(q, k) # {}
  PROVE  Run(p, j) \subseteq Run(q, k)
<1>1. 2^j \in Nat \ {0} /\ 2^k \in Nat \ {0}
  BY PowerFacts
<1>2. PICK m \in Nat \ {0} : 2^k = m * 2^j
  BY PowerMultiple
<1>. PICK w \in Nat \ {0} : w = 2^j
  BY <1>1
<1>3. PICK i \in Nat : p = i * w
  BY <1>1, MultipleIff
<1>4. PICK l \in Nat : q = l * (m * w)
  BY <1>1, <1>2, MultipleIff
<1>. PICK h \in Nat : h = l * m
  OBVIOUS
<1>5. q = h * w
  BY <1>4
<1>6. PICK x : x \in Run(p, j) /\ x \in Run(q, k)
  OBVIOUS
<1>7. /\ x \in Int /\ i * w <= x /\ x < i * w + w
      /\ h * w <= x /\ x < h * w + m * w
  BY <1>1, <1>2, <1>3, <1>5, <1>6 DEF Run
<1>8. h <= i
  <2>1. SUFFICES ASSUME i + 1 <= h PROVE FALSE
    OBVIOUS
  <2>2. (i + 1) * w <= h * w /\ (i + 1) * w = i * w + w
    BY <2>1
  <2>. QED  BY <1>7, <2>2
<1>9. i + 1 <= h + m
  <2>1. SUFFICES ASSUME h + m <= i PROVE FALSE
    OBVIOUS
  <2>2. (h + m) * w <= i * w /\ (h + m) * w = h * w + m * w
    BY <2>1
  <2>. QED  BY <1>7, <2>2
<1>10. h * w <= i * w /\ i * w + w <= h * w + m * w
  <2>1. h * w <= i * w
    BY <1>8
  <2>2. (i + 1) * w <= (h + m) * w /\ (i + 1) * w = i * w + w /\ (h + m) * w = h * w + m * w
    BY <1>9
  <2>. QED  BY <2>1, <2>2
<1>11. q <= p /\ p + 2^j <= q + 2^k
  BY <1>2, <1>3, <1>5, <1>10
<1>. QED  BY <1>1, <1>11 DEF Run

(* The frames of a run, and how many they are.                             *)
LEMMA RunFacts ==
  ASSUME NEW p \in Nat, NEW k \in 0 .. MaxOrder
  PROVE  /\ p \in Run(p, k) /\ Run(p, k) \subseteq Nat
         /\ IsFiniteSet(Run(p, k)) /\ Cardinality(Run(p, k)) = 2^k
         /\ \A x : x \in Run(p, k) <=> x \in Nat /\ p <= x /\ x < p + 2^k
<1>1. 2^k \in Nat \ {0}
  BY PowerFacts
<1>2. p + 2^k - 1 \in Int /\ ~(p > p + 2^k - 1) /\ (p + 2^k - 1) - p + 1 = 2^k
  BY <1>1
<1>3. IsFiniteSet(Run(p, k)) /\ Cardinality(Run(p, k)) = 2^k
  BY <1>2, FS_Interval DEF Run
<1>. QED  BY <1>1, <1>3 DEF Run

(* Rounding a frame down gives the aligned run that holds it.              *)
LEMMA AlignDownFacts ==
  ASSUME NEW p \in Nat, NEW k \in 0 .. MaxOrder
  PROVE  /\ AlignDown(p, k) \in Nat /\ AlignDown(p, k) % 2^k = 0
         /\ AlignDown(p, k) <= p /\ p \in Run(AlignDown(p, k), k)
         /\ \A q \in Nat : q % 2^k = 0 /\ p \in Run(q, k) => q = AlignDown(p, k)
<1>1. 2^k \in Nat \ {0}
  BY PowerFacts
<1>. PICK w \in Nat \ {0} : w = 2^k
  BY <1>1
<1>2. PICK i, c : i = p \div w /\ c = p % w
  OBVIOUS
<1>3. i \in Nat /\ c \in 0 .. w - 1 /\ p = w * i + c
  BY <1>2, DivModFacts
<1>4. AlignDown(p, k) = i * w
  BY <1>2, <1>3 DEF AlignDown
<1>. PICK a \in Nat : a = i * w
  BY <1>3
<1>5. a % w = 0 /\ a <= p /\ p < a + w
  BY <1>3, MultipleIff
<1>6. ASSUME NEW q \in Nat, q % w = 0, p \in Run(q, k) PROVE q = a
  <2>1. PICK l \in Nat : q = l * w
    BY <1>6, MultipleIff
  <2>2. q <= p /\ p < q + w
    BY <1>6, RunFacts
  <2>. PICK d \in Nat : d = p - q
    BY <2>2
  <2>3. p = l * w + d /\ d \in 0 .. w - 1
    BY <2>1, <2>2
  <2>4. i = l
    BY <1>3, <2>3, ProductUnique
  <2>. QED  BY <2>1, <2>4
<1>7. p \in Run(a, k)
  BY <1>5, RunFacts
<1>. QED  BY <1>4, <1>5, <1>6, <1>7

(* An aligned frame is rounded to itself.                                  *)
LEMMA AlignDownSelf ==
  ASSUME NEW p \in Nat, NEW k \in 0 .. MaxOrder, p % 2^k = 0
  PROVE  AlignDown(p, k) = p
BY AlignDownFacts, RunFacts

(* Rounding down by steps or at once. *)
LEMMA AlignDownTwice ==
  ASSUME NEW x \in Nat, NEW p \in Nat, NEW j \in 0 .. MaxOrder, NEW k \in 0 .. MaxOrder, j <= k,
         p % 2^j = 0, x \in Run(p, j)
  PROVE  AlignDown(x, k) = AlignDown(p, k) /\ Run(p, j) \subseteq Run(AlignDown(p, k), k)
<1>. PICK a : a = AlignDown(p, k)
  OBVIOUS
<1>1. a \in Nat /\ a % 2^k = 0 /\ p \in Run(a, k) /\ p \in Run(p, j)
  BY AlignDownFacts, RunFacts
<1>2. Run(p, j) \subseteq Run(a, k)
  BY <1>1, RunsNest
<1>3. a = AlignDown(x, k)
  BY <1>1, <1>2, AlignDownFacts
<1>. QED  BY <1>2, <1>3

(* The buddy of an aligned run: the other half of the run of the next      *)
(* order.                                                                  *)
LEMMA BuddyFacts ==
  ASSUME NEW p \in Nat, NEW k \in 0 .. MaxOrder - 1, p % 2^k = 0
  PROVE  /\ BuddyOf(p, k) \in Nat /\ BuddyOf(p, k) % 2^k = 0
         /\ BuddyOf(p, k) # p /\ BuddyOf(BuddyOf(p, k), k) = p
         /\ Run(p, k) \cap Run(BuddyOf(p, k), k) = {}
         /\ Run(AlignDown(p, k + 1), k + 1) = Run(p, k) \union Run(BuddyOf(p, k), k)
         /\ p % 2^(k + 1) = 0 => BuddyOf(p, k) = p + 2^k
<1>0. MaxOrder \in Nat /\ k \in 0 .. MaxOrder /\ k + 1 \in 0 .. MaxOrder
  BY BuddyAssumption
<1>1. 2^k \in Nat \ {0} /\ 2^(k + 1) = 2 * 2^k
  BY <1>0, PowerFacts
<1>. PICK w \in Nat \ {0} : w = 2^k
  BY <1>1
<1>. PICK v \in Nat \ {0} : v = 2 * w
  OBVIOUS
<1>2. PICK i \in Nat : p = i * w
  BY MultipleIff
<1>3. \A l \in Nat : (l * w) \div w = l /\ (l * w) % w = 0
  <2>. TAKE l \in Nat
  <2>1. 0 \in 0 .. w - 1 /\ l * w = l * w + 0
    OBVIOUS
  <2>. QED  BY <2>1, MultipleFacts
<1>4. CASE i % 2 = 0
  <2>1. BuddyOf(p, k) = p + w
    BY <1>2, <1>3, <1>4 DEF BuddyOf
  <2>2. p + w = (i + 1) * w
    BY <1>2
  <2>3. (i + 1) % 2 # 0 /\ i + 1 \in Nat
    BY <1>4
  <2>4. ((p + w) \div w) % 2 # 0 /\ (p + w) % w = 0
    BY <1>3, <2>2, <2>3
  <2>5. BuddyOf(p + w, k) = p
    BY <2>4 DEF BuddyOf
  <2>6. PICK h \in Nat : i = 2 * h
    <3>1. i \div 2 \in Nat /\ i = 2 * (i \div 2)
      BY <1>4
    <3>. QED  BY <3>1
  <2>7. p = h * v
    BY <1>2, <2>6
  <2>8. p % v = 0
    BY <2>7, MultipleIff
  <2>9. AlignDown(p, k + 1) = p
    BY <1>0, <1>1, <2>8, AlignDownSelf
  <2>10. Run(p, k + 1) = Run(p, k) \union Run(p + w, k) /\ Run(p, k) \cap Run(p + w, k) = {}
    BY <1>1 DEF Run
  <2>. QED  BY <2>1, <2>4, <2>5, <2>9, <2>10
<1>5. CASE i % 2 # 0
  <2>1. BuddyOf(p, k) = p - w
    BY <1>2, <1>3, <1>5 DEF BuddyOf
  <2>2. i - 1 \in Nat /\ (i - 1) % 2 = 0
    BY <1>5
  <2>. PICK l \in Nat : l = i - 1
    BY <2>2
  <2>3. p - w = l * w
    <3>1. (l + 1) * w = l * w + w
      OBVIOUS
    <3>. QED  BY <1>2, <3>1
  <2>. PICK b \in Nat : b = p - w
    BY <2>3
  <2>4. (b \div w) % 2 = 0 /\ b % w = 0
    BY <1>3, <2>2, <2>3
  <2>5. BuddyOf(b, k) = p
    BY <2>4 DEF BuddyOf
  <2>6. PICK h \in Nat : l = 2 * h
    <3>1. l \div 2 \in Nat /\ l = 2 * (l \div 2)
      BY <2>2
    <3>. QED  BY <3>1
  <2>7. b = h * v
    BY <2>3, <2>6
  <2>8. b % v = 0
    BY <2>7, MultipleIff
  <2>9. p \in Run(b, k + 1)
    BY <1>0, <1>1, RunFacts, SMTT(30)
  <2>10. AlignDown(p, k + 1) = b
    BY <1>0, <1>1, <2>8, <2>9, AlignDownFacts
  <2>11. Run(b, k + 1) = Run(b, k) \union Run(p, k) /\ Run(b, k) \cap Run(p, k) = {}
    BY <1>1 DEF Run
  <2>12. p % v # 0
    <3>1. p = h * v + w /\ w \in 0 .. v - 1
      BY <2>7
    <3>2. p % v = w
      BY <3>1, MultipleFacts
    <3>. QED  BY <3>2
  <2>. QED  BY <1>1, <2>1, <2>4, <2>5, <2>10, <2>11, <2>12
<1>. QED  BY <1>4, <1>5
-----------------------------------------------------------------------------
(* s lists the members of S in the strict order before.                    *)
StrictOrder(S, before) ==
  /\ \A x \in S : <<x, x>> \notin before
  /\ \A x, y, z \in S : <<x, y>> \in before /\ <<y, z>> \in before => <<x, z>> \in before
  /\ \A x, y \in S : x = y \/ <<x, y>> \in before \/ <<y, x>> \in before

InOrder(s, S, before) ==
  /\ s \in [1 .. Cardinality(S) -> S]
  /\ s \in Seq(S) /\ Len(s) = Cardinality(S) /\ Cardinality(S) \in Nat
  /\ IsInjective(s) /\ ToSet(s) = S
  /\ \A x \in S : \E i \in 1 .. Cardinality(S) : s[i] = x
  /\ \A i, j \in 1 .. Cardinality(S) : i < j => <<s[i], s[j]>> \in before

(* Arranging a finite set by a strict order lists each member once, in     *)
(* that order.                                                             *)
LEMMA ArrangedFacts ==
  ASSUME NEW S, IsFiniteSet(S), NEW before, StrictOrder(S, before)
  PROVE  InOrder(Arranged(S, before), S, before)
<1>. USE DEF StrictOrder
<1>. PICK n : n = Cardinality(S)
  OBVIOUS
<1>0. n \in Nat
  BY FS_CardinalityType
<1>. DEFINE Below(x) == {y \in S : <<y, x>> \in before}
<1>1. PICK rank : rank = [x \in S |-> Cardinality(Below(x))]
  OBVIOUS
<1>2. ASSUME NEW x \in S PROVE IsFiniteSet(Below(x)) /\ rank[x] \in Nat /\ rank[x] = Cardinality(Below(x))
  <2>1. Below(x) \in SUBSET S
    OBVIOUS
  <2>2. IsFiniteSet(Below(x))
    BY <2>1, FS_Subset
  <2>. QED  BY <1>1, <2>2, FS_CardinalityType
<1>3. ASSUME NEW x \in S, NEW y \in S, <<x, y>> \in before PROVE rank[x] < rank[y]
  <2>1. x \notin Below(x)
    OBVIOUS
  <2>2. Below(x) \union {x} \in SUBSET Below(y)
    BY <1>3
  <2>3. Cardinality(Below(x) \union {x}) = Cardinality(Below(x)) + 1
    BY <1>2, <2>1, FS_AddElement
  <2>4. Cardinality(Below(x) \union {x}) <= Cardinality(Below(y))
    BY <1>2, <2>2, FS_Subset
  <2>. HIDE DEF Below
  <2>. QED  BY <1>2, <2>3, <2>4
<1>4. ASSUME NEW x \in S PROVE rank[x] \in 0 .. n - 1
  <2>1. x \notin Below(x)
    OBVIOUS
  <2>2. Below(x) \union {x} \in SUBSET S
    OBVIOUS
  <2>3. Cardinality(Below(x) \union {x}) = Cardinality(Below(x)) + 1
    BY <1>2, <2>1, FS_AddElement
  <2>4. Cardinality(Below(x) \union {x}) <= Cardinality(S)
    BY <2>2, FS_Subset
  <2>. HIDE DEF Below
  <2>. QED  BY <1>0, <1>2, <2>3, <2>4
<1>. HIDE DEF Below
<1>18. \A x \in S : rank[x] \in Nat
  BY <1>2
<1>19. \A x, y \in S : <<x, y>> \in before => rank[x] < rank[y]
  BY <1>3
<1>20. \A x, y \in S : rank[x] = rank[y] => x = y
  <2>. TAKE x, y \in S
  <2>1. rank[x] \in Nat /\ rank[y] \in Nat
    BY <1>18
  <2>2. <<x, y>> \in before => rank[x] < rank[y]
    BY <1>19
  <2>3. <<y, x>> \in before => rank[y] < rank[x]
    BY <1>19
  <2>. QED  BY <2>1, <2>2, <2>3
<1>5. rank \in Injection(S, 0 .. n - 1)
  <2>1. rank \in [S -> 0 .. n - 1]
    BY <1>1, <1>4
  <2>2. ASSUME NEW x \in S, NEW y \in S, rank[x] = rank[y] PROVE x = y
    BY <1>20, <2>2
  <2>3. DOMAIN rank = S
    BY <1>1
  <2>. QED  BY <2>1, <2>2, <2>3 DEF Injection, IsInjective
<1>6. IsFiniteSet(0 .. n - 1) /\ Cardinality(0 .. n - 1) = n
  <2>1. 0 \in Int /\ n - 1 \in Int
    BY <1>0
  <2>2. IsFiniteSet(0 .. n - 1) /\ Cardinality(0 .. n - 1) = IF 0 > n - 1 THEN 0 ELSE (n - 1) - 0 + 1
    BY <2>1, FS_Interval
  <2>. QED  BY <1>0, <2>2
<1>7. rank \in Surjection(S, 0 .. n - 1)
  BY <1>5, <1>6, FS_Injection
<1>8. \A k \in 0 .. n - 1 : \E x \in S : rank[x] = k
  BY <1>7 DEF Surjection
<1>9. \A x, y \in S : rank[x] = rank[y] => x = y
  BY <1>20
<1>10. PICK a : a = Arranged(S, before)
  OBVIOUS
<1>11. a = [i \in 1 .. n |-> CHOOSE x \in S : rank[x] = i - 1]
  <2>1. a = [i \in 1 .. n |-> CHOOSE x \in S : Cardinality(Below(x)) = i - 1]
    BY <1>10 DEF Arranged, Below
  <2>2. ASSUME NEW i \in 1 .. n
        PROVE  (CHOOSE x \in S : Cardinality(Below(x)) = i - 1) = (CHOOSE x \in S : rank[x] = i - 1)
    <3>1. \A x \in S : Cardinality(Below(x)) = rank[x]
      BY <1>2
    <3>2. PICK x \in S : rank[x] = i - 1
      BY <1>0, <1>8
    <3>3. PICK u : u = CHOOSE z \in S : Cardinality(Below(z)) = i - 1
      OBVIOUS
    <3>4. u \in S /\ Cardinality(Below(u)) = i - 1
      <4>1. Cardinality(Below(x)) = i - 1
        BY <3>1, <3>2
      <4>. QED  BY <3>3, <4>1, Zenon
    <3>5. PICK v : v = CHOOSE z \in S : rank[z] = i - 1
      OBVIOUS
    <3>6. v \in S /\ rank[v] = i - 1
      BY <3>2, <3>5, Zenon
    <3>7. u = v
      BY <1>9, <3>1, <3>4, <3>6
    <3>. QED  BY <3>3, <3>5, <3>7
  <2>. QED  BY <2>1, <2>2
<1>12. \A i \in 1 .. n : a[i] \in S /\ rank[a[i]] = i - 1
  <2>. TAKE i \in 1 .. n
  <2>1. PICK x \in S : rank[x] = i - 1
    BY <1>0, <1>8
  <2>2. a[i] = CHOOSE z \in S : rank[z] = i - 1
    BY <1>11
  <2>. QED  BY <2>1, <2>2, Zenon
<1>13. a \in [1 .. n -> S]
  BY <1>11, <1>12
<1>14. a \in Seq(S) /\ Len(a) = n
  BY <1>0, <1>13
<1>15. IsInjective(a)
  <2>1. DOMAIN a = 1 .. n
    BY <1>13
  <2>2. \A i, j \in 1 .. n : a[i] = a[j] => i = j
    BY <1>0, <1>12
  <2>. QED  BY <2>1, <2>2 DEF IsInjective
<1>16. ASSUME NEW x \in S PROVE \E i \in 1 .. n : a[i] = x
  <2>1. rank[x] + 1 \in 1 .. n /\ (rank[x] + 1) - 1 = rank[x]
    BY <1>0, <1>4
  <2>2. rank[a[rank[x] + 1]] = rank[x] /\ a[rank[x] + 1] \in S
    BY <1>12, <2>1
  <2>. QED  BY <1>9, <2>1, <2>2
<1>17. ASSUME NEW i \in 1 .. n, NEW j \in 1 .. n, i < j PROVE <<a[i], a[j]>> \in before
  <2>1. a[i] \in S /\ a[j] \in S /\ rank[a[i]] < rank[a[j]]
    BY <1>0, <1>12, <1>17
  <2>2. rank[a[i]] \in Nat /\ rank[a[j]] \in Nat
    BY <1>18, <2>1
  <2>3. a[i] = a[j] \/ <<a[i], a[j]>> \in before \/ <<a[j], a[i]>> \in before
    BY <2>1
  <2>4. ~(<<a[j], a[i]>> \in before)
    BY <1>19, <2>1, <2>2
  <2>. QED  BY <2>1, <2>2, <2>3, <2>4
<1>21. ToSet(a) = S
  <2>1. DOMAIN a = 1 .. n /\ \A i \in 1 .. n : a[i] \in S
    BY <1>12, <1>13
  <2>. QED  BY <1>16, <2>1 DEF ToSet
<1>. QED  BY <1>0, <1>10, <1>13, <1>14, <1>15, <1>16, <1>17, <1>21 DEF InOrder

(* A bounded set of numbers has a greatest member.                         *)
LEMMA GreatestMember ==
  ASSUME NEW n \in Nat, NEW T, T \subseteq 0 .. n, T # {}
  PROVE  \E x \in T : \A y \in T : y <= x
<1>. DEFINE U == {z \in 0 .. n : n - z \in T}
<1>1. U \subseteq Nat /\ U # {}
  <2>1. PICK x \in T : TRUE
    OBVIOUS
  <2>2. n - x \in 0 .. n /\ n - (n - x) = x
    BY <2>1
  <2>3. n - x \in U
    BY <2>1, <2>2
  <2>4. U \subseteq Nat
    OBVIOUS
  <2>. HIDE DEF U
  <2>. QED  BY <2>3, <2>4
<1>2. PICK z \in U : \A y \in U : z <= y
  BY <1>1, LeastMember
<1>3. ASSUME NEW y \in T PROVE y <= n - z
  <2>1. n - y \in 0 .. n /\ n - (n - y) = y
    OBVIOUS
  <2>2. n - y \in U
    BY <2>1
  <2>3. z <= n - y
    BY <1>2, <2>2
  <2>. QED  BY <2>3
<1>. QED  BY <1>2, <1>3
-----------------------------------------------------------------------------
Block == Pfn \X Order
Span(b) == Run(b[1], b[2])

(* The frame, order and span of a block.                                   *)
LEMMA BlockFacts ==
  ASSUME NEW b \in Block
  PROVE  /\ b[1] \in Nat /\ b[1] \in Pfn /\ b[2] \in Order /\ b[2] \in 0 .. MaxOrder /\ b[2] \in Nat
         /\ b = <<b[1], b[2]>> /\ b[1] \in Span(b) /\ Span(b) \subseteq Nat
         /\ MaxOrder \in Nat \ {0} /\ Order \subseteq 0 .. MaxOrder /\ 0 \in Order
<1>1. b[1] \in Nat /\ b[1] \in Pfn /\ b[2] \in Order /\ b[2] \in 0 .. MaxOrder /\ b[2] \in Nat
  BY BuddyAssumption DEF Block, Pfn, Order
<1>2. b = <<b[1], b[2]>>
  BY DEF Block
<1>3. b[1] \in Span(b) /\ Span(b) \subseteq Nat
  BY <1>1, RunFacts DEF Span
<1>4. MaxOrder \in Nat \ {0} /\ Order \subseteq 0 .. MaxOrder /\ 0 \in Order
  BY BuddyAssumption DEF Order
<1>. QED  BY <1>1, <1>2, <1>3, <1>4

Aligned(b) == b[1] % 2^b[2] = 0

(* Two aligned blocks are nested or apart.                                 *)
LEMMA BlocksNest ==
  ASSUME NEW b \in Block, NEW c \in Block, Aligned(b), Aligned(c), b[2] <= c[2],
         Span(b) \cap Span(c) # {}
  PROVE  /\ Span(b) \subseteq Span(c) /\ AlignDown(b[1], c[2]) = c[1]
         /\ b[2] = c[2] => b = c
<1>1. /\ b[1] \in Nat /\ b[2] \in 0 .. MaxOrder /\ b = <<b[1], b[2]>> /\ b[1] \in Span(b)
      /\ c[1] \in Nat /\ c[2] \in 0 .. MaxOrder /\ c = <<c[1], c[2]>>
  BY BlockFacts
<1>2. b[1] % 2^b[2] = 0 /\ c[1] % 2^c[2] = 0
  BY DEF Aligned
<1>3. Span(b) \subseteq Span(c)
  BY <1>1, <1>2, RunsNest DEF Span
<1>4. c[1] = AlignDown(b[1], c[2])
  BY <1>1, <1>2, <1>3, AlignDownFacts DEF Span
<1>5. ASSUME b[2] = c[2] PROVE b = c
  <2>1. AlignDown(b[1], b[2]) = b[1]
    BY <1>1, <1>2, AlignDownSelf
  <2>. QED  BY <1>1, <1>4, <1>5, <2>1
<1>. QED  BY <1>3, <1>4, <1>5

(* kBuildBuddyLists makes aligned blocks of the free frames that are       *)
(* apart, together all of them, and as large as they can be.               *)
LEMMA BlocksFacts ==
  ASSUME NEW free, free \subseteq Pfn
  PROVE  /\ Blocks(free) \subseteq Block
         /\ \A b \in Blocks(free) : Aligned(b) /\ Span(b) \subseteq free
         /\ \A b, c \in Blocks(free) : Span(b) \cap Span(c) # {} => b = c
         /\ \A f \in Nat, k \in Order :
              Run(AlignDown(f, k), k) \subseteq free =>
                \E b \in Blocks(free) : f \in Span(b) /\ b[2] >= k
         /\ \A b \in Blocks(free) : b[2] < MaxOrder - 1 => <<BuddyOf(b[1], b[2]), b[2]>> \notin Blocks(free)
<1>1. Blocks(free) \subseteq Block
  BY DEF Blocks, Block
<1>2. \A b \in Blocks(free) : Aligned(b) /\ Span(b) \subseteq free
  BY DEF Blocks, Makes, Aligned, Span
<1>3. ASSUME NEW b \in Blocks(free), NEW k \in Order, k > b[2]
      PROVE  ~Makes(free, AlignDown(b[1], k), k)
  BY <1>3 DEF Blocks
<1>4. ASSUME NEW b \in Blocks(free), NEW c \in Blocks(free), b[2] <= c[2], Span(b) \cap Span(c) # {}
      PROVE  b = c
  <2>1. b \in Block /\ c \in Block /\ Aligned(b) /\ Aligned(c)
    BY <1>1, <1>2
  <2>2. AlignDown(b[1], c[2]) = c[1] /\ (b[2] = c[2] => b = c)
    BY <1>4, <2>1, BlocksNest
  <2>3. Makes(free, c[1], c[2]) /\ c[2] \in Order /\ b[2] \in Nat /\ c[2] \in Nat
    BY <2>1, BlockFacts DEF Blocks
  <2>. QED  BY <1>3, <1>4, <2>2, <2>3
<1>5. \A b, c \in Blocks(free) : Span(b) \cap Span(c) # {} => b = c
  <2>. TAKE b, c \in Blocks(free)
  <2>1. b[2] \in Nat /\ c[2] \in Nat
    BY <1>1, BlockFacts
  <2>2. b[2] <= c[2] \/ c[2] <= b[2]
    BY <2>1
  <2>3. Span(b) \cap Span(c) = Span(c) \cap Span(b)
    OBVIOUS
  <2>. QED  BY <1>4, <2>2, <2>3
<1>6. ASSUME NEW f \in Nat, NEW k \in Order, Run(AlignDown(f, k), k) \subseteq free
      PROVE  \E b \in Blocks(free) : f \in Span(b) /\ b[2] >= k
  <2>. DEFINE T == {j \in Order : j >= k /\ Run(AlignDown(f, j), j) \subseteq free}
  <2>1. MaxOrder - 1 \in Nat /\ Order = 0 .. MaxOrder - 1 /\ Order \subseteq 0 .. MaxOrder
    BY BuddyAssumption DEF Order
  <2>2. k \in T
    BY <1>6, <2>1
  <2>3. PICK g \in T : \A j \in T : j <= g
    <3>1. T \subseteq 0 .. (MaxOrder - 1) /\ T # {}
      BY <2>1, <2>2
    <3>. HIDE DEF T
    <3>. QED  BY <2>1, <3>1, GreatestMember
  <2>4. PICK p : p = AlignDown(f, g)
    OBVIOUS
  <2>5. p \in Nat /\ p % 2^g = 0 /\ f \in Run(p, g) /\ g \in 0 .. MaxOrder /\ g \in Order /\ g >= k
    BY <2>1, <2>3, <2>4, AlignDownFacts
  <2>6. Run(p, g) \subseteq free
    BY <2>3, <2>4
  <2>7. p \in Run(p, g)
    BY <2>5, RunFacts
  <2>8. <<p, g>> \in Pfn \X Order
    BY <2>5, <2>6, <2>7
  <2>9. ASSUME NEW j \in Order, j > g PROVE ~Makes(free, AlignDown(p, j), j)
    <3>1. AlignDown(f, j) = AlignDown(p, j)
      BY <2>1, <2>5, <2>9, AlignDownTwice
    <3>2. j \notin T
      BY <2>1, <2>3, <2>9
    <3>3. j >= k
      BY <2>1, <2>5, <2>9
    <3>4. ~(Run(AlignDown(f, j), j) \subseteq free)
      BY <3>2, <3>3
    <3>. QED  BY <3>1, <3>4 DEF Makes
  <2>10. <<p, g>> \in Blocks(free)
    BY <2>5, <2>6, <2>8, <2>9 DEF Blocks, Makes
  <2>11. <<p, g>>[1] = p /\ <<p, g>>[2] = g
    OBVIOUS
  <2>. QED  BY <2>5, <2>10, <2>11 DEF Span
<1>7. ASSUME NEW b \in Blocks(free), b[2] < MaxOrder - 1, <<BuddyOf(b[1], b[2]), b[2]>> \in Blocks(free)
      PROVE  FALSE
  <2>. PICK p, o : p = b[1] /\ o = b[2]
    OBVIOUS
  <2>1. p \in Nat /\ o \in 0 .. MaxOrder - 1 /\ p % 2^o = 0 /\ Run(p, o) \subseteq free /\ o \in Nat /\ o < MaxOrder - 1
    <3>1. b \in Block
      BY <1>1
    <3>2. p \in Nat /\ o \in Order /\ o \in Nat
      BY <3>1, BlockFacts
    <3>. QED  BY <1>2, <1>7, <3>2 DEF Aligned, Span, Order
  <2>2. Run(AlignDown(p, o + 1), o + 1) = Run(p, o) \union Run(BuddyOf(p, o), o)
    BY <2>1, BuddyFacts
  <2>3. Run(BuddyOf(p, o), o) \subseteq free
    BY <1>2, <1>7 DEF Span
  <2>4. o + 1 \in Order /\ o + 1 \in 0 .. MaxOrder /\ o + 1 > o
    BY <2>1, BuddyAssumption DEF Order
  <2>5. AlignDown(p, o + 1) % 2^(o + 1) = 0
    BY <2>1, <2>4, AlignDownFacts
  <2>6. Makes(free, AlignDown(p, o + 1), o + 1)
    BY <2>1, <2>2, <2>3, <2>5 DEF Makes
  <2>. QED  BY <1>3, <2>4, <2>6
<1>. QED  BY <1>1, <1>2, <1>5, <1>6, <1>7

(* The free lists as a set L of blocks: exact, merged.                     *)
ListsOK(L, free, marked, ord) ==
  /\ L \subseteq Block
  /\ \A b \in L : Aligned(b) /\ b[1] \in marked /\ ord[b[1]] = b[2] /\ Span(b) \subseteq free
  /\ \A b, c \in L : Span(b) \cap Span(c) # {} => b = c
  /\ \A f \in free : \E b \in L : f \in Span(b)
  /\ \A b \in L : b[2] < MaxOrder - 1 => <<BuddyOf(b[1], b[2]), b[2]>> \notin L

(* The blocks callers hold are apart from each other and from free and     *)
(* reserved frames.                                                        *)
HeldOK(taken, free, fixed, ord, count) ==
  /\ taken \subseteq Block
  /\ \A b \in taken : /\ Aligned(b) /\ ord[b[1]] = b[2]
                      /\ Span(b) \subseteq 0 .. count - 1
                      /\ Span(b) \cap (free \union fixed) = {}
  /\ \A b, c \in taken : Span(b) \cap Span(c) # {} => b = c

(* Rebuilding the lists leaves PG_BUDDY on frames that are now inside a    *)
(* larger block: such a frame is never the buddy of a block being freed.   *)
MarksOK(L, marked, ord, taken) ==
  /\ marked \subseteq Pfn
  /\ \A q \in marked :
       /\ q % 2^ord[q] = 0
       /\ \/ <<q, ord[q]>> \in L
          \/ \E c \in L \union taken : q \in Span(c) /\ c[2] > ord[q]

(* What kBuildBuddyLists marks, and the orders it leaves.                  *)
Heads(free) == {b[1] : b \in Blocks(free)}
OrdersBuilt(free, ord) ==
  [p \in Pfn |-> IF \E o \in Order : <<p, o>> \in Blocks(free)
                 THEN CHOOSE o \in Order : <<p, o>> \in Blocks(free)
                 ELSE ord[p]]

(* The lists built anew from more free frames.                             *)
LEMMA RebuildLists ==
  ASSUME NEW L, NEW marked, NEW ord, NEW taken, NEW fixed, NEW count, NEW free2,
         free2 \subseteq Pfn, ord \in [Pfn -> Order],
         MarksOK(L, marked, ord, taken), L \subseteq Block,
         \A b \in L : Span(b) \subseteq free2 /\ Aligned(b),
         HeldOK(taken, free2, fixed, ord, count)
  PROVE  /\ ListsOK(Blocks(free2), free2, marked \union Heads(free2), OrdersBuilt(free2, ord))
         /\ HeldOK(taken, free2, fixed, OrdersBuilt(free2, ord), count)
         /\ MarksOK(Blocks(free2), marked \union Heads(free2), OrdersBuilt(free2, ord), taken)
         /\ OrdersBuilt(free2, ord) \in [Pfn -> Order]
<1>. PICK marked2, ord2 : marked2 = marked \union Heads(free2) /\ ord2 = OrdersBuilt(free2, ord)
  OBVIOUS
<1>. PICK B : B = Blocks(free2)
  OBVIOUS
<1>. /\ ord2 = [p \in Pfn |-> IF \E o \in Order : <<p, o>> \in B
                               THEN CHOOSE o \in Order : <<p, o>> \in B
                               ELSE ord[p]]
     /\ marked2 = marked \union {b[1] : b \in B}
  BY DEF OrdersBuilt, Heads
<1>1. /\ B \subseteq Block
      /\ \A b \in B : Aligned(b) /\ Span(b) \subseteq free2
      /\ \A b, c \in B : Span(b) \cap Span(c) # {} => b = c
      /\ \A f \in Nat, k \in Order :
           Run(AlignDown(f, k), k) \subseteq free2 => \E b \in B : f \in Span(b) /\ b[2] >= k
      /\ \A b \in B : b[2] < MaxOrder - 1 => <<BuddyOf(b[1], b[2]), b[2]>> \notin B
  BY BlocksFacts
<1>2. ASSUME NEW b \in B PROVE ord2[b[1]] = b[2]
  <2>1. b \in Block /\ b[1] \in Pfn /\ b[2] \in Order /\ b = <<b[1], b[2]>> /\ b[1] \in Span(b)
    BY <1>1, BlockFacts
  <2>2. ASSUME NEW o \in Order, <<b[1], o>> \in B PROVE o = b[2]
    <3>1. <<b[1], o>> \in Block /\ <<b[1], o>>[1] = b[1] /\ <<b[1], o>>[2] = o
      BY <1>1, <2>2
    <3>2. b[1] \in Span(<<b[1], o>>)
      BY <3>1, BlockFacts
    <3>3. <<b[1], o>> = b
      BY <1>1, <2>1, <2>2, <3>2
    <3>. QED  BY <2>1, <3>3
  <2>3. ord2[b[1]] = CHOOSE o \in Order : <<b[1], o>> \in B
    BY <2>1
  <2>4. \E o \in Order : <<b[1], o>> \in B
    BY <2>1
  <2>5. PICK u : u = CHOOSE o \in Order : <<b[1], o>> \in B
    OBVIOUS
  <2>6. u \in Order /\ <<b[1], u>> \in B
    BY <2>4, <2>5, Zenon
  <2>. QED  BY <2>2, <2>3, <2>5, <2>6
<1>3. ASSUME NEW q \in Pfn, \A b \in B : b[1] # q PROVE ord2[q] = ord[q]
  <2>1. ASSUME NEW o \in Order, <<q, o>> \in B PROVE FALSE
    <3>1. <<q, o>>[1] = q
      OBVIOUS
    <3>. QED  BY <1>3, <2>1, <3>1
  <2>. QED  BY <2>1
<1>4. ord2 \in [Pfn -> Order]
  <2>1. ASSUME NEW p \in Pfn PROVE ord2[p] \in Order
    <3>1. CASE \E b \in B : b[1] = p
      BY <1>1, <1>2, <3>1, BlockFacts
    <3>2. CASE \A b \in B : b[1] # p
      BY <1>3, <3>2
    <3>. QED  BY <3>1, <3>2
  <2>2. ord2 = [p \in Pfn |-> ord2[p]]
    OBVIOUS
  <2>. QED  BY <2>1, <2>2
<1>5. ListsOK(B, free2, marked2, ord2)
  <2>1. ASSUME NEW f \in free2 PROVE \E b \in B : f \in Span(b)
    <3>1. f \in Nat /\ 0 \in Order /\ 0 \in 0 .. MaxOrder /\ f % 1 = 0
      BY BuddyAssumption DEF Pfn, Order
    <3>2. AlignDown(f, 0) = f /\ Run(f, 0) = {f}
      BY <3>1, PowerFacts DEF AlignDown, Run
    <3>3. Run(AlignDown(f, 0), 0) \subseteq free2
      BY <3>2
    <3>. QED  BY <1>1, <3>1, <3>3
  <2>2. \A b \in B : b[1] \in marked2
    OBVIOUS
  <2>. QED  BY <1>1, <1>2, <2>1, <2>2 DEF ListsOK
<1>6. HeldOK(taken, free2, fixed, ord2, count)
  <2>1. taken \subseteq Block
    BY DEF HeldOK
  <2>2. ASSUME NEW b \in taken PROVE ord2[b[1]] = b[2]
    <3>1. b[1] \in Span(b) /\ b[1] \in Pfn
      BY <2>1, BlockFacts
    <3>2. b[1] \notin free2
      BY <3>1 DEF HeldOK
    <3>3. ASSUME NEW c \in B PROVE c[1] # b[1]
      <4>1. c[1] \in free2
        BY <1>1, BlockFacts
      <4>. QED  BY <3>2, <4>1
    <3>4. ord[b[1]] = b[2]
      BY DEF HeldOK
    <3>. QED  BY <1>3, <3>1, <3>3, <3>4
  <2>. QED  BY <2>2 DEF HeldOK
<1>7. MarksOK(B, marked2, ord2, taken)
  <2>1. marked2 \subseteq Pfn
    BY <1>1, BlockFacts DEF MarksOK
  <2>2. ASSUME NEW b \in B PROVE b[1] % 2^ord2[b[1]] = 0 /\ <<b[1], ord2[b[1]]>> \in B
    <3>1. ord2[b[1]] = b[2] /\ b \in Block /\ Aligned(b)
      BY <1>1, <1>2
    <3>2. b = <<b[1], b[2]>>
      BY <3>1, BlockFacts
    <3>. QED  BY <3>1, <3>2 DEF Aligned
  <2>3. ASSUME NEW q \in marked, \A b \in B : b[1] # q
        PROVE  /\ q % 2^ord2[q] = 0
               /\ \E c \in B \union taken : q \in Span(c) /\ c[2] > ord2[q]
    <3>1. q \in Pfn /\ q \in Nat /\ ord2[q] = ord[q] /\ ord[q] \in Order /\ q % 2^ord[q] = 0
      BY <1>3, <2>3, SMTT(30) DEF MarksOK, Pfn
    <3>. PICK k : k = ord[q]
      OBVIOUS
    <3>2. k \in 0 .. MaxOrder /\ k \in Nat
      BY <3>1, BlockFacts, BuddyAssumption DEF Order
    <3>3. ASSUME NEW c \in L, q \in Span(c), c[2] >= k
          PROVE  \E b \in B : q \in Span(b) /\ b[2] > k
      <4>1. c \in Block /\ Aligned(c) /\ Span(c) \subseteq free2
        OBVIOUS
      <4>2. c[1] \in Nat /\ c[2] \in Order /\ c[2] \in 0 .. MaxOrder /\ c[1] % 2^c[2] = 0
        BY <4>1, BlockFacts DEF Aligned
      <4>3. AlignDown(q, c[2]) = c[1]
        BY <3>1, <3>3, <4>2, AlignDownFacts DEF Span
      <4>4. PICK b \in B : q \in Span(b) /\ b[2] >= c[2]
        BY <1>1, <3>1, <4>1, <4>2, <4>3 DEF Span
      <4>5. b \in Block /\ Aligned(b) /\ b[1] \in Nat /\ b[2] \in 0 .. MaxOrder /\ b[2] \in Nat
        BY <1>1, BlockFacts
      <4>6. ASSUME b[2] = k PROVE FALSE
        <5>1. q = AlignDown(q, k)
          BY <3>1, <3>2, AlignDownSelf
        <5>2. b[1] = AlignDown(q, k)
          BY <3>1, <4>4, <4>5, <4>6, AlignDownFacts DEF Aligned, Span
        <5>. QED  BY <2>3, <5>1, <5>2
      <4>7. b[2] > k
        BY <3>2, <3>3, <4>2, <4>4, <4>5, <4>6, SMTT(30)
      <4>. QED  BY <4>4, <4>7
    <3>4. CASE <<q, k>> \in L
      <4>1. <<q, k>>[1] = q /\ <<q, k>>[2] = k
        OBVIOUS
      <4>2. q \in Span(<<q, k>>)
        BY <3>1, <3>2, <4>1, RunFacts DEF Span
      <4>3. \E b \in B : q \in Span(b) /\ b[2] > k
        BY <3>2, <3>3, <3>4, <4>1, <4>2
      <4>. QED  BY <3>1, <4>3
    <3>5. CASE \E c \in L \union taken : q \in Span(c) /\ c[2] > k
      <4>1. PICK c \in L \union taken : q \in Span(c) /\ c[2] > k
        BY <3>5
      <4>2. CASE c \in L
        <5>1. c[2] \in Nat
          BY <4>2, BlockFacts
        <5>2. c[2] >= k
          BY <3>2, <4>1, <5>1
        <5>3. \E b \in B : q \in Span(b) /\ b[2] > k
          BY <3>3, <4>1, <4>2, <5>2
        <5>. QED  BY <3>1, <5>3
      <4>3. CASE c \in taken
        BY <3>1, <4>1, <4>3
      <4>. QED  BY <4>1, <4>2, <4>3
    <3>6. <<q, k>> \in L \/ \E c \in L \union taken : q \in Span(c) /\ c[2] > k
      BY DEF MarksOK
    <3>. QED  BY <3>4, <3>5, <3>6
  <2>4. ASSUME NEW q \in marked2
        PROVE  /\ q % 2^ord2[q] = 0
               /\ <<q, ord2[q]>> \in B \/ \E c \in B \union taken : q \in Span(c) /\ c[2] > ord2[q]
    <3>1. CASE \E b \in B : b[1] = q
      BY <2>2, <3>1
    <3>2. CASE \A b \in B : b[1] # q
      <4>1. q \in marked
        BY <3>2
      <4>. QED  BY <2>3, <3>2, <4>1
    <3>. QED  BY <3>1, <3>2
  <2>. QED  BY <2>1, <2>4 DEF MarksOK
<1>. QED  BY <1>4, <1>5, <1>6, <1>7
-----------------------------------------------------------------------------
(* An aligned run and the upper halves its splitting leaves.               *)
SplitShape(p, o, n, halves) ==
  /\ p % 2^o = 0 /\ Run(p, o) \subseteq Run(p, n)
  /\ \A k \in halves :
       /\ p + 2^k \in Nat /\ (p + 2^k) % 2^k = 0 /\ BuddyOf(p + 2^k, k) = p
       /\ Run(p + 2^k, k) \subseteq Run(p, n)
       /\ Run(p + 2^k, k) \cap Run(p, o) = {}
  /\ \A k, l \in halves : k # l => Run(p + 2^k, k) \cap Run(p + 2^l, l) = {}
  /\ \A x \in Run(p, n) : x \in Run(p, o) \/ \E k \in halves : x \in Run(p + 2^k, k)

(* The first run and the upper halves are apart and together the whole     *)
(* run.                                                                    *)
LEMMA SplitFacts ==
  ASSUME NEW p \in Nat, NEW o \in 0 .. MaxOrder, NEW n \in 0 .. MaxOrder, o <= n, p % 2^n = 0
  PROVE  SplitShape(p, o, n, o .. n - 1)
<1>0. MaxOrder \in Nat /\ o \in Nat /\ n \in Nat /\ n <= MaxOrder
  BY BuddyAssumption
<1>1. \A k \in 0 .. MaxOrder : 2^k \in Nat \ {0} /\ 2^(k + 1) = 2 * 2^k
  BY PowerFacts
<1>2. \A k \in 0 .. n : 2^k <= 2^n
  <2>. TAKE k \in 0 .. n
  <2>1. CASE k = n
    BY <2>1, <1>1
  <2>2. CASE k < n
    <3>1. k \in 0 .. MaxOrder
      BY <1>0
    <3>2. 2^k < 2^n /\ 2^k \in Nat /\ 2^n \in Nat
      BY <1>0, <1>1, <2>2, <3>1, PowerOrder
    <3>. QED  BY <3>2
  <2>. QED  BY <2>1, <2>2, <1>0
<1>3. p % 2^o = 0 /\ Run(p, o) \subseteq Run(p, n)
  <2>1. p % 2^o = 0
    BY <1>0, AlignedBelow
  <2>2. 2^o <= 2^n /\ 2^o \in Nat /\ 2^n \in Nat
    BY <1>0, <1>1, <1>2
  <2>. QED  BY <2>1, <2>2 DEF Run
<1>4. ASSUME NEW k \in o .. n - 1
      PROVE  /\ p + 2^k \in Nat /\ (p + 2^k) % 2^k = 0 /\ BuddyOf(p + 2^k, k) = p
             /\ p + 2^k + 2^k <= p + 2^n /\ 2^o <= 2^k
  <2>1. k \in 0 .. MaxOrder - 1 /\ k \in 0 .. MaxOrder /\ k + 1 \in 0 .. MaxOrder /\ k <= n /\ k < n /\ k + 1 <= n /\ k \in Nat
    BY <1>0
  <2>2. p % 2^k = 0 /\ p % 2^(k + 1) = 0
    BY <1>0, <2>1, AlignedBelow
  <2>3. BuddyOf(p, k) = p + 2^k /\ BuddyOf(p, k) \in Nat /\ BuddyOf(p, k) % 2^k = 0 /\ BuddyOf(BuddyOf(p, k), k) = p
    BY <2>1, <2>2, BuddyFacts
  <2>4. 2 * 2^k <= 2^n
    BY <1>0, <2>1, PowerOrder
  <2>5. 2^o <= 2^k
    <3>1. CASE o = k
      BY <3>1, <2>1, <1>1
    <3>2. CASE o < k
      <4>1. 2^o < 2^k /\ 2^o \in Nat /\ 2^k \in Nat
        BY <1>0, <1>1, <2>1, <3>2, PowerOrder
      <4>. QED  BY <4>1
    <3>. QED  BY <1>0, <2>1, <3>1, <3>2
  <2>6. 2^k \in Nat /\ 2^n \in Nat
    BY <1>1, <2>1
  <2>7. p + 2^k + 2^k <= p + 2^n
    BY <2>4, <2>6
  <2>. QED  BY <2>3, <2>5, <2>7
<1>5. ASSUME NEW k \in o .. n - 1
      PROVE  Run(p + 2^k, k) \subseteq Run(p, n) /\ Run(p + 2^k, k) \cap Run(p, o) = {}
  <2>1. k \in 0 .. MaxOrder
    BY <1>0
  <2>2. 2^k \in Nat /\ 2^n \in Nat /\ 2^o \in Nat
    BY <1>0, <1>1, <2>1
  <2>. QED  BY <1>4, <2>2 DEF Run
<1>6. ASSUME NEW k \in o .. n - 1, NEW l \in o .. n - 1, k < l
      PROVE  Run(p + 2^k, k) \cap Run(p + 2^l, l) = {}
  <2>1. k \in 0 .. MaxOrder /\ l \in 0 .. MaxOrder
    BY <1>0
  <2>2. 2^k \in Nat /\ 2^l \in Nat /\ 2 * 2^k <= 2^l
    BY <1>1, <1>6, <2>1, PowerOrder
  <2>. QED  BY <2>2 DEF Run
<1>7. \A k, l \in o .. n - 1 : k # l => Run(p + 2^k, k) \cap Run(p + 2^l, l) = {}
  <2>. TAKE k, l \in o .. n - 1
  <2>1. k = l \/ k < l \/ l < k
    BY <1>0
  <2>2. Run(p + 2^k, k) \cap Run(p + 2^l, l) = Run(p + 2^l, l) \cap Run(p + 2^k, k)
    OBVIOUS
  <2>. QED  BY <1>6, <2>1, <2>2
<1>8. ASSUME NEW x \in Run(p, n), x \notin Run(p, o) PROVE \E k \in o .. n - 1 : x \in Run(p + 2^k, k)
  <2>1. x \in Nat /\ p <= x /\ x < p + 2^n /\ p + 2^o <= x
    BY <1>0, <1>8, RunFacts
  <2>. DEFINE T == {k \in o .. n : p + 2^k <= x}
  <2>2. o \in T /\ T \subseteq 0 .. n
    BY <1>0, <2>1
  <2>3. PICK k \in T : \A l \in T : l <= k
    <3>1. T # {}
      BY <2>2
    <3>. HIDE DEF T
    <3>. QED  BY <1>0, <2>2, <3>1, GreatestMember
  <2>4. k \in o .. n /\ p + 2^k <= x
    BY <2>3
  <2>5. k # n
    BY <1>0, <1>1, <2>1, <2>4
  <2>6. k + 1 \in o .. n /\ k \in o .. n - 1 /\ k \in 0 .. MaxOrder
    BY <1>0, <2>4, <2>5
  <2>7. ~(p + 2^(k + 1) <= x)
    BY <2>3, <2>6
  <2>8. x < p + 2^k + 2^k /\ 2^k \in Nat
    BY <1>1, <2>1, <2>6, <2>7
  <2>9. x \in Run(p + 2^k, k)
    BY <2>1, <2>4, <2>8 DEF Run
  <2>. QED  BY <2>6, <2>9
<1>. QED  BY <1>3, <1>4, <1>5, <1>7, <1>8 DEF SplitShape

(* kAllocPages: the block b is taken off its list, its first run of order  *)
(* o is handed out and the upper halves are listed.                        *)
Halves(o, n) == {k \in Order : o <= k /\ k < n}
Uppers(b, o) == {b[1] + 2^k : k \in Halves(o, b[2])}
SplitBlocks(L, b, o) == (L \ {b}) \union {<<b[1] + 2^k, k>> : k \in Halves(o, b[2])}
SplitMarks(marked, b, o) == (marked \ {b[1]}) \union Uppers(b, o)
SplitOrders(ord, b, o) ==
  [q \in Pfn |-> IF q = b[1] THEN o
                 ELSE IF q \in Uppers(b, o) THEN CHOOSE k \in Halves(o, b[2]) : q = b[1] + 2^k
                 ELSE ord[q]]

Splittable(L, free, marked, ord, taken, fixed, count, b, o) ==
  /\ b \in L /\ o \in Order /\ o <= b[2]
  /\ ListsOK(L, free, marked, ord) /\ HeldOK(taken, free, fixed, ord, count)
  /\ MarksOK(L, marked, ord, taken) /\ ord \in [Pfn -> Order]
  /\ free \subseteq Pfn /\ free \subseteq 0 .. count - 1 /\ free \cap fixed = {}
  /\ \A c \in L : ~(o <= c[2] /\ c[2] < b[2])

SplitDone(L, free, marked, ord, taken, fixed, count, b, o) ==
  /\ ListsOK(SplitBlocks(L, b, o), free \ Run(b[1], o), SplitMarks(marked, b, o), SplitOrders(ord, b, o))
  /\ HeldOK(taken \union {<<b[1], o>>}, free \ Run(b[1], o), fixed, SplitOrders(ord, b, o), count)
  /\ MarksOK(SplitBlocks(L, b, o), SplitMarks(marked, b, o), SplitOrders(ord, b, o),
             taken \union {<<b[1], o>>})
  /\ SplitOrders(ord, b, o) \in [Pfn -> Order]
  /\ Run(b[1], o) \subseteq free /\ b[1] % 2^o = 0 /\ <<b[1], o>> \in Block

(* Splitting a listed block keeps lists, marks and orders in step.         *)
LEMMA SplitLists ==
  ASSUME NEW L, NEW free, NEW marked, NEW ord, NEW taken, NEW fixed, NEW count, NEW b, NEW o,
         Splittable(L, free, marked, ord, taken, fixed, count, b, o)
  PROVE  SplitDone(L, free, marked, ord, taken, fixed, count, b, o)
<1>. /\ b \in L /\ o \in Order /\ o <= b[2]
     /\ ListsOK(L, free, marked, ord) /\ HeldOK(taken, free, fixed, ord, count)
     /\ MarksOK(L, marked, ord, taken) /\ ord \in [Pfn -> Order]
     /\ free \subseteq Pfn /\ free \subseteq 0 .. count - 1 /\ free \cap fixed = {}
     /\ \A c \in L : ~(o <= c[2] /\ c[2] < b[2])
  BY DEF Splittable
<1>. PICK halves, upper, L2, marked2, ord2 :
       /\ halves = Halves(o, b[2]) /\ upper = Uppers(b, o) /\ L2 = SplitBlocks(L, b, o)
       /\ marked2 = SplitMarks(marked, b, o) /\ ord2 = SplitOrders(ord, b, o)
  OBVIOUS
<1>. /\ halves = {k \in Order : o <= k /\ k < b[2]}
     /\ upper = {b[1] + 2^k : k \in halves}
     /\ L2 = (L \ {b}) \union {<<b[1] + 2^k, k>> : k \in halves}
     /\ marked2 = (marked \ {b[1]}) \union upper
  BY DEF Halves, Uppers, SplitBlocks, SplitMarks
<1>20. ord2 = [q \in Pfn |-> IF q = b[1] THEN o
                            ELSE IF q \in upper THEN CHOOSE k \in halves : q = b[1] + 2^k
                            ELSE ord[q]]
  BY DEF SplitOrders
<1>. PICK p, n : p = b[1] /\ n = b[2]
  OBVIOUS
<1>1. /\ p \in Nat /\ p \in Pfn /\ n \in Order /\ n \in 0 .. MaxOrder /\ n \in Nat /\ b \in Block
      /\ b = <<p, n>> /\ p \in Span(b) /\ Aligned(b) /\ Span(b) \subseteq free /\ Span(b) = Run(p, n)
      /\ p % 2^n = 0 /\ o \in 0 .. MaxOrder /\ o \in Nat /\ MaxOrder \in Nat \ {0}
      /\ Order = 0 .. MaxOrder - 1
  <2>1. b \in Block /\ Aligned(b) /\ Span(b) \subseteq free
    BY DEF ListsOK
  <2>. QED  BY <2>1, BlockFacts DEF Aligned, Span, Order
<1>2. halves = o .. n - 1
  BY <1>1
<1>3. /\ p % 2^o = 0 /\ Run(p, o) \subseteq Run(p, n)
      /\ \A k \in halves :
           /\ p + 2^k \in Nat /\ (p + 2^k) % 2^k = 0 /\ BuddyOf(p + 2^k, k) = p
           /\ Run(p + 2^k, k) \subseteq Run(p, n)
           /\ Run(p + 2^k, k) \cap Run(p, o) = {}
      /\ \A k, l \in halves : k # l => Run(p + 2^k, k) \cap Run(p + 2^l, l) = {}
      /\ \A x \in Run(p, n) : x \in Run(p, o) \/ \E k \in halves : x \in Run(p + 2^k, k)
  <2>1. o <= n
    BY <1>1
  <2>2. p \in Nat /\ n \in 0 .. MaxOrder /\ o \in 0 .. MaxOrder /\ p % 2^n = 0
    BY <1>1
  <2>3. SplitShape(p, o, n, o .. n - 1)
    BY ONLY <2>1, <2>2, SplitFacts
  <2>. QED  BY ONLY <1>2, <2>3 DEF SplitShape
<1>18. /\ Run(p, n) \subseteq free /\ p \in Run(p, n)
       /\ \A k \in halves : p + 2^k \in Nat /\ Run(p + 2^k, k) \subseteq free
  <2>1. Run(p, n) \subseteq free /\ p \in Run(p, n)
    BY ONLY <1>1
  <2>. QED  BY ONLY <1>3, <2>1
<1>4. ASSUME NEW k \in halves
      PROVE  /\ k \in Order /\ k \in 0 .. MaxOrder /\ k \in Nat /\ k < n
             /\ p + 2^k \in Run(p + 2^k, k) /\ p + 2^k \in free /\ p + 2^k \in Pfn
             /\ p + 2^k # p
             /\ <<p + 2^k, k>> \in Block
  <2>1. k \in Order /\ k \in 0 .. MaxOrder /\ k \in Nat /\ k < n
    BY <1>1, <1>2
  <2>2. p + 2^k \in Nat /\ Run(p + 2^k, k) \subseteq free
    BY <1>18
  <2>3. p + 2^k \in Run(p + 2^k, k) /\ p + 2^k \in Pfn /\ p + 2^k \in free
    BY <2>1, <2>2, RunFacts
  <2>4. 2^k \in Nat \ {0}
    BY <2>1, PowerFacts
  <2>5. p + 2^k # p
    BY <1>1, <2>4
  <2>. QED  BY <2>1, <2>3, <2>5 DEF Block
<1>5. ASSUME NEW k \in halves, NEW l \in halves, p + 2^k = p + 2^l PROVE k = l
  <2>1. p + 2^k \in Run(p + 2^k, k) /\ p + 2^l \in Run(p + 2^l, l)
    BY <1>4
  <2>. QED  BY <1>3, <1>5, <2>1
<1>6. ord2[p] = o /\ \A k \in halves : ord2[p + 2^k] = k
  <2>1. ord2[p] = o
    BY <1>1, <1>20
  <2>2. ASSUME NEW k \in halves PROVE ord2[p + 2^k] = k
    <3>1. p + 2^k \in Pfn /\ p + 2^k \in upper /\ p + 2^k # p
      BY <1>4
    <3>2. ord2[p + 2^k] = CHOOSE l \in halves : p + 2^k = p + 2^l
      BY <1>20, <3>1
    <3>3. PICK u : u = CHOOSE l \in halves : p + 2^k = p + 2^l
      OBVIOUS
    <3>4. \E l \in halves : p + 2^k = p + 2^l
      OBVIOUS
    <3>5. u \in halves /\ p + 2^k = p + 2^u
      BY <3>3, <3>4, Zenon
    <3>. QED  BY <1>5, <3>2, <3>3, <3>5
  <2>. QED  BY <2>1, <2>2
<1>7. \A q \in Pfn : q # p /\ q \notin upper => ord2[q] = ord[q]
  BY <1>20
<1>8. ord2 \in [Pfn -> Order]
  <2>1. ASSUME NEW q \in Pfn PROVE ord2[q] \in Order
    <3>1. CASE q = p
      BY <1>6, <3>1
    <3>2. CASE q \in upper
      <4>1. PICK k \in halves : q = p + 2^k
        BY <3>2
      <4>. QED  BY <1>4, <1>6, <4>1
    <3>3. CASE q # p /\ q \notin upper
      BY <1>7, <3>3
    <3>. QED  BY <3>1, <3>2, <3>3
  <2>2. ord2 = [q \in Pfn |-> ord2[q]]
    BY <1>20
  <2>. QED  BY <2>1, <2>2
<1>. PICK F : F = free \ Run(p, o)
  OBVIOUS
<1>. PICK hb : hb = <<p, o>>
  OBVIOUS
<1>9. hb \in Block /\ hb[1] = p /\ hb[2] = o /\ Span(hb) = Run(p, o) /\ Aligned(hb) /\ p \in Run(p, o)
  BY <1>1, <1>3, RunFacts DEF Block, Span, Aligned
<1>10. \A k \in halves : LET c == <<p + 2^k, k>> IN
         c \in L2 /\ c[1] = p + 2^k /\ c[2] = k /\ Span(c) = Run(p + 2^k, k) /\ Aligned(c)
  BY <1>3 DEF Span, Aligned

(* A listed block is an old one, apart from b, or one of the halves.       *)
<1>11. ASSUME NEW c \in L2
       PROVE  \/ c \in L /\ c # b /\ Span(c) \cap Run(p, n) = {} /\ c \in Block /\ Span(c) \subseteq F
              \/ \E k \in halves : c = <<p + 2^k, k>> /\ Span(c) = Run(p + 2^k, k) /\ Span(c) \subseteq F
  <2>1. CASE c \in L /\ c # b
    <3>1. Span(c) \cap Run(p, n) = {} /\ c \in Block /\ Span(c) \subseteq free
      BY <1>1, <2>1 DEF ListsOK
    <3>. QED  BY <1>3, <2>1, <3>1
  <2>2. CASE \E k \in halves : c = <<p + 2^k, k>>
    <3>1. PICK k \in halves : c = <<p + 2^k, k>>
      BY <2>2
    <3>2. Span(c) = Run(p + 2^k, k)
      BY <1>10, <3>1
    <3>3. Run(p + 2^k, k) \subseteq F
      <4>1. Run(p + 2^k, k) \subseteq free /\ Run(p + 2^k, k) \cap Run(p, o) = {}
        BY <1>3, <1>18
      <4>. QED  BY <4>1
    <3>. QED  BY <3>1, <3>2, <3>3
  <2>. QED  BY <2>1, <2>2
<1>19. upper \subseteq Run(p, n)
  <2>1. \A k \in halves : p + 2^k \in Run(p, n)
    BY ONLY <1>3, <1>4
  <2>. QED  BY <2>1
<1>12. ASSUME NEW c \in L, c # b
       PROVE  c \in L2 /\ c[1] \in Pfn /\ c[1] # p /\ c[1] \notin upper /\ ord2[c[1]] = ord[c[1]]
  <2>1. c \in L2 /\ c \in Block /\ Span(c) \cap Run(p, n) = {}
    BY <1>1, <1>12 DEF ListsOK
  <2>2. c[1] \in Span(c) /\ c[1] \in Pfn
    BY <2>1, BlockFacts
  <2>3. c[1] \notin Run(p, n)
    BY <2>1, <2>2
  <2>4. upper \subseteq Run(p, n) /\ p \in Run(p, n)
    BY <1>18, <1>19
  <2>. QED  BY <1>7, <2>1, <2>2, <2>3, <2>4
<1>13. ListsOK(L2, F, marked2, ord2)
  <2>1. L2 \subseteq Block
    BY <1>4 DEF ListsOK
  <2>2. ASSUME NEW c \in L2 PROVE Aligned(c) /\ c[1] \in marked2 /\ ord2[c[1]] = c[2] /\ Span(c) \subseteq F
    <3>1. Span(c) \subseteq F
      BY <1>11
    <3>2. CASE c \in L /\ c # b
      <4>1. Aligned(c) /\ c[1] \in marked /\ ord[c[1]] = c[2]
        BY <3>2 DEF ListsOK
      <4>. QED  BY <1>12, <3>1, <3>2, <4>1
    <3>3. CASE \E k \in halves : c = <<p + 2^k, k>>
      <4>1. PICK k \in halves : c = <<p + 2^k, k>>
        BY <3>3
      <4>2. Aligned(c) /\ c[1] = p + 2^k /\ c[2] = k
        BY <1>10, <4>1
      <4>. QED  BY <1>6, <3>1, <4>2
    <3>. QED  BY <3>2, <3>3
  <2>3. ASSUME NEW c \in L2, NEW d \in L2, Span(c) \cap Span(d) # {} PROVE c = d
    <3>1. CASE c \in L /\ c # b /\ d \in L /\ d # b
      BY <2>3, <3>1 DEF ListsOK
    <3>2. ASSUME NEW k \in halves, c = <<p + 2^k, k>>, NEW l \in halves, d = <<p + 2^l, l>> PROVE c = d
      <4>1. Span(c) = Run(p + 2^k, k) /\ Span(d) = Run(p + 2^l, l)
        BY <1>10, <3>2
      <4>2. k = l
        BY <1>3, <2>3, <4>1
      <4>. QED  BY <3>2, <4>2
    <3>3. ASSUME NEW e \in L, e # b, NEW k \in halves PROVE Span(e) \cap Span(<<p + 2^k, k>>) = {}
      <4>1. Span(e) \cap Run(p, n) = {}
        BY <1>1, <3>3 DEF ListsOK
      <4>2. Span(<<p + 2^k, k>>) \subseteq Run(p, n)
        BY <1>3, <1>10
      <4>. QED  BY <4>1, <4>2
    <3>4. (c \in L /\ c # b) \/ \E k \in halves : c = <<p + 2^k, k>>
      OBVIOUS
    <3>5. (d \in L /\ d # b) \/ \E k \in halves : d = <<p + 2^k, k>>
      OBVIOUS
    <3>6. Span(c) \cap Span(d) = Span(d) \cap Span(c)
      OBVIOUS
    <3>. QED  BY <2>3, <3>1, <3>2, <3>3, <3>4, <3>5, <3>6
  <2>4. ASSUME NEW f \in F PROVE \E c \in L2 : f \in Span(c)
    <3>1. PICK c \in L : f \in Span(c)
      BY DEF ListsOK
    <3>2. CASE c # b
      BY <1>12, <3>1, <3>2
    <3>3. CASE c = b
      <4>1. f \in Run(p, n) /\ f \notin Run(p, o)
        BY <1>1, <3>1, <3>3
      <4>2. PICK k \in halves : f \in Run(p + 2^k, k)
        BY <1>3, <4>1
      <4>. QED  BY <1>10, <4>2, ZenonT(30)
    <3>. QED  BY <3>2, <3>3
  <2>5. ASSUME NEW c \in L2, c[2] < MaxOrder - 1, <<BuddyOf(c[1], c[2]), c[2]>> \in L2 PROVE FALSE
    <3>. PICK d : d = <<BuddyOf(c[1], c[2]), c[2]>>
      OBVIOUS
    <3>1. d \in L2 /\ d[1] = BuddyOf(c[1], c[2]) /\ d[2] = c[2]
      BY <2>5
    <3>2. CASE c \in L /\ d \in L
      BY <2>5, <3>2 DEF ListsOK
    <3>3. ASSUME NEW k \in halves, c = <<p + 2^k, k>> PROVE FALSE
      <4>1. d[1] = p /\ d[2] = k
        BY <1>3, <3>1, <3>3
      <4>2. d \in L => ~(o <= d[2] /\ d[2] < n)
        OBVIOUS
      <4>3. d \notin L
        BY <1>2, <1>1, <4>1, <4>2
      <4>4. PICK l \in halves : d = <<p + 2^l, l>>
        BY <3>1, <4>3
      <4>. QED  BY <1>4, <4>1, <4>4
    <3>4. ASSUME c \in L, NEW k \in halves, d = <<p + 2^k, k>> PROVE FALSE
      <4>1. c[2] = k
        BY <3>1, <3>4
      <4>2. ~(o <= c[2] /\ c[2] < n)
        BY <3>4
      <4>. QED  BY <1>1, <1>2, <4>1, <4>2
    <3>5. c \in L \/ \E k \in halves : c = <<p + 2^k, k>>
      OBVIOUS
    <3>6. d \in L \/ \E k \in halves : d = <<p + 2^k, k>>
      BY <3>1
    <3>. QED  BY <3>2, <3>3, <3>4, <3>5, <3>6
  <2>. QED  BY <2>1, <2>2, <2>3, <2>4, <2>5 DEF ListsOK
<1>14. ASSUME NEW c \in taken
       PROVE  c \in Block /\ Span(c) \cap Run(p, n) = {} /\ ord2[c[1]] = ord[c[1]]
  <2>1. c \in Block /\ Span(c) \cap free = {}
    BY DEF HeldOK
  <2>2. Span(c) \cap Run(p, n) = {}
    BY <1>1, <2>1
  <2>3. c[1] \in Span(c) /\ c[1] \in Pfn
    BY <2>1, BlockFacts
  <2>4. upper \subseteq Run(p, n) /\ p \in Run(p, n)
    BY <1>18, <1>19
  <2>. QED  BY <1>7, <2>1, <2>2, <2>3, <2>4
<1>15. HeldOK(taken \union {hb}, F, fixed, ord2, count)
  <2>1. taken \union {hb} \subseteq Block
    BY <1>9 DEF HeldOK
  <2>2. ASSUME NEW c \in taken \union {hb}
        PROVE  /\ Aligned(c) /\ ord2[c[1]] = c[2]
               /\ Span(c) \subseteq 0 .. count - 1 /\ Span(c) \cap (F \union fixed) = {}
    <3>1. CASE c \in taken
      BY <1>14, <3>1 DEF HeldOK
    <3>2. CASE c = hb
      <4>1. Aligned(c) /\ ord2[c[1]] = c[2] /\ Span(c) = Run(p, o)
        BY <1>6, <1>9, <3>2
      <4>2. Run(p, o) \subseteq free
        BY <1>3, <1>18
      <4>. QED  BY <4>1, <4>2
    <3>. QED  BY <3>1, <3>2
  <2>3. ASSUME NEW c \in taken \union {hb}, NEW d \in taken \union {hb}, Span(c) \cap Span(d) # {} PROVE c = d
    <3>1. CASE c \in taken /\ d \in taken
      BY <2>3, <3>1 DEF HeldOK
    <3>2. \A e \in taken : Span(e) \cap Span(hb) = {}
      BY <1>3, <1>9, <1>14
    <3>. QED  BY <2>3, <3>1, <3>2
  <2>. QED  BY <2>1, <2>2, <2>3 DEF HeldOK
<1>16. MarksOK(L2, marked2, ord2, taken \union {hb})
  <2>1. marked2 \subseteq Pfn
    BY <1>4 DEF MarksOK
  <2>2. ASSUME NEW k \in halves PROVE (p + 2^k) % 2^ord2[p + 2^k] = 0 /\ <<p + 2^k, ord2[p + 2^k]>> \in L2
    BY <1>3, <1>6, <1>10
  <2>3. ASSUME NEW q \in marked, q # p, q \notin upper
        PROVE  /\ q % 2^ord2[q] = 0
               /\ \/ <<q, ord2[q]>> \in L2
                  \/ \E c \in L2 \union (taken \union {hb}) : q \in Span(c) /\ c[2] > ord2[q]
    <3>1. q \in Pfn /\ q \in Nat /\ ord2[q] = ord[q] /\ ord[q] \in Order /\ q % 2^ord[q] = 0
      <4>1. q \in Pfn /\ q % 2^ord[q] = 0
        BY DEF MarksOK
      <4>2. ord2[q] = ord[q] /\ ord[q] \in Order
        BY <1>7, <2>3, <4>1
      <4>3. q \in Nat
        BY <4>1 DEF Pfn
      <4>. QED  BY <4>1, <4>2, <4>3
    <3>. PICK k : k = ord[q]
      OBVIOUS
    <3>2. k \in 0 .. MaxOrder /\ k \in Nat
      BY <1>1, <3>1
    <3>3. CASE <<q, k>> \in L
      <4>1. <<q, k>> # b
        BY <1>1, <2>3
      <4>. QED  BY <1>12, <3>1, <3>3, <4>1
    <3>4. CASE \E c \in L \union taken : q \in Span(c) /\ c[2] > k
      <4>1. PICK c \in L \union taken : q \in Span(c) /\ c[2] > k
        BY <3>4
      <4>2. CASE c # b
        <5>1. c \in L2 \union (taken \union {hb})
          BY <1>12, <4>1, <4>2
        <5>. QED  BY <3>1, <4>1, <5>1
      <4>3. CASE c = b
        <5>1. q \in Run(p, n) /\ k < n
          BY <1>1, <3>2, <4>1, <4>3
        (* q is in a part of b, and not its first frame. *)
        <5>2. ASSUME NEW d \in Block, Aligned(d), q \in Span(d), d[1] # q PROVE d[2] > k
          <6>1. d[1] \in Nat /\ d[2] \in 0 .. MaxOrder /\ d[2] \in Nat
            BY BlockFacts
          <6>2. SUFFICES ASSUME d[2] <= k PROVE FALSE
            BY <3>2, <6>1
          <6>3. q % 2^d[2] = 0
            BY <3>1, <3>2, <6>1, <6>2, AlignedBelow
          <6>4. AlignDown(q, d[2]) = q
            BY <3>1, <6>1, <6>3, AlignDownSelf
          <6>5. AlignDown(q, d[2]) = d[1]
            BY <3>1, <5>2, <6>1, AlignDownFacts DEF Aligned, Span
          <6>. QED  BY <5>2, <6>4, <6>5
        <5>3. CASE q \in Run(p, o)
          <6>1. hb[2] > k
            BY <1>9, <2>3, <5>2, <5>3
          <6>. QED  BY <1>9, <3>1, <5>3, <6>1
        <5>4. CASE \E l \in halves : q \in Run(p + 2^l, l)
          <6>1. PICK l \in halves : q \in Run(p + 2^l, l)
            BY <5>4
          <6>. PICK d : d = <<p + 2^l, l>>
            OBVIOUS
          <6>2. d \in L2 /\ d[1] = p + 2^l /\ d[2] = l /\ q \in Span(d) /\ Aligned(d)
            BY <1>10, <6>1
          <6>3. d \in Block
            BY <1>4
          <6>4. d[1] # q
            BY <2>3, <6>2
          <6>5. d[2] > k
            BY <5>2, <6>2, <6>3, <6>4
          <6>. QED  BY <3>1, <6>2, <6>5
        <5>. QED  BY <1>3, <5>1, <5>3, <5>4
      <4>. QED  BY <4>2, <4>3
    <3>5. <<q, k>> \in L \/ \E c \in L \union taken : q \in Span(c) /\ c[2] > k
      BY DEF MarksOK
    <3>. QED  BY <3>3, <3>4, <3>5
  <2>4. ASSUME NEW q \in marked2
        PROVE  /\ q % 2^ord2[q] = 0
               /\ \/ <<q, ord2[q]>> \in L2
                  \/ \E c \in L2 \union (taken \union {hb}) : q \in Span(c) /\ c[2] > ord2[q]
    <3>1. CASE q \in upper
      <4>1. PICK k \in halves : q = p + 2^k
        BY <3>1
      <4>. QED  BY <2>2, <4>1
    <3>2. CASE q \notin upper
      BY <2>3, <3>2
    <3>. QED  BY <3>1, <3>2
  <2>. QED  BY <2>1, <2>4 DEF MarksOK
<1>17. Run(p, o) \subseteq free
  BY <1>3, <1>18
<1>. QED  BY <1>3, <1>8, <1>9, <1>13, <1>15, <1>16, <1>17 DEF SplitDone
-----------------------------------------------------------------------------
Partner(p, k) == BuddyOf(AlignDown(p, k), k)

(* The run that the block at p is merged into, and the buddies it takes.   *)
MergeShape(p, o, n) ==
  /\ \A k \in o .. n :
       /\ AlignDown(p, k) \in Nat /\ AlignDown(p, k) % 2^k = 0
       /\ Run(p, o) \subseteq Run(AlignDown(p, k), k)
       /\ Partner(p, k) \in Nat /\ Partner(p, k) % 2^k = 0 /\ Partner(p, k) # AlignDown(p, k)
       /\ BuddyOf(Partner(p, k), k) = AlignDown(p, k)
       /\ Run(AlignDown(p, k + 1), k + 1) = Run(AlignDown(p, k), k) \union Run(Partner(p, k), k)
  /\ \A k \in o .. n - 1 : Run(Partner(p, k), k) \subseteq Run(AlignDown(p, n), n)
  /\ \A x \in Run(AlignDown(p, n), n) :
       x \in Run(p, o) \/ \E k \in o .. n - 1 : x \in Run(Partner(p, k), k)

(* The run and its buddies, order by order, are apart and together the     *)
(* merged run.                                                             *)
LEMMA MergeFacts ==
  ASSUME NEW p \in Nat, NEW o \in 0 .. MaxOrder - 1, NEW n \in 0 .. MaxOrder - 1, o <= n, p % 2^o = 0
  PROVE  MergeShape(p, o, n)
<1>0. MaxOrder \in Nat \ {0} /\ o \in Nat /\ n \in Nat /\ n < MaxOrder /\ o \in 0 .. MaxOrder
  BY BuddyAssumption
<1>1. ASSUME NEW k \in o .. n
      PROVE  /\ AlignDown(p, k) \in Nat /\ AlignDown(p, k) % 2^k = 0
             /\ Run(p, o) \subseteq Run(AlignDown(p, k), k)
             /\ Partner(p, k) \in Nat /\ Partner(p, k) % 2^k = 0 /\ Partner(p, k) # AlignDown(p, k)
             /\ BuddyOf(Partner(p, k), k) = AlignDown(p, k)
             /\ Run(AlignDown(p, k + 1), k + 1) = Run(AlignDown(p, k), k) \union Run(Partner(p, k), k)
  <2>1. k \in 0 .. MaxOrder /\ k \in 0 .. MaxOrder - 1 /\ o <= k /\ k + 1 \in 0 .. MaxOrder /\ k <= k + 1 /\ k \in Nat
    BY <1>0
  <2>. PICK a : a = AlignDown(p, k)
    OBVIOUS
  <2>2. a \in Nat /\ a % 2^k = 0 /\ p \in Run(a, k)
    BY <2>1, AlignDownFacts
  <2>3. p \in Run(p, o)
    BY <1>0, RunFacts
  <2>4. Run(p, o) \subseteq Run(a, k)
    BY <1>0, <2>1, <2>3, AlignDownTwice
  <2>5. /\ BuddyOf(a, k) \in Nat /\ BuddyOf(a, k) % 2^k = 0
        /\ BuddyOf(a, k) # a /\ BuddyOf(BuddyOf(a, k), k) = a
        /\ Run(AlignDown(a, k + 1), k + 1) = Run(a, k) \union Run(BuddyOf(a, k), k)
    BY <2>1, <2>2, BuddyFacts
  <2>6. AlignDown(p, k + 1) = AlignDown(a, k + 1)
    BY <2>1, <2>2, AlignDownTwice
  <2>. QED  BY <2>2, <2>4, <2>5, <2>6 DEF Partner
<1>. DEFINE Good(m) == /\ \A k \in o .. m - 1 : Run(Partner(p, k), k) \subseteq Run(AlignDown(p, m), m)
                       /\ \A x \in Run(AlignDown(p, m), m) :
                            x \in Run(p, o) \/ \E k \in o .. m - 1 : x \in Run(Partner(p, k), k)
            T == {m \in o .. n : ~Good(m)}
<1>2. Good(o)
  <2>1. AlignDown(p, o) = p
    BY <1>0, AlignDownSelf
  <2>2. o .. o - 1 = {}
    BY <1>0
  <2>. QED  BY <2>1, <2>2
<1>3. ASSUME NEW m \in o .. n, m + 1 \in o .. n, Good(m) PROVE Good(m + 1)
  <2>1. Run(AlignDown(p, m + 1), m + 1) = Run(AlignDown(p, m), m) \union Run(Partner(p, m), m)
    BY <1>1
  <2>2. (m + 1) - 1 = m /\ o .. m = (o .. m - 1) \union {m} /\ m \in o .. m
    BY <1>0
  <2>. QED  BY <1>3, <2>1, <2>2
<1>4. T = {}
  <2>1. SUFFICES ASSUME T # {} PROVE FALSE
    OBVIOUS
  <2>2. T \subseteq Nat
    BY <1>0
  <2>3. PICK m \in T : \A y \in T : m <= y
    <3>. HIDE DEF T
    <3>. QED  BY <2>1, <2>2, LeastMember
  <2>4. m \in o .. n /\ ~Good(m)
    BY <2>3
  <2>5. m # o
    BY <1>2, <2>4
  <2>6. m - 1 \in o .. n /\ (m - 1) + 1 = m /\ ~(m <= m - 1)
    BY <1>0, <2>4, <2>5
  <2>7. m - 1 \notin T
    BY <2>3, <2>6
  <2>. HIDE DEF Good
  <2>8. Good(m - 1)
    BY <2>6, <2>7
  <2>9. Good((m - 1) + 1)
    BY <1>3, <2>4, <2>6, <2>8
  <2>. QED  BY <2>4, <2>6, <2>9
<1>5. n \in o .. n
  BY <1>0
<1>6. Good(n)
  <2>. HIDE DEF Good
  <2>. QED  BY <1>4, <1>5
<1>. QED  BY <1>1, <1>6 DEF MergeShape

(* kFreePages: the block h is merged with its free buddies, order by       *)
(* order, up to order n, and the result is listed.                         *)
Gone(h, n) == {<<Partner(h[1], k), k>> : k \in h[2] .. n - 1}
MergedBlocks(L, h, n) == (L \ Gone(h, n)) \union {<<AlignDown(h[1], n), n>>}
MergedMarks(marked, h, n) ==
  ((marked \ Span(h)) \ {Partner(h[1], k) : k \in h[2] .. n - 1}) \union {AlignDown(h[1], n)}
MergedOrders(ord, h, n) == [ord EXCEPT ![AlignDown(h[1], n)] = n]

(* The buddy of the run at order k is there to be taken.                   *)
Joins(marked, ord, fixed, count, p, k) ==
  Partner(p, k) + 2^k <= count /\ Partner(p, k) \notin fixed /\ Partner(p, k) \in marked /\ ord[Partner(p, k)] = k

Mergeable(L, free, marked, ord, taken, fixed, count, h, n) ==
  /\ count \in 0 .. Total /\ h \in taken /\ n \in Order /\ h[2] <= n
  /\ ListsOK(L, free, marked, ord) /\ HeldOK(taken, free, fixed, ord, count)
  /\ MarksOK(L, marked, ord, taken) /\ ord \in [Pfn -> Order]
  /\ free \subseteq Pfn /\ free \subseteq 0 .. count - 1 /\ free \cap fixed = {}
  /\ n = MaxOrder - 1 \/ ~Joins(marked, ord, fixed, count, h[1], n)
  /\ \A k \in h[2] .. n - 1 : Joins(marked, ord, fixed, count, h[1], k)

MergeDone(L, free, marked, ord, taken, fixed, count, h, n) ==
  /\ ListsOK(MergedBlocks(L, h, n), free \union Span(h), MergedMarks(marked, h, n), MergedOrders(ord, h, n))
  /\ HeldOK(taken \ {h}, free \union Span(h), fixed, MergedOrders(ord, h, n), count)
  /\ MarksOK(MergedBlocks(L, h, n), MergedMarks(marked, h, n), MergedOrders(ord, h, n), taken \ {h})
  /\ MergedOrders(ord, h, n) \in [Pfn -> Order]
  /\ Gone(h, n) \subseteq L /\ <<AlignDown(h[1], n), n>> \notin L /\ AlignDown(h[1], n) \in Pfn
  /\ Span(h) \subseteq Pfn /\ Span(h) \subseteq 0 .. count - 1 /\ Span(h) \cap (free \union fixed) = {}
  /\ \A k \in h[2] .. n - 1 : Partner(h[1], k) \in Pfn

(* Freeing with merging keeps lists, marks and orders in step.             *)
LEMMA MergeLists ==
  ASSUME NEW L, NEW free, NEW marked, NEW ord, NEW taken, NEW fixed, NEW count, NEW h, NEW n,
         Mergeable(L, free, marked, ord, taken, fixed, count, h, n)
  PROVE  MergeDone(L, free, marked, ord, taken, fixed, count, h, n)
<1>. /\ count \in 0 .. Total /\ h \in taken /\ n \in Order /\ h[2] <= n
     /\ ListsOK(L, free, marked, ord) /\ HeldOK(taken, free, fixed, ord, count)
     /\ MarksOK(L, marked, ord, taken) /\ ord \in [Pfn -> Order]
     /\ free \subseteq Pfn /\ free \subseteq 0 .. count - 1 /\ free \cap fixed = {}
     /\ n = MaxOrder - 1 \/ ~Joins(marked, ord, fixed, count, h[1], n)
     /\ \A k \in h[2] .. n - 1 : Joins(marked, ord, fixed, count, h[1], k)
  BY DEF Mergeable
<1>. PICK gone, L2, marked2, ord2 :
       /\ gone = Gone(h, n) /\ L2 = MergedBlocks(L, h, n)
       /\ marked2 = MergedMarks(marked, h, n) /\ ord2 = MergedOrders(ord, h, n)
  OBVIOUS
<1>. /\ gone = {<<Partner(h[1], k), k>> : k \in h[2] .. n - 1}
     /\ L2 = (L \ gone) \union {<<AlignDown(h[1], n), n>>}
     /\ marked2 = ((marked \ Span(h)) \ {Partner(h[1], k) : k \in h[2] .. n - 1}) \union {AlignDown(h[1], n)}
     /\ ord2 = [ord EXCEPT ![AlignDown(h[1], n)] = n]
  BY DEF Gone, MergedBlocks, MergedMarks, MergedOrders
<1>. /\ \A k \in h[2] .. n - 1 : Partner(h[1], k) \in marked /\ ord[Partner(h[1], k)] = k
     /\ n = MaxOrder - 1
          \/ ~(/\ Partner(h[1], n) + 2^n <= count /\ Partner(h[1], n) \notin fixed
               /\ Partner(h[1], n) \in marked /\ ord[Partner(h[1], n)] = n)
  BY DEF Joins
<1>. PICK p, o : p = h[1] /\ o = h[2]
  OBVIOUS
<1>1. /\ p \in Nat /\ o \in Order /\ o \in 0 .. MaxOrder /\ o \in Nat /\ h \in Block
      /\ h = <<p, o>> /\ p \in Span(h) /\ Span(h) = Run(p, o) /\ p % 2^o = 0
      /\ Span(h) \subseteq 0 .. count - 1 /\ Span(h) \cap (free \union fixed) = {}
      /\ MaxOrder \in Nat \ {0} /\ Order = 0 .. MaxOrder - 1
  <2>1. h \in Block /\ Aligned(h) /\ Span(h) \subseteq 0 .. count - 1 /\ Span(h) \cap (free \union fixed) = {}
    BY DEF HeldOK
  <2>. QED  BY <2>1, BlockFacts DEF Aligned, Span, Order
<1>2. Span(h) \subseteq Pfn
  <2>1. 0 .. count - 1 \subseteq Pfn
    BY BuddyAssumption DEF Pfn
  <2>. QED  BY <1>1, <2>1
<1>. PICK a, K, hb : a = AlignDown(p, n) /\ K = o .. n - 1 /\ hb = <<a, n>>
  OBVIOUS
<1>3. /\ \A k \in o .. n :
           /\ AlignDown(p, k) \in Nat /\ AlignDown(p, k) % 2^k = 0
           /\ Run(p, o) \subseteq Run(AlignDown(p, k), k)
           /\ Partner(p, k) \in Nat /\ Partner(p, k) % 2^k = 0 /\ Partner(p, k) # AlignDown(p, k)
           /\ BuddyOf(Partner(p, k), k) = AlignDown(p, k)
           /\ Run(AlignDown(p, k + 1), k + 1) = Run(AlignDown(p, k), k) \union Run(Partner(p, k), k)
      /\ \A k \in o .. n - 1 : Run(Partner(p, k), k) \subseteq Run(AlignDown(p, n), n)
      /\ \A x \in Run(AlignDown(p, n), n) :
           x \in Run(p, o) \/ \E k \in o .. n - 1 : x \in Run(Partner(p, k), k)
  <2>1. o \in 0 .. MaxOrder - 1 /\ n \in 0 .. MaxOrder - 1 /\ o <= n
    BY <1>1
  <2>2. p \in Nat /\ p % 2^o = 0
    BY <1>1
  <2>3. MergeShape(p, o, n)
    BY ONLY <2>1, <2>2, MergeFacts
  <2>. QED  BY <2>3 DEF MergeShape
<1>4. /\ n \in o .. n /\ n \in Nat /\ n \in 0 .. MaxOrder /\ n \in Order
      /\ \A k \in K : k \in o .. n /\ k \in Order /\ k \in Nat /\ k < n /\ o <= k
      /\ \A k \in K : Partner(p, k) \in marked /\ ord[Partner(p, k)] = k
  BY <1>1

(* The buddies taken are listed: a stale mark would be inside a block that *)
(* also has p.                                                             *)
<1>5. ASSUME NEW k \in K
      PROVE  LET c == <<Partner(p, k), k>> IN
             c \in L /\ c[1] = Partner(p, k) /\ c[2] = k /\ Span(c) = Run(Partner(p, k), k)
  <2>. PICK q : q = Partner(p, k)
    OBVIOUS
  <2>1. q \in marked /\ ord[q] = k /\ q \in Nat /\ k \in o .. n /\ k \in Order /\ k \in Nat /\ k \in 0 .. MaxOrder
    BY <1>1, <1>3, <1>4, SMTT(30)
  <2>2. SUFFICES ASSUME <<q, k>> \notin L PROVE FALSE
    BY DEF Span
  <2>3. PICK c \in L \union taken : q \in Span(c) /\ c[2] > k
    BY <2>1, <2>2 DEF MarksOK
  <2>4. c \in Block /\ Aligned(c) /\ (c \in L => Span(c) \subseteq free)
    BY DEF ListsOK, HeldOK
  <2>5. c[1] \in Nat /\ c[2] \in 0 .. MaxOrder /\ c[2] \in Nat /\ c[1] % 2^c[2] = 0 /\ k + 1 \in 0 .. MaxOrder
        /\ k + 1 <= c[2]
    BY <1>1, <2>1, <2>3, <2>4, BlockFacts, SMTT(30) DEF Aligned
  <2>6. Run(AlignDown(p, k + 1), k + 1) = Run(AlignDown(p, k), k) \union Run(q, k)
    BY <1>3, <2>1
  <2>7. q \in Run(AlignDown(p, k + 1), k + 1)
    BY <2>1, <2>6, RunFacts
  <2>8. AlignDown(p, k + 1) \in Nat /\ AlignDown(p, k + 1) % 2^(k + 1) = 0
    BY <1>1, <2>5, AlignDownFacts
  <2>9. Run(AlignDown(p, k + 1), k + 1) \subseteq Run(c[1], c[2])
    <3>1. Run(AlignDown(p, k + 1), k + 1) \cap Run(c[1], c[2]) # {}
      BY <2>3, <2>7 DEF Span
    <3>. PICK u, j, v, l : u = AlignDown(p, k + 1) /\ j = k + 1 /\ v = c[1] /\ l = c[2]
      OBVIOUS
    <3>2. /\ u \in Nat /\ v \in Nat /\ j \in 0 .. MaxOrder /\ l \in 0 .. MaxOrder /\ j <= l
          /\ u % 2^j = 0 /\ v % 2^l = 0 /\ Run(u, j) \cap Run(v, l) # {}
      BY <2>5, <2>8, <3>1
    <3>3. Run(u, j) \subseteq Run(v, l)
      BY ONLY <3>2, RunsNest
    <3>. QED  BY <3>3
  <2>10. Run(p, o) \subseteq Span(c)
    BY <1>3, <2>1, <2>6, <2>9 DEF Span
  <2>11. p \in Span(c)
    BY <1>1, <2>10
  <2>12. CASE c \in L
    BY <1>1, <2>4, <2>11, <2>12
  <2>13. CASE c \in taken
    <3>1. c = h
      BY <1>1, <2>11, <2>13 DEF HeldOK
    <3>. QED  BY <1>1, <2>1, <2>3, <3>1
  <2>. QED  BY <2>3, <2>12, <2>13
<1>6. gone \subseteq L
  BY <1>5
<1>7. hb \in Block /\ hb[1] = a /\ hb[2] = n /\ Span(hb) = Run(a, n) /\ Aligned(hb)
      /\ Span(h) \subseteq Run(a, n) /\ Run(a, n) \subseteq free \union Span(h) /\ a \in Run(a, n) /\ a \in Pfn
  <2>1. a \in Nat /\ a % 2^n = 0 /\ Run(p, o) \subseteq Run(a, n)
    BY <1>3, <1>4
  <2>2. a \in Run(a, n)
    BY <1>4, <2>1, RunFacts
  <2>3. ASSUME NEW k \in K PROVE Run(Partner(p, k), k) \subseteq free
    <3>. PICK c : c = <<Partner(p, k), k>>
      OBVIOUS
    <3>1. c \in L /\ Span(c) = Run(Partner(p, k), k)
      BY <1>5
    <3>. QED  BY <3>1 DEF ListsOK
  <2>4. Run(a, n) \subseteq free \union Span(h)
    BY <1>1, <1>3, <2>3
  <2>5. a \in Pfn
    BY <1>2, <2>2, <2>4
  <2>. QED  BY <1>1, <1>4, <2>1, <2>2, <2>4, <2>5 DEF Block, Span, Aligned

(* No other listed block and no held one overlaps the result.              *)
<1>8. ASSUME NEW c \in L, c \notin gone PROVE Span(c) \cap Run(a, n) = {} /\ c[1] # a
  <2>1. c \in Block /\ Span(c) \subseteq free /\ c[1] \in Span(c)
    BY BlockFacts DEF ListsOK
  <2>2. ASSUME NEW x \in Span(c), x \in Run(a, n) PROVE FALSE
    <3>1. x \notin Run(p, o)
      BY <1>1, <2>1, SMTT(30)
    <3>2. PICK k \in K : x \in Run(Partner(p, k), k)
      BY <1>3, <2>2, <3>1
    <3>3. <<Partner(p, k), k>> \in L /\ x \in Span(<<Partner(p, k), k>>)
      BY <1>5, <3>2
    <3>4. c = <<Partner(p, k), k>>
      BY <3>3 DEF ListsOK
    <3>. QED  BY <1>8, <3>4
  <2>. QED  BY <1>7, <2>1, <2>2
<1>9. hb \notin L
  <2>1. a \in Run(a, n) /\ p \in Run(a, n) /\ p \notin free
    BY <1>1, <1>7
  <2>. QED  BY <1>1, <1>7, <2>1 DEF ListsOK
<1>10. ASSUME NEW c \in taken, c # h PROVE Span(c) \cap Run(a, n) = {} /\ c[1] # a /\ c \in Block
  <2>1. c \in Block /\ Span(c) \cap free = {} /\ Span(c) \cap Span(h) = {} /\ c[1] \in Span(c)
    BY <1>10, BlockFacts DEF HeldOK
  <2>2. Span(c) \cap Run(a, n) = {}
    BY <1>7, <2>1
  <2>. QED  BY <1>7, <2>1, <2>2
<1>11. ord2 \in [Pfn -> Order] /\ ord2[a] = n /\ \A q \in Pfn : q # a => ord2[q] = ord[q]
  BY <1>4, <1>7
<1>. PICK F : F = free \union Span(h)
  OBVIOUS
<1>12. ListsOK(L2, F, marked2, ord2)
  <2>1. L2 \subseteq Block
    BY <1>7 DEF ListsOK
  <2>2. ASSUME NEW c \in L2 PROVE Aligned(c) /\ c[1] \in marked2 /\ ord2[c[1]] = c[2] /\ Span(c) \subseteq F
    <3>1. CASE c = hb
      BY <1>7, <1>11, <3>1
    <3>2. CASE c \in L /\ c \notin gone
      <4>1. Aligned(c) /\ c[1] \in marked /\ ord[c[1]] = c[2] /\ Span(c) \subseteq F /\ c \in Block
            /\ c[1] \in Span(c) /\ c[1] \in Pfn
        BY <3>2, BlockFacts DEF ListsOK
      <4>2. c[1] # a /\ c[1] \notin Run(a, n)
        BY <1>8, <3>2, <4>1
      <4>3. ASSUME NEW k \in K PROVE c[1] # Partner(p, k)
        <5>1. Partner(p, k) \in Run(Partner(p, k), k)
          <6>1. Partner(p, k) \in Nat /\ k \in 0 .. MaxOrder
            BY <1>1, <1>3, <1>4
          <6>. QED  BY <6>1, RunFacts
        <5>2. Partner(p, k) \in Run(a, n)
          BY <1>3, <5>1
        <5>. QED  BY <4>2, <5>2
      <4>4. c[1] \notin Span(h)
        BY <1>7, <4>2
      <4>5. c[1] \in marked2
        BY <4>1, <4>3, <4>4
      <4>. QED  BY <1>11, <4>1, <4>2, <4>5
    <3>. QED  BY <3>1, <3>2
  <2>3. ASSUME NEW c \in L2, NEW d \in L2, Span(c) \cap Span(d) # {} PROVE c = d
    <3>1. CASE c = hb /\ d = hb
      BY <3>1
    <3>2. CASE c \in L /\ d \in L
      BY <2>3, <3>2 DEF ListsOK
    <3>3. \A e \in L : e \notin gone => Span(e) \cap Span(hb) = {}
      BY <1>7, <1>8
    <3>4. \A e \in L2 : e = hb \/ (e \in L /\ e \notin gone)
      OBVIOUS
    <3>. QED  BY <2>3, <3>1, <3>2, <3>3, <3>4
  <2>4. ASSUME NEW f \in F PROVE \E c \in L2 : f \in Span(c)
    <3>1. CASE f \in Span(h)
      <4>1. f \in Span(hb) /\ hb \in L2
        BY <1>7, <3>1
      <4>. QED  BY <4>1
    <3>2. CASE f \in free
      <4>1. PICK c \in L : f \in Span(c)
        BY <3>2 DEF ListsOK
      <4>2. CASE c \notin gone
        BY <4>1, <4>2
      <4>3. CASE c \in gone
        <5>1. PICK k \in K : c = <<Partner(p, k), k>>
          BY <4>3
        <5>2. f \in Run(a, n)
          BY <1>3, <1>5, <4>1, <5>1
        <5>3. f \in Span(hb) /\ hb \in L2
          BY <1>7, <5>2
        <5>. QED  BY <5>3
      <4>. QED  BY <4>2, <4>3
    <3>. QED  BY <3>1, <3>2
  <2>5. ASSUME NEW c \in L2, c[2] < MaxOrder - 1, <<BuddyOf(c[1], c[2]), c[2]>> \in L2 PROVE FALSE
    <3>. PICK d : d = <<BuddyOf(c[1], c[2]), c[2]>>
      OBVIOUS
    <3>1. d \in L2 /\ d[1] = BuddyOf(c[1], c[2]) /\ d[2] = c[2]
      BY <2>5
    <3>2. CASE c \in L /\ d \in L
      BY <2>5, <3>2 DEF ListsOK
    (* The buddy of the result is not listed: the merging would have gone on. *)
    <3>3. ASSUME n < MaxOrder - 1, <<Partner(p, n), n>> \in L PROVE FALSE
      <4>. PICK e, q : q = Partner(p, n) /\ e = <<q, n>>
        OBVIOUS
      <4>1. e[1] = q /\ e[2] = n /\ e \in L /\ Span(e) = Run(q, n)
        BY <3>3 DEF Span
      <4>2. q \in marked /\ ord[q] = n /\ Run(q, n) \subseteq free
        BY <4>1 DEF ListsOK
      <4>3. q \in Nat /\ 2^n \in Nat \ {0}
        BY <1>3, <1>4, PowerFacts
      <4>4. q \in Run(q, n) /\ q + 2^n - 1 \in Run(q, n)
        BY <4>3 DEF Run
      <4>5. q \notin fixed /\ q + 2^n - 1 \in 0 .. count - 1
        BY <4>2, <4>4
      <4>6. q + 2^n <= count
        BY <4>3, <4>5
      <4>7. n # MaxOrder - 1
        BY <1>1, <1>4, <3>3
      <4>. QED  BY <4>2, <4>5, <4>6, <4>7
    <3>4. CASE c = hb
      <4>1. d[1] = Partner(p, n) /\ d[2] = n /\ d = <<d[1], d[2]>>
        BY <1>7, <3>1, <3>4 DEF Partner
      <4>2. d # hb
        BY <1>3, <1>4, <1>7, <4>1
      <4>3. d \in L
        BY <3>1, <4>2
      <4>. QED  BY <1>7, <2>5, <3>3, <3>4, <4>1, <4>3
    <3>5. CASE d = hb /\ c \in L
      <4>1. c \in Block /\ Aligned(c) /\ c[2] = n /\ BuddyOf(c[1], n) = a
        BY <1>7, <3>1, <3>5 DEF ListsOK
      <4>2. n \in 0 .. MaxOrder - 1 /\ c[1] \in Nat /\ c[1] % 2^n = 0 /\ c = <<c[1], c[2]>>
        BY <1>1, <1>4, <4>1, BlockFacts DEF Aligned
      <4>3. BuddyOf(a, n) = c[1]
        BY <4>1, <4>2, BuddyFacts
      <4>4. c = <<Partner(p, n), n>>
        BY <4>1, <4>2, <4>3 DEF Partner
      <4>. QED  BY <2>5, <3>3, <3>5, <4>1, <4>4
    <3>. QED  BY <3>1, <3>2, <3>4, <3>5
  <2>. QED  BY <2>1, <2>2, <2>3, <2>4, <2>5 DEF ListsOK
<1>13. HeldOK(taken \ {h}, F, fixed, ord2, count)
  <2>1. ASSUME NEW c \in taken \ {h}
        PROVE  Aligned(c) /\ ord2[c[1]] = c[2] /\ Span(c) \subseteq 0 .. count - 1 /\ Span(c) \cap (F \union fixed) = {}
    <3>1. Aligned(c) /\ ord[c[1]] = c[2] /\ Span(c) \subseteq 0 .. count - 1 /\ Span(c) \cap (free \union fixed) = {}
      BY DEF HeldOK
    <3>2. Span(c) \cap Span(h) = {} /\ c[1] # a /\ c[1] \in Pfn
      BY <1>7, <1>10, BlockFacts
    <3>. QED  BY <1>11, <3>1, <3>2
  <2>. QED  BY <2>1 DEF HeldOK
<1>14. MarksOK(L2, marked2, ord2, taken \ {h})
  <2>1. marked2 \subseteq Pfn
    BY <1>7 DEF MarksOK
  <2>2. a % 2^ord2[a] = 0 /\ <<a, ord2[a]>> \in L2
    BY <1>7, <1>11 DEF Aligned
  <2>3. ASSUME NEW q \in marked2, q # a
        PROVE  /\ q % 2^ord2[q] = 0
               /\ <<q, ord2[q]>> \in L2 \/ \E c \in L2 \union (taken \ {h}) : q \in Span(c) /\ c[2] > ord2[q]
    <3>. PICK k : k = ord[q]
      OBVIOUS
    <3>1. q \in marked /\ q \in Pfn /\ ord2[q] = k /\ q % 2^k = 0 /\ q \notin Span(h) /\ k \in Nat
          /\ \A j \in K : q # Partner(p, j)
      <4>1. q \in marked /\ q \notin Span(h) /\ \A j \in K : q # Partner(p, j)
        BY <2>3
      <4>2. q \in Pfn /\ q % 2^k = 0
        BY <4>1 DEF MarksOK
      <4>3. k \in Nat
        BY <1>1, <4>2
      <4>. QED  BY <1>11, <2>3, <4>1, <4>2, <4>3
    <3>2. CASE <<q, k>> \in L
      <4>1. <<q, k>> \notin gone
        BY <3>1
      <4>. QED  BY <3>1, <3>2, <4>1
    <3>3. CASE \E c \in L \union taken : q \in Span(c) /\ c[2] > k
      <4>1. PICK c \in L \union taken : q \in Span(c) /\ c[2] > k
        BY <3>3
      <4>2. c # h
        BY <3>1, <4>1
      <4>3. CASE c \notin gone
        <5>1. c \in L2 \union (taken \ {h})
          BY <4>1, <4>2, <4>3
        <5>. QED  BY <3>1, <4>1, <5>1
      <4>4. CASE c \in gone
        <5>1. PICK j \in K : c = <<Partner(p, j), j>>
          BY <4>4
        <5>2. c[2] = j /\ Span(c) \subseteq Run(a, n) /\ j < n /\ j \in Nat
          BY <1>3, <1>4, <1>5, <5>1
        <5>3. q \in Span(hb) /\ hb[2] > k /\ hb \in L2
          BY <1>4, <1>7, <3>1, <4>1, <5>2
        <5>. QED  BY <3>1, <5>3
      <4>. QED  BY <4>3, <4>4
    <3>4. <<q, k>> \in L \/ \E c \in L \union taken : q \in Span(c) /\ c[2] > k
      BY <3>1 DEF MarksOK
    <3>. QED  BY <3>2, <3>3, <3>4
  <2>. QED  BY <2>1, <2>2, <2>3 DEF MarksOK
<1>15. \A k \in K : Partner(p, k) \in Pfn
  BY <1>4 DEF MarksOK
<1>. QED  BY <1>1, <1>2, <1>6, <1>7, <1>9, <1>11, <1>12, <1>13, <1>14, <1>15 DEF MergeDone
-----------------------------------------------------------------------------
(* A refusal is right: with no block of order o or more listed, no aligned *)
(* run of that order is free, for the smallest block in such a run would   *)
(* have been merged with its buddy.                                        *)
LEMMA NothingLeft ==
  ASSUME NEW L, NEW free, NEW marked, NEW ord, ListsOK(L, free, marked, ord),
         NEW o \in Order, \A b \in L : ~(o <= b[2]),
         NEW p \in Nat, p % 2^o = 0, Run(p, o) \subseteq free
  PROVE  FALSE
<1>1. /\ MaxOrder \in Nat \ {0} /\ o \in Nat /\ o \in 0 .. MaxOrder /\ o <= MaxOrder - 1
      /\ p \in Run(p, o)
  <2>1. MaxOrder \in Nat \ {0} /\ o \in Nat /\ o \in 0 .. MaxOrder /\ o <= MaxOrder - 1
    BY BuddyAssumption DEF Order
  <2>. QED  BY <2>1, RunFacts
<1>. DEFINE Inside == {b \in L : Span(b) \subseteq Run(p, o)}
            T == {b[2] : b \in Inside}
<1>2. ASSUME NEW b \in L, Span(b) \cap Run(p, o) # {}
      PROVE  b \in Inside /\ b \in Block /\ Aligned(b) /\ b[1] \in Nat /\ b[2] \in Nat /\ b[2] \in 0 .. MaxOrder /\ b[2] < o
  <2>1. b \in Block /\ Aligned(b) /\ ~(o <= b[2])
    BY DEF ListsOK
  <2>2. b[1] \in Nat /\ b[2] \in 0 .. MaxOrder /\ b[2] \in Nat /\ b[1] % 2^b[2] = 0 /\ b[2] < o
    BY <1>1, <2>1, BlockFacts DEF Aligned
  <2>. PICK q, j : q = b[1] /\ j = b[2]
    OBVIOUS
  <2>3. /\ q \in Nat /\ j \in 0 .. MaxOrder /\ o \in 0 .. MaxOrder /\ j <= o /\ q % 2^j = 0
        /\ Run(q, j) \cap Run(p, o) # {} /\ p % 2^o = 0
    BY <1>1, <1>2, <2>2 DEF Span
  <2>4. Run(q, j) \subseteq Run(p, o)
    BY ONLY <2>3, RunsNest
  <2>. QED  BY <2>1, <2>2, <2>4 DEF Span
<1>3. ASSUME NEW f \in Run(p, o) PROVE \E b \in Inside : f \in Span(b)
  <2>1. PICK b \in L : f \in Span(b)
    BY DEF ListsOK
  <2>. QED  BY <1>2, <2>1
<1>4. \A b \in Inside : b \in L /\ b[2] \in Nat
  BY BlockFacts DEF ListsOK
<1>5. PICK b \in Inside : \A c \in Inside : b[2] <= c[2]
  <2>1. PICK c \in Inside : p \in Span(c)
    BY <1>1, <1>3
  <2>2. T \subseteq Nat /\ T # {}
    BY <1>4, <2>1
  <2>3. PICK x \in T : \A y \in T : x <= y
    <3>. HIDE DEF T
    <3>. QED  BY <2>2, LeastMember
  <2>. QED  BY <2>3
<1>. PICK q, m : q = b[1] /\ m = b[2]
  OBVIOUS
<1>6. /\ b \in L /\ b \in Block /\ q \in Nat /\ m \in Nat /\ m < o /\ q % 2^m = 0 /\ Span(b) = Run(q, m)
      /\ q \in Span(b) /\ q \in Run(p, o) /\ m \in 0 .. MaxOrder - 1 /\ m < MaxOrder - 1
      /\ m + 1 \in 0 .. MaxOrder /\ m + 1 <= o /\ m \in 0 .. MaxOrder /\ b = <<q, m>>
  <2>1. b \in L /\ b \in Block /\ Span(b) \subseteq Run(p, o)
    BY DEF ListsOK
  <2>2. q \in Span(b) /\ b = <<q, m>>
    BY <2>1, BlockFacts
  <2>3. Aligned(b) /\ q \in Nat /\ m \in Nat /\ m < o
    BY <1>2, <2>1, <2>2
  <2>. QED  BY <1>1, <2>1, <2>2, <2>3 DEF Aligned, Span
<1>. PICK c, u : c = BuddyOf(q, m) /\ u = AlignDown(q, m + 1)
  OBVIOUS
<1>7. c \in Nat /\ c % 2^m = 0 /\ c # q /\ Run(u, m + 1) = Run(q, m) \union Run(c, m)
  BY <1>6, BuddyFacts, SMTT(30)
<1>8. u \in Nat /\ u % 2^(m + 1) = 0 /\ c \in Run(c, m)
  <2>1. c \in Run(c, m)
    BY <1>6, <1>7, RunFacts
  <2>. PICK j : j = m + 1
    OBVIOUS
  <2>2. q \in Nat /\ j \in 0 .. MaxOrder /\ u = AlignDown(q, j)
    BY <1>6
  <2>3. u \in Nat /\ u % 2^j = 0
    BY ONLY <2>2, AlignDownFacts
  <2>. QED  BY <2>1, <2>3
<1>9. Run(u, m + 1) \subseteq Run(p, o)
  <2>. PICK j : j = m + 1
    OBVIOUS
  <2>1. /\ u \in Nat /\ j \in 0 .. MaxOrder /\ o \in 0 .. MaxOrder /\ j <= o /\ u % 2^j = 0
        /\ Run(u, j) \cap Run(p, o) # {} /\ p % 2^o = 0
    BY <1>1, <1>6, <1>7, <1>8
  <2>2. Run(u, j) \subseteq Run(p, o)
    BY ONLY <2>1, RunsNest
  <2>. QED  BY <2>2
<1>10. PICK d \in Inside : c \in Span(d)
  BY <1>3, <1>7, <1>8, <1>9
<1>11. d \in L /\ d \in Block /\ Aligned(d) /\ d[1] \in Nat /\ d[2] \in Nat /\ d[2] \in 0 .. MaxOrder /\ m <= d[2]
       /\ d = <<d[1], d[2]>>
  <2>1. c \in Run(p, o)
    BY <1>7, <1>8, <1>9
  <2>2. d \in L
    OBVIOUS
  <2>. QED  BY <1>2, <1>5, <1>10, <2>1, <2>2, BlockFacts
<1>12. CASE d[2] = m
  <2>1. d[1] = c
    <3>1. AlignDown(c, m) = c
      BY <1>6, <1>7, AlignDownSelf
    <3>2. AlignDown(c, m) = d[1]
      BY <1>6, <1>7, <1>10, <1>11, <1>12, AlignDownFacts DEF Aligned, Span
    <3>. QED  BY <3>1, <3>2
  <2>. QED  BY <1>6, <1>11, <1>12, <2>1 DEF ListsOK
<1>13. CASE d[2] > m
  <2>. PICK j, v, l : j = m + 1 /\ v = d[1] /\ l = d[2]
    OBVIOUS
  <2>1. /\ u \in Nat /\ v \in Nat /\ j \in 0 .. MaxOrder /\ l \in 0 .. MaxOrder /\ j <= l
        /\ u % 2^j = 0 /\ v % 2^l = 0 /\ Run(u, j) \cap Run(v, l) # {}
    BY <1>6, <1>7, <1>8, <1>10, <1>11, <1>13 DEF Aligned, Span
  <2>2. Run(u, j) \subseteq Run(v, l)
    BY ONLY <2>1, RunsNest
  <2>3. q \in Span(d)
    BY <1>6, <1>7, <2>2 DEF Span
  <2>4. d = b
    BY <1>6, <1>11, <2>3 DEF ListsOK
  <2>. QED  BY <1>6, <1>13, <2>4
<1>. QED  BY <1>6, <1>11, <1>12, <1>13

(* A block is listed when its frame is in the list of its order.           *)
LEMMA ListedFacts ==
  ASSUME area \in [Order -> Seq(Pfn)]
  PROVE  /\ Listed \subseteq Block
         /\ \A b \in Block : b \in Listed <=> b[1] \in ToSet(area[b[2]])
<1>1. ASSUME NEW b \in Block PROVE b \in Listed <=> b[1] \in ToSet(area[b[2]])
  <2>1. b[2] \in Order
    BY BlockFacts
  <2>2. DOMAIN area[b[2]] = 1 .. Len(area[b[2]])
    BY <2>1
  <2>. QED  BY <2>2 DEF Listed, Contains, ToSet, Block
<1>. QED  BY <1>1 DEF Listed, Block

(* The same of the lists after a step.                                     *)
LEMMA ListedFactsPrimed ==
  ASSUME area' \in [Order -> Seq(Pfn)]
  PROVE  /\ Listed' \subseteq Block
         /\ \A b \in Block : b \in Listed' <=> b[1] \in ToSet(area'[b[2]])
<1>1. ASSUME NEW b \in Block PROVE b \in Listed' <=> b[1] \in ToSet(area'[b[2]])
  <2>1. b[2] \in Order
    BY BlockFacts
  <2>2. DOMAIN area'[b[2]] = 1 .. Len(area'[b[2]])
    BY <2>1
  <2>. QED  BY <2>2 DEF Listed, Contains, ToSet, Block
<1>. QED  BY <1>1 DEF Listed, Block
-----------------------------------------------------------------------------
(* The invariant of the free lists.                                        *)
FramesInv ==
  /\ total \in 0 .. Total
  /\ bitmap \subseteq Pfn /\ bitmap \subseteq 0 .. total - 1
  /\ reserved \subseteq Pfn /\ reserved \subseteq 0 .. total - 1 /\ bitmap \cap reserved = {}
  /\ order \in [Pfn -> Order]
  /\ area \in [Order -> Seq(Pfn)] /\ \A o \in Order : IsInjective(area[o])
  /\ freePages = Cardinality(bitmap)
  /\ refused \in BOOLEAN
  /\ ListsOK(Listed, bitmap, buddy, order)
  /\ HeldOK(held, bitmap, reserved, order, total)
  /\ MarksOK(Listed, buddy, order, held)

(* There are Total frames.                                                 *)
LEMMA PfnFinite == IsFiniteSet(Pfn) /\ Cardinality(Pfn) = Total /\ Pfn \subseteq Nat
<1>1. 0 \in Int /\ Total - 1 \in Int /\ ~(0 > Total - 1) /\ (Total - 1) - 0 + 1 = Total
  BY BuddyAssumption
<1>. QED  BY <1>1, FS_Interval DEF Pfn

(* What the run checks follows from it. *)
LEMMA InvImplies ==
  ASSUME FramesInv
  PROVE  FramesTypeOK /\ FreeListsExact /\ FullyMerged /\ OrderRemembered
<1>1. Listed \subseteq Block /\ \A b \in Listed : b[1] \in Pfn /\ b[2] \in Order
  BY ListedFacts, BlockFacts DEF FramesInv
<1>2. freePages \in 0 .. Total
  <2>1. Cardinality(bitmap) <= Cardinality(Pfn) /\ IsFiniteSet(bitmap)
    BY PfnFinite, FS_Subset DEF FramesInv
  <2>2. Cardinality(bitmap) \in Nat
    BY <2>1, FS_CardinalityType
  <2>. QED  BY <2>1, <2>2, PfnFinite, BuddyAssumption DEF FramesInv
<1>3. FramesTypeOK
  BY <1>2 DEF FramesInv, FramesTypeOK, HeldOK, MarksOK, Block
<1>4. ASSUME NEW f \in bitmap PROVE Cardinality({b \in Listed : f \in Run(b[1], b[2])}) = 1
  <2>1. PICK b \in Listed : f \in Span(b)
    BY DEF FramesInv, ListsOK
  <2>2. ASSUME NEW c \in Listed, f \in Span(c) PROVE c = b
    BY <2>1, <2>2 DEF FramesInv, ListsOK
  <2>3. {c \in Listed : f \in Run(c[1], c[2])} = {b}
    BY <2>1, <2>2 DEF Span
  <2>. QED  BY <2>3, FS_Singleton
<1>5. FreeListsExact
  BY <1>4 DEF FramesInv, ListsOK, FreeListsExact, Aligned, Span
<1>6. FullyMerged
  BY DEF FramesInv, ListsOK, FullyMerged
<1>7. OrderRemembered
  BY DEF FramesInv, HeldOK, OrderRemembered
<1>. QED  BY <1>3, <1>5, <1>6, <1>7

(* kBuildBuddyLists keeps the invariant when the free frames grow.         *)
LEMMA RebuildPreserves ==
  ASSUME FramesInv, NEW free, bitmap \subseteq free, free \subseteq Pfn, Build(free),
         HeldOK(held, free, reserved', order, total'),
         bitmap' = free, held' = held
  PROVE  /\ area' \in [Order -> Seq(Pfn)] /\ \A o \in Order : IsInjective(area'[o])
         /\ order' \in [Pfn -> Order]
         /\ ListsOK(Listed', free, buddy', order')
         /\ HeldOK(held, free, reserved', order', total')
         /\ MarksOK(Listed', buddy', order', held)
<1>1. ASSUME NEW o \in Order
      PROVE  /\ area'[o] \in Seq(Pfn) /\ IsInjective(area'[o])
             /\ \A p \in Pfn : p \in ToSet(area'[o]) <=> <<p, o>> \in Blocks(free)
  <2>. PICK S : S = {p \in Pfn : <<p, o>> \in Blocks(free)}
    OBVIOUS
  <2>. PICK s : s = Arranged(S, Above)
    OBVIOUS
  <2>1. area'[o] = s
    BY DEF Build, BuiltAreas
  <2>2. IsFiniteSet(S) /\ S \subseteq Pfn
    BY PfnFinite, FS_Subset
  <2>3. StrictOrder(S, Above)
    BY <2>2, PfnFinite DEF Above, StrictOrder
  <2>4. InOrder(s, S, Above)
    BY <2>2, <2>3, ArrangedFacts
  <2>5. s \in Seq(S) /\ IsInjective(s) /\ ToSet(s) = S
    BY <2>4 DEF InOrder
  <2>6. s \in Seq(Pfn)
    BY ONLY <2>2, <2>5
  <2>. QED  BY <2>1, <2>5, <2>6
<1>2. area' \in [Order -> Seq(Pfn)]
  <2>1. area' = [o \in Order |-> area'[o]]
    BY DEF Build, BuiltAreas
  <2>. QED  BY <1>1, <2>1
<1>3. Listed' = Blocks(free)
  <2>1. Blocks(free) \subseteq Block
    BY BlocksFacts
  <2>2. ASSUME NEW b \in Block PROVE b \in Listed' <=> b \in Blocks(free)
    <3>1. b[1] \in Pfn /\ b[2] \in Order /\ b = <<b[1], b[2]>>
      BY BlockFacts
    <3>2. b \in Listed' <=> b[1] \in ToSet(area'[b[2]])
      BY <1>2, ListedFactsPrimed
    <3>3. b[1] \in ToSet(area'[b[2]]) <=> <<b[1], b[2]>> \in Blocks(free)
      BY <1>1, <3>1
    <3>. QED  BY <3>1, <3>2, <3>3
  <2>3. Listed' \subseteq Block
    BY <1>2, ListedFactsPrimed
  <2>. QED  BY <2>1, <2>2, <2>3
<1>. PICK L, marked, ord, taken, fixed2, count2, marked2, ord2 :
       /\ L = Listed /\ marked = buddy /\ ord = order /\ taken = held
       /\ fixed2 = reserved' /\ count2 = total' /\ marked2 = buddy' /\ ord2 = order'
  OBVIOUS
<1>4. /\ free \subseteq Pfn /\ ord \in [Pfn -> Order]
      /\ MarksOK(L, marked, ord, taken) /\ L \subseteq Block
      /\ \A b \in L : Span(b) \subseteq free /\ Aligned(b)
      /\ HeldOK(taken, free, fixed2, ord, count2)
  BY DEF FramesInv, ListsOK
<1>5. marked2 = marked \union Heads(free)
  BY DEF Build, Heads
<1>6. ord2 = OrdersBuilt(free, ord)
  BY DEF Build, OrdersBuilt
<1>7. /\ ListsOK(Blocks(free), free, marked \union Heads(free), OrdersBuilt(free, ord))
      /\ HeldOK(taken, free, fixed2, OrdersBuilt(free, ord), count2)
      /\ MarksOK(Blocks(free), marked \union Heads(free), OrdersBuilt(free, ord), taken)
      /\ OrdersBuilt(free, ord) \in [Pfn -> Order]
  BY ONLY <1>4, RebuildLists
<1>. QED  BY <1>1, <1>2, <1>3, <1>5, <1>6, <1>7

(* Before there are frames the invariant holds of nothing.                 *)
LEMMA NoFramesInv ==
  ASSUME NoFrames
  PROVE  FramesInv
<1>1. Listed = {}
  BY DEF Listed, Contains, NoFrames
<1>2. total \in 0 .. Total /\ order \in [Pfn -> Order] /\ area \in [Order -> Seq(Pfn)] /\ \A o \in Order : IsInjective(area[o])
  <2>1. 0 \in Order /\ 0 \in 0 .. Total
    BY BuddyAssumption DEF Order
  <2>. QED  BY <2>1 DEF NoFrames, IsInjective
<1>3. freePages = Cardinality(bitmap)
  BY FS_EmptySet DEF NoFrames
<1>. QED  BY <1>1, <1>2, <1>3 DEF NoFrames, FramesInv, ListsOK, HeldOK, MarksOK

(* kInitializePhysicalMemory establishes the invariant for the first       *)
(* frames.                                                                 *)
LEMMA TakeOverPreserves ==
  ASSUME FramesInv, bitmap = {}, held = {}, NEW n \in 0 .. Total, NEW free, NEW fixed,
         free \subseteq 0 .. n - 1, fixed \subseteq 0 .. n - 1, free \cap fixed = {},
         TakeOver(n, free, fixed)
  PROVE  FramesInv'
<1>1. /\ total' = n /\ bitmap' = free /\ reserved' = fixed /\ freePages' = Cardinality(free)
      /\ Build(free) /\ held' = {} /\ refused' = refused
  BY DEF TakeOver
<1>2. 0 .. n - 1 \subseteq Pfn
  BY BuddyAssumption DEF Pfn
<1>3. HeldOK(held, free, reserved', order, total')
  BY DEF HeldOK
<1>4. /\ area' \in [Order -> Seq(Pfn)] /\ \A o \in Order : IsInjective(area'[o])
      /\ order' \in [Pfn -> Order]
      /\ ListsOK(Listed', free, buddy', order')
      /\ HeldOK(held, free, reserved', order', total')
      /\ MarksOK(Listed', buddy', order', held)
  <2>1. bitmap \subseteq free /\ free \subseteq Pfn /\ held' = held
    BY <1>1, <1>2
  <2>. QED  BY <1>1, <1>3, <2>1, RebuildPreserves
<1>. QED  BY <1>1, <1>2, <1>4 DEF FramesInv

(* kUnreserveRange gives reserved frames, and no held one, to the lists.   *)
LEMMA UnreservePreserves ==
  ASSUME FramesInv, NEW frames, UnreserveRange(frames)
  PROVE  /\ FramesInv' /\ bitmap \subseteq bitmap' /\ bitmap' \subseteq bitmap \union (frames \cap reserved)
         /\ held' = held /\ refused' = FALSE
         /\ \A b \in held : Span(b) \cap (bitmap' \ bitmap) = {}
<1>. PICK R : R = frames \cap reserved
  OBVIOUS
<1>1. /\ total' = total /\ bitmap' = bitmap \union R /\ reserved' = reserved \ R
      /\ freePages' = freePages + Cardinality(R \ bitmap)
      /\ Build(bitmap \union R) /\ held' = held /\ refused' = FALSE
  BY DEF UnreserveRange
<1>2. R \subseteq Pfn /\ bitmap \subseteq Pfn /\ R \cap bitmap = {}
  BY DEF FramesInv
<1>3. HeldOK(held, bitmap \union R, reserved', order, total')
  BY <1>1 DEF FramesInv, HeldOK
<1>4. /\ area' \in [Order -> Seq(Pfn)] /\ \A o \in Order : IsInjective(area'[o])
      /\ order' \in [Pfn -> Order]
      /\ ListsOK(Listed', bitmap \union R, buddy', order')
      /\ HeldOK(held, bitmap \union R, reserved', order', total')
      /\ MarksOK(Listed', buddy', order', held)
  BY <1>1, <1>2, <1>3, RebuildPreserves
<1>5. Cardinality(bitmap \union R) = freePages + Cardinality(R \ bitmap)
  <2>1. IsFiniteSet(bitmap) /\ IsFiniteSet(R) /\ R \ bitmap = R /\ bitmap \cap R = {}
    BY <1>2, PfnFinite, FS_Subset
  <2>2. Cardinality(bitmap \union R) = Cardinality(bitmap) + Cardinality(R) - Cardinality({})
    BY <2>1, FS_Union
  <2>3. Cardinality(bitmap) \in Nat /\ Cardinality(R) \in Nat /\ Cardinality({}) = 0
    BY <2>1, FS_CardinalityType, FS_EmptySet
  <2>4. freePages = Cardinality(bitmap)
    BY DEF FramesInv
  <2>5. Cardinality(R \ bitmap) = Cardinality(R)
    BY ONLY <2>1
  <2>. PICK x, y : x = Cardinality(bitmap) /\ y = Cardinality(R)
    OBVIOUS
  <2>6. Cardinality(bitmap \union R) = x + y - 0 /\ x \in Nat /\ y \in Nat
    BY ONLY <2>2, <2>3, x = Cardinality(bitmap), y = Cardinality(R)
  <2>. QED  BY <2>4, <2>5, <2>6
<1>6. FramesInv'
  <2>1. bitmap' \subseteq 0 .. total' - 1 /\ bitmap' \subseteq Pfn /\ reserved' \subseteq Pfn
        /\ reserved' \subseteq 0 .. total' - 1 /\ bitmap' \cap reserved' = {}
    BY <1>1, <1>2 DEF FramesInv
  <2>2. total' \in 0 .. Total
    BY <1>1 DEF FramesInv
  <2>. QED  BY <1>1, <1>4, <1>5, <2>1, <2>2 DEF FramesInv
<1>. QED  BY <1>1, <1>6 DEF FramesInv, HeldOK

(* The block kAllocPages splits.                                           *)
Source(o) == CHOOSE k \in Sources(o) : \A j \in Sources(o) : k <= j

(* kAllocPages takes the smallest listed order that is large enough, if    *)
(* there is one.                                                           *)
LEMMA SourceFacts ==
  ASSUME FramesInv, NEW o \in Order
  PROVE  /\ Sources(o) \subseteq Order /\ Sources(o) \subseteq Nat
         /\ \A b \in Listed : o <= b[2] => b[2] \in Sources(o)
         /\ Sources(o) # {} =>
              /\ Source(o) \in Sources(o) /\ <<Head(area[Source(o)]), Source(o)>> \in Listed
              /\ \A j \in Sources(o) : Source(o) <= j
<1>1. Sources(o) \subseteq Order /\ Sources(o) \subseteq Nat
  BY DEF Sources, Order
<1>2. ASSUME NEW b \in Listed, o <= b[2] PROVE b[2] \in Sources(o)
  <2>1. b \in Block /\ b[2] \in Order /\ b[1] \in ToSet(area[b[2]]) /\ b[2] \in Nat
    BY ListedFacts, BlockFacts DEF FramesInv
  <2>2. area[b[2]] # <<>>
    BY <2>1 DEF ToSet
  <2>3. b[2] >= o
    BY <1>2, <2>1 DEF Order
  <2>. QED  BY <2>1, <2>2, <2>3 DEF Sources
<1>3. ASSUME Sources(o) # {},
             NEW from, from = Source(o)
      PROVE  /\ from \in Sources(o) /\ <<Head(area[from]), from>> \in Listed
             /\ \A j \in Sources(o) : from <= j
  <2>1. \E k \in Sources(o) : \A j \in Sources(o) : k <= j
    BY <1>1, <1>3, LeastMember
  <2>2. from \in Sources(o) /\ \A j \in Sources(o) : from <= j
    BY <1>3, <2>1, Zenon DEF Source
  <2>3. from \in Order /\ area[from] \in Seq(Pfn) /\ area[from] # <<>>
    BY <2>2 DEF Sources, FramesInv
  <2>4. Head(area[from]) \in Pfn /\ Head(area[from]) \in ToSet(area[from])
    BY <2>3, TailFacts
  <2>. PICK b : b = <<Head(area[from]), from>>
    OBVIOUS
  <2>5. b \in Block /\ b[1] = Head(area[from]) /\ b[2] = from
    BY <2>3, <2>4 DEF Block
  <2>6. b \in Listed
    BY <2>4, <2>5, ListedFacts DEF FramesInv
  <2>. QED  BY <2>2, <2>6
<1>. QED  BY <1>1, <1>2, <1>3

(* Taking a run away or giving it back changes the count by 2^order.       *)
LEMMA RunCount ==
  ASSUME NEW p \in Nat, NEW o \in 0 .. MaxOrder, NEW free, free \subseteq Pfn
  PROVE  /\ Run(p, o) \subseteq free => Cardinality(free \ Run(p, o)) = Cardinality(free) - 2^o
         /\ Run(p, o) \cap free = {} => Cardinality(free \union Run(p, o)) = Cardinality(free) + 2^o
         /\ Cardinality(free) \in Nat
<1>1. IsFiniteSet(free) /\ IsFiniteSet(Run(p, o)) /\ Cardinality(Run(p, o)) = 2^o
  BY PfnFinite, FS_Subset, RunFacts
<1>2. Cardinality(free) \in Nat /\ 2^o \in Nat
  BY <1>1, FS_CardinalityType, PowerFacts
<1>3. ASSUME Run(p, o) \subseteq free PROVE Cardinality(free \ Run(p, o)) = Cardinality(free) - 2^o
  <2>1. Cardinality(free \ Run(p, o)) = Cardinality(free) - Cardinality(free \cap Run(p, o))
    BY <1>1, FS_Difference
  <2>2. free \cap Run(p, o) = Run(p, o)
    BY <1>3
  <2>. QED  BY <1>1, <2>1, <2>2
<1>4. ASSUME Run(p, o) \cap free = {} PROVE Cardinality(free \union Run(p, o)) = Cardinality(free) + 2^o
  <2>1. Cardinality(free \union Run(p, o)) = Cardinality(free) + Cardinality(Run(p, o)) - Cardinality(free \cap Run(p, o))
    BY <1>1, FS_Union
  <2>2. free \cap Run(p, o) = {} /\ Cardinality({}) = 0
    BY <1>4, FS_EmptySet
  <2>. PICK x, y : x = Cardinality(free) /\ y = 2^o
    OBVIOUS
  <2>3. Cardinality(free \union Run(p, o)) = x + y - 0
    BY <1>1, <2>1, <2>2
  <2>. QED  BY <1>2, <2>3
<1>. QED  BY <1>2, <1>3, <1>4

(* kAllocPages hands out an aligned free run that no caller holds.         *)
LEMMA AllocPreserves ==
  ASSUME FramesInv, NEW o \in Order, AllocPages(o)
  PROVE  /\ FramesInv'
         /\ total' = total /\ reserved' = reserved /\ refused' = FALSE
         /\ \E p \in Pfn :
              /\ p % 2^o = 0 /\ Run(p, o) \subseteq bitmap /\ bitmap' = bitmap \ Run(p, o)
              /\ <<p, o>> \in Block /\ <<p, o>> \notin held /\ held' = held \union {<<p, o>>}
              /\ freePages' = freePages - 2^o
<1>. PICK from : from = Source(o)
  OBVIOUS
<1>. PICK p, b, L : p = Head(area[from]) /\ b = <<p, from>> /\ L = Listed
  OBVIOUS
<1>. PICK H : H = Halves(o, from)
  OBVIOUS
<1>1. /\ area' = [k \in Order |-> IF k = from THEN Tail(area[k])
                                  ELSE IF k \in H THEN <<p + 2^k>> \o area[k]
                                  ELSE area[k]]
      /\ buddy' = SplitMarks(buddy, b, o)
      /\ order' = SplitOrders(order, b, o)
      /\ bitmap' = bitmap \ Run(p, o)
      /\ held' = held \union {<<p, o>>}
      /\ freePages' = freePages - 2^o
      /\ refused' = FALSE /\ total' = total /\ reserved' = reserved
      /\ Sources(o) # {}
  BY DEF AllocPages, Source, Halves, Uppers, SplitMarks, SplitOrders
<1>2. /\ \A j \in Sources(o) : from <= j
      /\ from \in Sources(o) /\ b \in L /\ b[1] = p /\ b[2] = from
      /\ from \in Order /\ from \in Nat /\ o <= from /\ area[from] \in Seq(Pfn) /\ area[from] # <<>>
      /\ L \subseteq Block /\ b \in Block /\ p \in Pfn /\ p \in Nat
  <2>1. /\ from \in Sources(o) /\ b \in L
        /\ \A j \in Sources(o) : from <= j
    BY <1>1, SourceFacts
  <2>2. from \in Order /\ from \in Nat /\ o <= from /\ area[from] \in Seq(Pfn) /\ area[from] # <<>>
    BY <2>1 DEF Sources, FramesInv, Order
  <2>3. L \subseteq Block
    BY ListedFacts DEF FramesInv
  <2>4. b \in Block /\ p \in Pfn /\ p \in Nat
    BY <2>1, <2>3, BlockFacts
  <2>. QED  BY <2>1, <2>2, <2>3, <2>4
<1>3. /\ ListsOK(SplitBlocks(L, b, o), bitmap \ Run(b[1], o), SplitMarks(buddy, b, o), SplitOrders(order, b, o))
      /\ HeldOK(held \union {<<b[1], o>>}, bitmap \ Run(b[1], o), reserved, SplitOrders(order, b, o), total)
      /\ MarksOK(SplitBlocks(L, b, o), SplitMarks(buddy, b, o), SplitOrders(order, b, o),
                 held \union {<<b[1], o>>})
      /\ SplitOrders(order, b, o) \in [Pfn -> Order]
      /\ Run(b[1], o) \subseteq bitmap /\ b[1] % 2^o = 0 /\ <<b[1], o>> \in Block
  <2>. PICK free, marked, ord, taken, fixed, count :
         /\ free = bitmap /\ marked = buddy /\ ord = order /\ taken = held /\ fixed = reserved /\ count = total
    OBVIOUS
  <2>1. \A c \in L : ~(o <= c[2] /\ c[2] < b[2])
    <3>. TAKE c \in L
    <3>1. c[2] \in Nat /\ (o <= c[2] => c[2] \in Sources(o))
      BY <1>2, BlockFacts, SourceFacts
    <3>2. c[2] \in Sources(o) => from <= c[2]
      BY <1>2
    <3>. QED  BY <1>2, <3>1, <3>2
  <2>2. /\ ListsOK(L, free, marked, ord) /\ HeldOK(taken, free, fixed, ord, count)
        /\ MarksOK(L, marked, ord, taken) /\ ord \in [Pfn -> Order]
        /\ free \subseteq Pfn /\ free \subseteq 0 .. count - 1 /\ free \cap fixed = {}
    BY DEF FramesInv
  <2>3. b \in L /\ o \in Order /\ o <= b[2]
    BY <1>2
  <2>4. Splittable(L, free, marked, ord, taken, fixed, count, b, o)
    BY ONLY <2>1, <2>2, <2>3 DEF Splittable
  <2>5. SplitDone(L, free, marked, ord, taken, fixed, count, b, o)
    BY ONLY <2>4, SplitLists
  <2>. QED  BY <2>5 DEF SplitDone
<1>4. ASSUME NEW k \in Order
      PROVE  /\ area'[k] \in Seq(Pfn) /\ IsInjective(area'[k])
             /\ ToSet(area'[k]) = IF k = from THEN ToSet(area[k]) \ {p}
                                  ELSE IF k \in H THEN {p + 2^k} ELSE ToSet(area[k])
  <2>1. area[k] \in Seq(Pfn) /\ IsInjective(area[k])
    BY DEF FramesInv
  <2>2. CASE k = from
    <3>1. area'[k] = Tail(area[k]) /\ p = Head(area[k])
      BY <1>1, <2>2
    <3>2. /\ Tail(area[k]) \in Seq(Pfn)
          /\ ToSet(area[k]) = ToSet(Tail(area[k])) \union {p}
          /\ IsInjective(Tail(area[k])) /\ p \notin ToSet(Tail(area[k]))
      BY <1>2, <2>1, <2>2, TailFacts
    <3>3. ToSet(Tail(area[k])) = ToSet(area[k]) \ {p}
      BY <3>2
    <3>. QED  BY <2>2, <3>1, <3>2, <3>3
  <2>3. CASE k # from /\ k \in H
    <3>1. area'[k] = <<p + 2^k>> \o area[k]
      BY <1>1, <2>3
    <3>2. k \in Nat /\ o <= k /\ k < from
      BY <2>3 DEF Halves, Order
    <3>3. area[k] = <<>>
      <4>0. k \in Sources(o) => from <= k
        BY <1>2
      <4>1. k \notin Sources(o)
        BY ONLY <1>2, <3>2, <4>0
      <4>. QED  BY <2>1, <3>2, <4>1 DEF Sources, Order
    <3>4. p + 2^k \in Pfn
      <4>1. <<b[1] + 2^k, k>> \in SplitBlocks(L, b, o)
        BY <1>2, <2>3 DEF SplitBlocks
      <4>2. <<p + 2^k, k>> \in Block
        BY <1>2, <1>3, <4>1 DEF ListsOK
      <4>. PICK x : x = p + 2^k
        OBVIOUS
      <4>3. <<x, k>> \in Pfn \X Order
        BY <4>2 DEF Block
      <4>. QED  BY ONLY <4>3, x = p + 2^k
    <3>5. ToSet(area[k]) = {}
      BY <3>3 DEF ToSet
    <3>6. /\ <<p + 2^k>> \o area[k] \in Seq(Pfn)
          /\ ToSet(<<p + 2^k>> \o area[k]) = ToSet(area[k]) \union {p + 2^k}
          /\ IsInjective(area[k]) /\ p + 2^k \notin ToSet(area[k]) => IsInjective(<<p + 2^k>> \o area[k])
      <4>. PICK e, s : e = p + 2^k /\ s = area[k]
        OBVIOUS
      <4>1. e \in Pfn /\ s \in Seq(Pfn)
        BY <2>1, <3>4
      <4>2. /\ <<e>> \o s \in Seq(Pfn)
            /\ ToSet(<<e>> \o s) = ToSet(s) \union {e}
            /\ IsInjective(s) /\ e \notin ToSet(s) => IsInjective(<<e>> \o s)
        BY ONLY <4>1, PrependFacts
      <4>. QED  BY <4>2
    <3>. QED  BY <2>1, <2>3, <3>1, <3>5, <3>6
  <2>4. CASE k # from /\ k \notin H
    BY <1>1, <2>1, <2>4
  <2>. QED  BY <2>2, <2>3, <2>4
<1>5. area' \in [Order -> Seq(Pfn)]
  <2>1. area' = [k \in Order |-> area'[k]]
    BY <1>1
  <2>. QED  BY <1>4, <2>1
<1>6. Listed' = SplitBlocks(L, b, o)
  <2>1. ASSUME NEW c \in Block PROVE c \in Listed' <=> c \in SplitBlocks(L, b, o)
    <3>1. c[1] \in Pfn /\ c[2] \in Order /\ c = <<c[1], c[2]>> /\ c[2] \in Nat
      BY BlockFacts
    <3>2. c \in Listed' <=> c[1] \in ToSet(area'[c[2]])
      BY <1>5, ListedFactsPrimed
    <3>3. c \in L <=> c[1] \in ToSet(area[c[2]])
      BY ListedFacts DEF FramesInv
    <3>4. c \in SplitBlocks(L, b, o) <=> (c \in L /\ c # b) \/ (c[2] \in H /\ c[1] = p + 2^c[2])
      <4>1. c \in SplitBlocks(L, b, o) <=> (c \in L /\ c # b) \/ \E k \in H : c = <<p + 2^k, k>>
        BY <1>2 DEF SplitBlocks
      <4>2. ASSUME NEW k \in H, c = <<p + 2^k, k>> PROVE c[2] \in H /\ c[1] = p + 2^c[2]
        BY <4>2
      <4>3. ASSUME c[2] \in H, c[1] = p + 2^c[2] PROVE \E k \in H : c = <<p + 2^k, k>>
        <5>. PICK k : k = c[2]
          OBVIOUS
        <5>1. c = <<p + 2^k, k>>
          BY ONLY <3>1, <4>3, k = c[2]
        <5>. QED  BY <4>3, <5>1
      <4>. QED  BY <4>1, <4>2, <4>3
    <3>5. from \notin H
      BY <1>2 DEF Halves
    <3>6. c = b <=> c[1] = p /\ c[2] = from
      BY <1>2, <3>1
    <3>7. ASSUME c[2] \in H PROVE c \notin L
      <4>1. o <= c[2] /\ c[2] < from
        BY <3>7 DEF Halves
      <4>2. c[2] \in Sources(o) => from <= c[2]
        BY <1>2
      <4>3. c[2] \notin Sources(o)
        BY <1>2, <3>1, <4>1, <4>2
      <4>. QED  BY <4>1, <4>3, SourceFacts
    <3>. QED  BY <1>4, <3>1, <3>2, <3>3, <3>4, <3>5, <3>6, <3>7
  <2>2. Listed' \subseteq Block /\ SplitBlocks(L, b, o) \subseteq Block
    BY <1>3, <1>5, ListedFactsPrimed DEF ListsOK
  <2>. QED  BY <2>1, <2>2
<1>7. freePages' = Cardinality(bitmap')
  <2>1. o \in 0 .. MaxOrder
    BY BuddyAssumption DEF Order
  <2>2. Run(p, o) \subseteq bitmap /\ bitmap \subseteq Pfn
    BY <1>2, <1>3 DEF FramesInv
  <2>3. Cardinality(bitmap \ Run(p, o)) = Cardinality(bitmap) - 2^o
    BY <1>2, <2>1, <2>2, RunCount
  <2>. QED  BY <1>1, <2>3 DEF FramesInv
<1>8. FramesInv'
  <2>1. bitmap' \subseteq bitmap
    BY <1>1
  <2>2. /\ total' \in 0 .. Total /\ bitmap' \subseteq Pfn /\ bitmap' \subseteq 0 .. total' - 1
        /\ reserved' \subseteq Pfn /\ reserved' \subseteq 0 .. total' - 1 /\ bitmap' \cap reserved' = {}
        /\ refused' \in BOOLEAN
    BY <1>1, <2>1 DEF FramesInv
  <2>3. /\ order' \in [Pfn -> Order] /\ ListsOK(Listed', bitmap', buddy', order')
        /\ HeldOK(held', bitmap', reserved', order', total') /\ MarksOK(Listed', buddy', order', held')
    BY <1>1, <1>2, <1>3, <1>6
  <2>. QED  BY <1>4, <1>5, <1>7, <2>2, <2>3 DEF FramesInv
<1>9. <<p, o>> \notin held
  <2>1. <<p, o>> \in Block /\ <<p, o>>[1] = p
    BY <1>2, <1>3
  <2>2. p \in Span(<<p, o>>) /\ p \in bitmap
    <3>0. o \in 0 .. MaxOrder
      BY BuddyAssumption DEF Order
    <3>1. p \in Run(p, o)
      BY <1>2, <3>0, RunFacts
    <3>. QED  BY <1>2, <1>3, <3>1 DEF Span
  <2>. QED  BY <2>1, <2>2 DEF FramesInv, HeldOK
<1>. QED  BY <1>1, <1>2, <1>3, <1>8, <1>9

(* kAllocPages fails only when no aligned run of that order is free.       *)
LEMMA RefusalPreserves ==
  ASSUME FramesInv, NEW o \in Order, AllocFails(o)
  PROVE  /\ FramesInv' /\ bitmap' = bitmap /\ held' = held /\ refused' = TRUE
         /\ \A p \in Pfn : ~(p % 2^o = 0 /\ Run(p, o) \subseteq bitmap)
<1>1. Listed' = Listed
  BY DEF AllocFails, Listed
<1>2. FramesInv'
  BY <1>1 DEF AllocFails, FramesInv
<1>3. ASSUME NEW p \in Pfn, p % 2^o = 0, Run(p, o) \subseteq bitmap PROVE FALSE
  <2>. PICK L, free, marked, ord : L = Listed /\ free = bitmap /\ marked = buddy /\ ord = order
    OBVIOUS
  <2>1. ListsOK(L, free, marked, ord) /\ Run(p, o) \subseteq free
    BY <1>3 DEF FramesInv
  <2>2. \A b \in L : ~(o <= b[2])
    BY SourceFacts DEF AllocFails
  <2>3. p \in Nat
    BY PfnFinite
  <2>. QED  BY <1>3, <2>1, <2>2, <2>3, NothingLeft
<1>. QED  BY <1>2, <1>3 DEF AllocFails

(* Merging stops at the first order whose buddy cannot be taken. *)
LEMMA StopsFacts ==
  ASSUME NEW p, NEW o \in Order
  PROVE  /\ Stops(p, o) \in Order /\ o <= Stops(p, o)
         /\ Stops(p, o) = MaxOrder - 1 \/ ~MergesWith(p, Stops(p, o))
         /\ \A j \in o .. Stops(p, o) - 1 : MergesWith(p, j)
<1>1. MaxOrder \in Nat \ {0} /\ o \in Nat /\ o <= MaxOrder - 1 /\ Order = 0 .. MaxOrder - 1
  BY BuddyAssumption DEF Order
<1>. DEFINE T == {k \in o .. MaxOrder - 1 : k = MaxOrder - 1 \/ ~MergesWith(p, k)}
<1>2. T \subseteq Nat /\ T # {}
  BY <1>1
<1>3. PICK n \in T : \A y \in T : n <= y
  BY <1>2, LeastMember
<1>4. n \in o .. MaxOrder - 1 /\ n \in Nat /\ (n = MaxOrder - 1 \/ ~MergesWith(p, n))
  BY <1>1, <1>3
<1>5. ASSUME NEW j \in o .. n - 1 PROVE MergesWith(p, j)
  <2>1. j \in o .. MaxOrder - 1 /\ ~(n <= j)
    BY <1>1, <1>4
  <2>2. j \in T => n <= j
    BY <1>3
  <2>. QED  BY <2>1, <2>2
<1>6. \E k \in o .. MaxOrder - 1 :
        /\ k = MaxOrder - 1 \/ ~MergesWith(p, k)
        /\ \A j \in o .. k - 1 : MergesWith(p, j)
  BY <1>4, <1>5
<1>7. /\ Stops(p, o) \in o .. MaxOrder - 1
      /\ Stops(p, o) = MaxOrder - 1 \/ ~MergesWith(p, Stops(p, o))
      /\ \A j \in o .. Stops(p, o) - 1 : MergesWith(p, j)
  BY <1>6, Zenon DEF Stops
<1>. QED  BY <1>1, <1>7

(* kFreePages takes back only what a caller holds.                         *)
LEMMA FreedIsHeld ==
  ASSUME FramesInv, NEW kept, NEW b \in Passed(kept), ~Refuses(b[1], b[2])
  PROVE  b \in held /\ b \notin kept
<1>1. Run(b[1], b[2]) \cap (reserved \union bitmap) = {}
  BY DEF Refuses
<1>2. ASSUME b \in Pfn \X Order, Run(b[1], b[2]) \subseteq bitmap PROVE FALSE
  <2>1. b[1] \in Span(b)
    BY <1>2, BlockFacts DEF Block
  <2>. QED  BY <1>1, <1>2, <2>1 DEF Span
<1>3. ASSUME NEW p \in reserved, b = <<p, 0>> PROVE FALSE
  <2>1. p \in Nat /\ 0 \in 0 .. MaxOrder /\ b[1] = p /\ b[2] = 0
    BY <1>3, PfnFinite, BuddyAssumption DEF FramesInv
  <2>2. p \in Run(p, 0)
    BY <2>1, RunFacts
  <2>. QED  BY <1>1, <1>3, <2>1, <2>2
<1>4. b \in held \ kept \/ b \in {c \in Pfn \X Order : Run(c[1], c[2]) \subseteq bitmap}
      \/ b \in {<<p, 0>> : p \in reserved}
  BY DEF Passed
<1>. QED  BY <1>2, <1>3, <1>4

(* kFreePages takes a held block back, all of it and nothing else.         *)
LEMMA FreePreserves ==
  ASSUME FramesInv, NEW h \in held, FreePages(h[1], h[2])
  PROVE  /\ FramesInv'
         /\ total' = total /\ reserved' = reserved /\ refused' = FALSE
         /\ bitmap' = bitmap \union Span(h) /\ held' = held \ {h}
         /\ freePages' = freePages + 2^h[2] /\ h \in Block
<1>. PICK n, L, p, o : n = Stops(h[1], h[2]) /\ L = Listed /\ p = h[1] /\ o = h[2]
  OBVIOUS
<1>. PICK head : head = AlignDown(p, n)
  OBVIOUS
<1>0. /\ h \in Block /\ p \in Nat /\ o \in Order /\ o \in 0 .. MaxOrder /\ o \in Nat /\ h = <<p, o>>
      /\ Span(h) = Run(p, o)
  <2>1. h \in Block
    BY DEF FramesInv, HeldOK
  <2>. QED  BY <2>1, BlockFacts DEF Span
<1>1. /\ area' = [k \in Order |->
                   IF k = n THEN <<head>> \o area[k]
                   ELSE IF o <= k /\ k < n THEN RemoveFirst(area[k], Partner(p, k))
                   ELSE area[k]]
      /\ buddy' = MergedMarks(buddy, h, n)
      /\ order' = MergedOrders(order, h, n)
      /\ bitmap' = bitmap \union Span(h)
      /\ held' = held \ {h}
      /\ freePages' = freePages + 2^o
      /\ refused' = FALSE /\ total' = total /\ reserved' = reserved
  BY <1>0 DEF FreePages, MergedMarks, MergedOrders, Partner, Span
<1>2. /\ n \in Order /\ o <= n /\ n \in Nat
      /\ n = MaxOrder - 1 \/ ~Joins(buddy, order, reserved, total, p, n)
      /\ \A k \in o .. n - 1 : Joins(buddy, order, reserved, total, p, k)
  <2>1. \A k : MergesWith(p, k) <=> Joins(buddy, order, reserved, total, p, k)
    BY DEF MergesWith, Joins, Partner
  <2>2. /\ n \in Order /\ o <= n
        /\ n = MaxOrder - 1 \/ ~MergesWith(p, n)
        /\ \A j \in o .. n - 1 : MergesWith(p, j)
    BY <1>0, StopsFacts
  <2>3. n \in Nat
    BY <2>2 DEF Order
  <2>. QED  BY <2>1, <2>2, <2>3
<1>3. MergeDone(L, bitmap, buddy, order, held, reserved, total, h, n)
  <2>. PICK free, marked, ord, taken, fixed, count :
         /\ free = bitmap /\ marked = buddy /\ ord = order /\ taken = held /\ fixed = reserved /\ count = total
    OBVIOUS
  <2>1. /\ ListsOK(L, free, marked, ord) /\ HeldOK(taken, free, fixed, ord, count)
        /\ MarksOK(L, marked, ord, taken) /\ ord \in [Pfn -> Order] /\ count \in 0 .. Total
        /\ free \subseteq Pfn /\ free \subseteq 0 .. count - 1 /\ free \cap fixed = {}
    BY DEF FramesInv
  <2>2. /\ h \in taken /\ n \in Order /\ h[2] <= n
        /\ n = MaxOrder - 1 \/ ~Joins(marked, ord, fixed, count, h[1], n)
        /\ \A k \in h[2] .. n - 1 : Joins(marked, ord, fixed, count, h[1], k)
    BY <1>0, <1>2
  <2>3. Mergeable(L, free, marked, ord, taken, fixed, count, h, n)
    BY ONLY <2>1, <2>2 DEF Mergeable
  <2>4. MergeDone(L, free, marked, ord, taken, fixed, count, h, n)
    BY ONLY <2>3, MergeLists
  <2>. QED  BY <2>4
<1>4. /\ ListsOK(MergedBlocks(L, h, n), bitmap \union Span(h), MergedMarks(buddy, h, n), MergedOrders(order, h, n))
      /\ HeldOK(held \ {h}, bitmap \union Span(h), reserved, MergedOrders(order, h, n), total)
      /\ MarksOK(MergedBlocks(L, h, n), MergedMarks(buddy, h, n), MergedOrders(order, h, n), held \ {h})
      /\ MergedOrders(order, h, n) \in [Pfn -> Order]
      /\ Gone(h, n) \subseteq L /\ <<head, n>> \notin L /\ head \in Pfn
      /\ Span(h) \subseteq Pfn /\ Span(h) \subseteq 0 .. total - 1 /\ Span(h) \cap (bitmap \union reserved) = {}
  BY <1>3 DEF MergeDone
<1>5. /\ L \subseteq Block
      /\ \A b \in Block : b \in L <=> b[1] \in ToSet(area[b[2]])
  BY ListedFacts DEF FramesInv
<1>6. head \notin ToSet(area[n])
  <2>. PICK b : b = <<head, n>>
    OBVIOUS
  <2>1. b \in Block /\ b[1] = head /\ b[2] = n /\ b \notin L
    BY <1>2, <1>4 DEF Block
  <2>. QED  BY <1>5, <2>1
<1>7. ASSUME NEW k \in Order
      PROVE  /\ area'[k] \in Seq(Pfn) /\ IsInjective(area'[k])
             /\ ToSet(area'[k]) = IF k = n THEN ToSet(area[k]) \union {head}
                                  ELSE IF o <= k /\ k < n THEN ToSet(area[k]) \ {Partner(p, k)}
                                  ELSE ToSet(area[k])
  <2>1. area[k] \in Seq(Pfn) /\ IsInjective(area[k])
    BY DEF FramesInv
  <2>. PICK s : s = area[k]
    OBVIOUS
  <2>2. CASE k = n
    <3>1. head \in Pfn /\ s \in Seq(Pfn) /\ IsInjective(s) /\ head \notin ToSet(s)
      BY <1>4, <1>6, <2>1, <2>2
    <3>2. <<head>> \o s \in Seq(Pfn) /\ IsInjective(<<head>> \o s)
          /\ ToSet(<<head>> \o s) = ToSet(s) \union {head}
      BY ONLY <3>1, PrependFacts
    <3>3. area'[k] = <<head>> \o s
      BY <1>1, <2>2
    <3>. QED  BY <2>2, <3>2, <3>3
  <2>3. CASE k # n /\ o <= k /\ k < n
    <3>. PICK e : e = Partner(p, k)
      OBVIOUS
    <3>1. s \in Seq(Pfn) /\ IsInjective(s)
      BY <2>1
    <3>2. RemoveFirst(s, e) \in Seq(Pfn) /\ IsInjective(RemoveFirst(s, e))
          /\ ToSet(RemoveFirst(s, e)) = ToSet(s) \ {e}
      BY ONLY <3>1, RemoveFirstFacts
    <3>3. area'[k] = RemoveFirst(s, e)
      BY <1>1, <2>3
    <3>. QED  BY <2>3, <3>2, <3>3
  <2>4. CASE k # n /\ ~(o <= k /\ k < n)
    BY <1>1, <2>1, <2>4
  <2>. QED  BY <2>2, <2>3, <2>4
<1>8. area' \in [Order -> Seq(Pfn)]
  <2>1. area' = [k \in Order |-> area'[k]]
    BY <1>1
  <2>. QED  BY <1>7, <2>1
<1>9. Listed' = MergedBlocks(L, h, n)
  <2>1. ASSUME NEW c \in Block PROVE c \in Listed' <=> c \in MergedBlocks(L, h, n)
    <3>1. c[1] \in Pfn /\ c[2] \in Order /\ c = <<c[1], c[2]>> /\ c[2] \in Nat
      BY BlockFacts
    <3>2. c \in Listed' <=> c[1] \in ToSet(area'[c[2]])
      BY <1>8, ListedFactsPrimed
    <3>3. c \in L <=> c[1] \in ToSet(area[c[2]])
      BY <1>5
    <3>4. c \in Gone(h, n) <=> o <= c[2] /\ c[2] < n /\ c[1] = Partner(p, c[2])
      <4>1. ASSUME NEW k \in o .. n - 1, c = <<Partner(p, k), k>>
            PROVE o <= c[2] /\ c[2] < n /\ c[1] = Partner(p, c[2])
        <5>1. c[2] = k /\ c[1] = Partner(p, k)
          BY <4>1
        <5>. QED  BY <1>0, <1>2, <5>1
      <4>2. ASSUME o <= c[2], c[2] < n, c[1] = Partner(p, c[2]) PROVE \E k \in o .. n - 1 : c = <<Partner(p, k), k>>
        <5>. PICK k : k = c[2]
          OBVIOUS
        <5>1. k \in o .. n - 1
          BY <1>0, <1>2, <3>1, <4>2
        <5>2. c = <<Partner(p, k), k>>
          BY ONLY <3>1, <4>2, k = c[2]
        <5>. QED  BY <5>1, <5>2
      <4>3. Gone(h, n) = {<<Partner(p, k), k>> : k \in o .. n - 1}
        BY DEF Gone
      <4>. QED  BY <4>1, <4>2, <4>3
    <3>5. c = <<head, n>> <=> c[1] = head /\ c[2] = n
      BY ONLY <3>1
    <3>6. c \in MergedBlocks(L, h, n) <=> (c \in L /\ c \notin Gone(h, n)) \/ c = <<head, n>>
      BY DEF MergedBlocks
    <3>7. /\ c[2] = n => (c[1] \in ToSet(area'[c[2]]) <=> c[1] \in ToSet(area[c[2]]) \/ c[1] = head)
          /\ c[2] # n /\ o <= c[2] /\ c[2] < n =>
               (c[1] \in ToSet(area'[c[2]]) <=> c[1] \in ToSet(area[c[2]]) /\ c[1] # Partner(p, c[2]))
          /\ c[2] # n /\ ~(o <= c[2] /\ c[2] < n) => (c[1] \in ToSet(area'[c[2]]) <=> c[1] \in ToSet(area[c[2]]))
      BY <1>7, <3>1
    <3>8. c[2] = n => ~(c[2] < n)
      BY <1>2
    <3>. QED  BY ONLY <3>2, <3>3, <3>4, <3>5, <3>6, <3>7, <3>8
  <2>2. Listed' \subseteq Block /\ MergedBlocks(L, h, n) \subseteq Block
    BY <1>4, <1>8, ListedFactsPrimed DEF ListsOK
  <2>. QED  BY <2>1, <2>2
<1>10. freePages' = Cardinality(bitmap')
  <2>1. bitmap \subseteq Pfn /\ Run(p, o) \cap bitmap = {}
    BY <1>0, <1>4 DEF FramesInv
  <2>2. Cardinality(bitmap \union Run(p, o)) = Cardinality(bitmap) + 2^o
    BY <1>0, <2>1, RunCount
  <2>. QED  BY <1>0, <1>1, <2>2 DEF FramesInv
<1>11. FramesInv'
  <2>1. /\ total' \in 0 .. Total /\ bitmap' \subseteq Pfn /\ bitmap' \subseteq 0 .. total' - 1
        /\ reserved' \subseteq Pfn /\ reserved' \subseteq 0 .. total' - 1 /\ bitmap' \cap reserved' = {}
        /\ refused' \in BOOLEAN
    BY <1>1, <1>4 DEF FramesInv
  <2>2. /\ order' \in [Pfn -> Order] /\ ListsOK(Listed', bitmap', buddy', order')
        /\ HeldOK(held', bitmap', reserved', order', total') /\ MarksOK(Listed', buddy', order', held')
    BY <1>1, <1>4, <1>9
  <2>. QED  BY <1>7, <1>8, <1>10, <2>1, <2>2 DEF FramesInv
<1>. QED  BY <1>0, <1>1, <1>11

(* The invariant is about the frames, not about how the last call ended.   *)
LEMMA StutterPreserves ==
  ASSUME FramesInv, UNCHANGED <<total, bitmap, reserved, buddy, order, area, freePages, held>>, refused' \in BOOLEAN
  PROVE  FramesInv'
<1>1. Listed' = Listed
  BY DEF Listed
<1>. QED  BY <1>1 DEF FramesInv
-----------------------------------------------------------------------------
(* Products grow with a factor.                                            *)
LEMMA ProductOrder ==
  ASSUME NEW n \in Nat, NEW i \in Nat, NEW j \in Nat, i <= j
  PROVE  i * n <= j * n
<1>. PICK d \in Nat : j = i + d
  OBVIOUS
<1>1. (i + d) * n = i * n + d * n /\ d * n \in Nat /\ i * n \in Nat
  OBVIOUS
<1>. QED  BY <1>1

(* Frame numbers times the page size.                                      *)
LEMMA PageProduct ==
  ASSUME NEW i \in Nat
  PROVE  i * PageSize \in Nat /\ (i + 1) * PageSize = i * PageSize + PageSize /\ PageSize \in Nat \ {0}
BY BootAssumption

(* Whole pages below an address, and pages an address reaches into.        *)
LEMMA DownFacts ==
  ASSUME NEW x \in Nat
  PROVE  /\ Down(x) \in Nat /\ Down(x) * PageSize <= x
         /\ \A f \in Nat : f < Down(x) <=> (f + 1) * PageSize <= x
<1>1. PageSize \in Nat \ {0}
  BY BootAssumption
<1>. PICK q, r : q = x \div PageSize /\ r = x % PageSize
  OBVIOUS
<1>2. q \in Nat /\ r \in 0 .. PageSize - 1 /\ x = PageSize * q + r /\ Down(x) = q
  BY <1>1, DivModFacts DEF Down
<1>. PICK P \in Nat \ {0} : P = PageSize
  BY <1>1
<1>3. x = q * P + r /\ r \in 0 .. P - 1 /\ q * P \in Nat
  BY <1>2
<1>4. ASSUME NEW f \in Nat, f < q PROVE (f + 1) * P <= x
  <2>1. (f + 1) * P <= q * P
    BY <1>2, <1>4, ProductOrder
  <2>. QED  BY <1>3, <2>1
<1>5. ASSUME NEW f \in Nat, ~(f < q) PROVE ~((f + 1) * P <= x)
  <2>1. q * P <= f * P
    BY <1>2, <1>5, ProductOrder
  <2>2. (f + 1) * P = f * P + P /\ f * P \in Nat
    OBVIOUS
  <2>. QED  BY <1>3, <2>1, <2>2
<1>. QED  BY <1>2, <1>3, <1>4, <1>5

(* PFN_UP is the first frame at or above an address.                       *)
LEMMA UpFacts ==
  ASSUME NEW x \in Nat
  PROVE  /\ Up(x) \in Nat /\ x <= Up(x) * PageSize
         /\ \A f \in Nat : Up(x) <= f <=> x <= f * PageSize
<1>1. PageSize \in Nat \ {0} /\ x + PageSize - 1 \in Nat
  BY BootAssumption
<1>. PICK y \in Nat : y = x + PageSize - 1
  BY <1>1
<1>2. Up(x) = Down(y)
  BY DEF Up, Down
<1>3. Down(y) \in Nat /\ \A f \in Nat : f < Down(y) <=> (f + 1) * PageSize <= y
  BY DownFacts
<1>4. ASSUME NEW f \in Nat PROVE Up(x) <= f <=> x <= f * PageSize
  <2>1. f < Down(y) <=> (f + 1) * PageSize <= y
    BY <1>3
  <2>2. (f + 1) * PageSize = f * PageSize + PageSize /\ f * PageSize \in Nat
    BY PageProduct
  <2>. QED  BY <1>1, <1>2, <1>3, <2>1, <2>2
<1>. QED  BY <1>2, <1>3, <1>4

(* Rounding keeps the order, and does nothing to whole pages.              *)
LEMMA RoundingOrder ==
  ASSUME NEW x \in Nat, NEW y \in Nat, x <= y
  PROVE  Down(x) <= Down(y) /\ Up(x) <= Up(y) /\ Down(x) <= Up(y)
<1>1. /\ Down(x) \in Nat /\ Down(x) * PageSize <= x
      /\ Up(y) \in Nat /\ y <= Up(y) * PageSize /\ Up(x) \in Nat /\ Down(y) \in Nat
  BY DownFacts, UpFacts
<1>2. Up(x) <= Up(y)
  <2>. PICK u \in Nat : u = Up(y)
    BY <1>1
  <2>1. x <= u * PageSize
    BY <1>1, PageProduct
  <2>. QED  BY <2>1, UpFacts
<1>3. Down(x) <= Down(y)
  <2>1. CASE Down(x) = 0
    BY <1>1, <2>1
  <2>2. CASE Down(x) # 0
    <3>. PICK f \in Nat : Down(x) = f + 1
      <4>1. Down(x) - 1 \in Nat /\ Down(x) = (Down(x) - 1) + 1
        BY <1>1, <2>2
      <4>. QED  BY <4>1
    <3>1. (f + 1) * PageSize <= x /\ (f + 1) * PageSize \in Nat
      BY <1>1, PageProduct
    <3>2. f < Down(y)
      BY <3>1, DownFacts
    <3>. QED  BY <1>1, <3>2
  <2>. QED  BY <2>1, <2>2
<1>4. Down(x) <= Up(y)
  <2>. PICK d \in Nat, u \in Nat : d = Down(x) /\ u = Up(y)
    BY <1>1
  <2>1. d * PageSize <= u * PageSize
    BY <1>1, PageProduct
  <2>2. ASSUME ~(d <= u) PROVE FALSE
    <3>1. (u + 1) * PageSize <= d * PageSize
      BY <2>2, ProductOrder, BootAssumption
    <3>2. /\ (u + 1) * PageSize = u * PageSize + PageSize /\ u * PageSize \in Nat
          /\ d * PageSize \in Nat /\ PageSize \in Nat \ {0}
      BY PageProduct
    <3>. QED  BY ONLY <2>1, <3>1, <3>2
  <2>. QED  BY <2>2
<1>. QED  BY <1>2, <1>3, <1>4

(* A stretch of whole pages.                                               *)
LEMMA WholePages ==
  ASSUME NEW k \in Nat
  PROVE  Up(k * PageSize) = k /\ Down(k * PageSize) = k
<1>. PICK x \in Nat : x = k * PageSize
  BY PageProduct
<1>1. /\ Down(x) \in Nat /\ Up(x) \in Nat /\ x <= Up(x) * PageSize
      /\ \A f \in Nat : f < Down(x) <=> (f + 1) * PageSize <= x
      /\ \A f \in Nat : Up(x) <= f <=> x <= f * PageSize
  BY DownFacts, UpFacts
<1>2. Up(x) <= k
  BY <1>1
<1>3. Down(x) <= Up(x)
  BY RoundingOrder
<1>4. k <= Down(x)
  <2>1. CASE k = 0
    BY <1>1, <2>1
  <2>2. CASE k # 0
    <3>. PICK f \in Nat : k = f + 1
      <4>1. k - 1 \in Nat /\ k = (k - 1) + 1
        BY <2>2
      <4>. QED  BY <4>1
    <3>1. f < Down(x)
      BY <1>1
    <3>. QED  BY <1>1, <3>1
  <2>. QED  BY <2>1, <2>2
<1>. QED  BY <1>1, <1>2, <1>3, <1>4
-----------------------------------------------------------------------------
(* The entries of an E820 table, and the addresses one claims.             *)
Entry(T) == [base : Nat, len : Nat, type : T]

(* The fields and the end of an entry of a map.                            *)
LEMMA EntryFacts ==
  ASSUME NEW T, NEW e \in Entry(T)
  PROVE  /\ e.base \in Nat /\ e.len \in Nat /\ e.type \in T /\ End(e) \in Nat /\ End(e) = e.base + e.len
         /\ DOMAIN e = {"base", "len", "type"}
BY DEF Entry, End

(* An address is covered by a type when an entry of that type reaches it.  *)
LEMMA CoverFacts ==
  ASSUME NEW T, NEW s \in Seq(Entry(T)), NEW t
  PROVE  /\ CoveredBy(s, t) \subseteq Nat
         /\ \A x \in Nat : x \in CoveredBy(s, t) <=>
              \E i \in 1 .. Len(s) : s[i].type = t /\ s[i].base <= x /\ x < End(s[i])
<1>1. DOMAIN s = 1 .. Len(s) /\ \A i \in 1 .. Len(s) : s[i] \in Entry(T)
  OBVIOUS
<1>2. ASSUME NEW i \in 1 .. Len(s) PROVE \A x : x \in s[i].base .. End(s[i]) - 1 <=> x \in Nat /\ s[i].base <= x /\ x < End(s[i])
  BY <1>1, EntryFacts, SMTT(30)
<1>3. \A x : x \in CoveredBy(s, t) <=> \E i \in 1 .. Len(s) : s[i].type = t /\ x \in s[i].base .. End(s[i]) - 1
  BY <1>1 DEF CoveredBy
<1>. QED  BY <1>2, <1>3

(* kSortMemMap orders the entries by their bases and keeps all of them     *)
(* that claim something.                                                   *)
SortOf(s, entries, T) ==
  /\ s \in Seq(Entry(T))
  /\ \A i \in 1 .. Len(s) : s[i].len > 0 /\ \E j \in 1 .. Len(entries) : entries[j] = s[i]
  /\ \A j \in 1 .. Len(entries) : entries[j].len > 0 => \E i \in 1 .. Len(s) : s[i] = entries[j]
  /\ \A i, j \in 1 .. Len(s) : i < j => s[i].base <= s[j].base

(* kCopyMemMap and kSortMemMap keep every entry that is not empty, in      *)
(* ascending order.                                                        *)
LEMMA SortFacts ==
  ASSUME NEW T, NEW entries \in Seq(Entry(T))
  PROVE  SortOf(SortedMap(entries), entries, T)
<1>20. PICK copied : copied = {i \in DOMAIN entries : entries[i].len > 0}
  OBVIOUS
<1>21. PICK before : before = {pair \in copied \X copied :
                   \/ entries[pair[1]].base < entries[pair[2]].base
                   \/ entries[pair[1]].base = entries[pair[2]].base /\ pair[1] < pair[2]}
  OBVIOUS
<1>1. DOMAIN entries = 1 .. Len(entries) /\ Len(entries) \in Nat /\ copied \subseteq 1 .. Len(entries)
      /\ \A i \in 1 .. Len(entries) : i \in copied <=> entries[i].len > 0
  BY <1>20
<1>2. \A i \in 1 .. Len(entries) : entries[i] \in Entry(T) /\ entries[i].base \in Nat /\ entries[i].len \in Nat
  BY EntryFacts
<1>3. IsFiniteSet(copied)
  <2>1. IsFiniteSet(1 .. Len(entries))
    BY <1>1, FS_Interval
  <2>. QED  BY <1>1, <2>1, FS_Subset
<1>4. StrictOrder(copied, before)
  <2>1. \A x, y \in copied : <<x, y>> \in before <=>
          \/ entries[x].base < entries[y].base
          \/ entries[x].base = entries[y].base /\ x < y
    BY <1>21
  <2>2. \A x \in copied : entries[x].base \in Nat /\ x \in Nat
    BY <1>1, <1>2
  <2>4. \A x, y, z \in copied : <<x, y>> \in before /\ <<y, z>> \in before => <<x, z>> \in before
    BY <2>1, <2>2, SMTT(30)
  <2>5. ASSUME NEW x \in copied, NEW y \in copied PROVE x = y \/ <<x, y>> \in before \/ <<y, x>> \in before
    <3>1. x = y \/ x < y \/ y < x
      BY <2>2
    <3>2. entries[x].base < entries[y].base \/ entries[x].base = entries[y].base \/ entries[y].base < entries[x].base
      BY <2>2
    <3>. QED  BY <2>1, <3>1, <3>2
  <2>6. \A x \in copied : <<x, x>> \notin before
    BY <2>1, <2>2
  <2>. QED  BY <2>4, <2>5, <2>6 DEF StrictOrder
<1>22. PICK a, n : a = Arranged(copied, before) /\ n = Cardinality(copied)
  OBVIOUS
<1>5. InOrder(a, copied, before)
  BY <1>3, <1>4, <1>22, ArrangedFacts
<1>6. /\ n \in Nat /\ \A i \in 1 .. n : a[i] \in copied
      /\ \A x \in copied : \E i \in 1 .. n : a[i] = x
      /\ \A i, j \in 1 .. n : i < j => <<a[i], a[j]>> \in before
  BY <1>5, <1>22 DEF InOrder
<1>23. \A i, j \in copied : <<i, j>> \in before => entries[i].base <= entries[j].base
  BY <1>1, <1>2, <1>21
<1>24. PICK s : s = SortedMap(entries)
  OBVIOUS
<1>7. s = [i \in 1 .. n |-> entries[a[i]]]
  BY <1>20, <1>21, <1>22, <1>24 DEF SortedMap
<1>8. s \in Seq(Entry(T)) /\ Len(s) = n
  <2>1. \A i \in 1 .. n : entries[a[i]] \in Entry(T)
    BY <1>1, <1>2, <1>6
  <2>2. s \in [1 .. n -> Entry(T)]
    BY <1>7, <2>1
  <2>. QED  BY <1>6, <2>2
<1>25. \A i \in 1 .. n : s[i] = entries[a[i]] /\ a[i] \in 1 .. Len(entries)
  BY <1>1, <1>6, <1>7
<1>9. \A i \in 1 .. n : s[i].len > 0 /\ \E j \in 1 .. Len(entries) : entries[j] = s[i]
  BY <1>1, <1>6, <1>25
<1>10. \A j \in 1 .. Len(entries) : entries[j].len > 0 => \E i \in 1 .. n : s[i] = entries[j]
  BY <1>1, <1>6, <1>25
<1>11. ASSUME NEW i \in 1 .. n, NEW j \in 1 .. n, i < j PROVE s[i].base <= s[j].base
  <2>1. <<a[i], a[j]>> \in before
    BY <1>6, <1>11
  <2>2. entries[a[i]].base <= entries[a[j]].base
    BY <1>6, <1>23, <2>1
  <2>. QED  BY <1>25, <2>2
<1>. QED  BY <1>8, <1>9, <1>10, <1>11, <1>24 DEF SortOf

(* Overwriting the last entry of a map.                                    *)
LEMMA ReplaceLast ==
  ASSUME NEW S, NEW m \in Seq(S), m # <<>>, NEW x \in S
  PROVE  /\ Front(m) \o <<x>> \in Seq(S) /\ Len(Front(m) \o <<x>>) = Len(m)
         /\ \A i \in 1 .. Len(m) - 1 : (Front(m) \o <<x>>)[i] = m[i]
         /\ (Front(m) \o <<x>>)[Len(m)] = x
         /\ Last(m) = m[Len(m)] /\ Len(m) \in Nat \ {0}
<1>1. Len(m) \in Nat \ {0} /\ Last(m) = m[Len(m)]
  BY DEF Last
<1>. PICK n \in Nat \ {0} : n = Len(m)
  BY <1>1
<1>. PICK f : f = Front(m)
  OBVIOUS
<1>2. f \in Seq(S) /\ Len(f) = n - 1 /\ \A i \in 1 .. n - 1 : f[i] = m[i]
  BY DEF Front
<1>3. /\ f \o <<x>> \in Seq(S) /\ Len(f \o <<x>>) = n
      /\ \A i \in 1 .. n - 1 : (f \o <<x>>)[i] = f[i]
      /\ (f \o <<x>>)[n] = x
  BY <1>2
<1>. QED  BY <1>1, <1>2, <1>3

Rising(s) == \A i, j \in 1 .. Len(s) : i < j => s[i].base <= s[j].base
Separate(s) == \A i, j \in 1 .. Len(s) : i < j /\ s[i].type = s[j].type => End(s[i]) < s[j].base
OneType(s) == \A t, u : t # u => CoveredBy(s, t) \cap CoveredBy(s, u) = {}

(* A map under construction, e the last entry taken into it.               *)
MapUpTo(m, e, T) ==
  /\ m \in Seq(Entry(T)) /\ e \in Entry(T) /\ e.len > 0
  /\ \A i \in 1 .. Len(m) : m[i].len > 0 /\ m[i].base <= e.base
  /\ Rising(m)

Claims(e, t) == IF e.type = t THEN e.base .. End(e) - 1 ELSE {}

Absorbed(m, e, r) ==
  /\ \A t : CoveredBy(r, t) = CoveredBy(m, t) \union Claims(e, t)
  /\ OneType(r) /\ Separate(m) => Separate(r)

(* kMergeMemMap with one more entry: the map stays ascending and covers    *)
(* that entry too.                                                         *)
LEMMA AbsorbFacts ==
  ASSUME NEW T, NEW m, NEW e, MapUpTo(m, e, T)
  PROVE  MapUpTo(Absorb(m, e), e, T) /\ Absorbed(m, e, Absorb(m, e))
<1>. /\ m \in Seq(Entry(T)) /\ e \in Entry(T) /\ e.len > 0
     /\ \A i \in 1 .. Len(m) : m[i].len > 0 /\ m[i].base <= e.base
     /\ \A i, j \in 1 .. Len(m) : i < j => m[i].base <= m[j].base
  BY DEF MapUpTo, Rising
<1>. PICK r : r = Absorb(m, e)
  OBVIOUS
<1>0. /\ e.base \in Nat /\ e.len \in Nat /\ End(e) \in Nat /\ End(e) = e.base + e.len /\ e.base < End(e)
      /\ \A i \in 1 .. Len(m) : m[i] \in Entry(T) /\ m[i].base \in Nat /\ m[i].len \in Nat
                                /\ End(m[i]) \in Nat /\ End(m[i]) = m[i].base + m[i].len /\ m[i].base < End(m[i])
      /\ Len(m) \in Nat
  BY EntryFacts, SMTT(30)
<1>. PICK n \in Nat : n = Len(m)
  BY <1>0
<1>. DEFINE joins == m # <<>> /\ Last(m).type = e.type /\ e.base <= End(Last(m))
<1>1. CASE joins
  <2>1. n \in Nat \ {0} /\ Last(m) = m[n]
    BY <1>1, ReplaceLast
  <2>. PICK l : l = m[n]
    OBVIOUS
  <2>. PICK top : top = MaxOf(End(l), End(e))
    OBVIOUS
  <2>2. /\ l \in Entry(T) /\ l.base \in Nat /\ l.len > 0 /\ l.base <= e.base /\ End(l) \in Nat /\ l.base < End(l)
        /\ l.type = e.type /\ e.base <= End(l) /\ n \in 1 .. n
    BY <1>0, <1>1, <2>1
  <2>3. top \in Nat /\ top >= End(l) /\ top >= End(e) /\ (top = End(l) \/ top = End(e)) /\ l.base < top
    BY <1>0, <2>2 DEF MaxOf
  <2>. PICK x : x = [l EXCEPT !.len = top - l.base]
    OBVIOUS
  <2>4. /\ x \in Entry(T) /\ x.base = l.base /\ x.type = e.type /\ x.len = top - l.base /\ End(x) = top /\ x.len > 0
    BY <2>2, <2>3, SMTT(30) DEF Entry, End
  <2>5. r = Front(m) \o <<x>>
    BY <1>1, <2>1 DEF Absorb
  <2>6. /\ r \in Seq(Entry(T)) /\ Len(r) = n /\ \A i \in 1 .. n - 1 : r[i] = m[i]
        /\ r[n] = x
    <3>. PICK S : S = Entry(T)
      OBVIOUS
    <3>1. m \in Seq(S) /\ m # <<>> /\ x \in S
      BY <1>1, <2>4
    <3>2. /\ Front(m) \o <<x>> \in Seq(S) /\ Len(Front(m) \o <<x>>) = Len(m)
          /\ \A i \in 1 .. Len(m) - 1 : (Front(m) \o <<x>>)[i] = m[i]
          /\ (Front(m) \o <<x>>)[Len(m)] = x
      BY ONLY <3>1, ReplaceLast
    <3>. QED  BY <2>5, <3>2
  <2>7. \A i \in 1 .. n : i \in 1 .. n - 1 \/ i = n
    OBVIOUS
  <2>8. MapUpTo(r, e, T)
    <3>1. \A i \in 1 .. n : r[i].len > 0 /\ r[i].base = m[i].base
      BY <2>4, <2>6, <2>7
    <3>. QED  BY <2>6, <3>1 DEF MapUpTo, Rising
  <2>9. ASSUME NEW t PROVE CoveredBy(r, t) = CoveredBy(m, t) \union Claims(e, t)
    <3>1. Claims(e, t) \subseteq Nat
      BY <1>0 DEF Claims
    <3>2. ASSUME NEW a \in Nat PROVE a \in CoveredBy(r, t) <=> a \in CoveredBy(m, t) \/ a \in Claims(e, t)
      <4>1. a \in CoveredBy(r, t) <=> \E i \in 1 .. n : r[i].type = t /\ r[i].base <= a /\ a < End(r[i])
        BY <2>6, CoverFacts
      <4>2. a \in CoveredBy(m, t) <=> \E i \in 1 .. n : m[i].type = t /\ m[i].base <= a /\ a < End(m[i])
        BY CoverFacts
      <4>3. a \in Claims(e, t) <=> e.type = t /\ e.base <= a /\ a < End(e)
        BY <1>0 DEF Claims
      <4>4. (x.base <= a /\ a < End(x)) <=> (l.base <= a /\ a < End(l)) \/ (e.base <= a /\ a < End(e))
        BY <1>0, <2>2, <2>3, <2>4
      <4>5. ASSUME NEW i \in 1 .. n, r[i].type = t, r[i].base <= a, a < End(r[i])
            PROVE  a \in CoveredBy(m, t) \/ a \in Claims(e, t)
        <5>1. CASE i = n
          BY <2>2, <2>4, <2>6, <4>2, <4>3, <4>4, <4>5, <5>1
        <5>2. CASE i \in 1 .. n - 1
          BY <2>6, <4>2, <4>5, <5>2
        <5>. QED  BY <2>7, <5>1, <5>2
      <4>6. ASSUME NEW i \in 1 .. n, m[i].type = t, m[i].base <= a, a < End(m[i])
            PROVE  a \in CoveredBy(r, t)
        <5>1. CASE i = n
          BY <2>2, <2>4, <2>6, <4>1, <4>4, <4>6, <5>1
        <5>2. CASE i \in 1 .. n - 1
          BY <2>6, <4>1, <4>6, <5>2
        <5>. QED  BY <2>7, <5>1, <5>2
      <4>7. a \in Claims(e, t) => a \in CoveredBy(r, t)
        BY <2>2, <2>4, <2>6, <4>1, <4>3, <4>4
      <4>. QED  BY <4>1, <4>2, <4>5, <4>6, <4>7
    <3>3. CoveredBy(r, t) \subseteq Nat /\ CoveredBy(m, t) \subseteq Nat
      BY <2>6, CoverFacts
    <3>. QED  BY <3>1, <3>2, <3>3
  <2>10. ASSUME Separate(m), NEW i \in 1 .. n, NEW j \in 1 .. n, i < j, r[i].type = r[j].type
         PROVE  End(r[i]) < r[j].base
    <3>1. i \in 1 .. n - 1 /\ r[i] = m[i] /\ r[j].base = m[j].base /\ r[j].type = m[j].type
      <4>1. i \in 1 .. n - 1 /\ r[i] = m[i]
        BY <2>6, <2>10
      <4>2. CASE j = n
        BY <2>2, <2>4, <2>6, <4>1, <4>2
      <4>3. CASE j \in 1 .. n - 1
        BY <2>6, <4>1, <4>3
      <4>. QED  BY <2>7, <4>1, <4>2, <4>3
    <3>. QED  BY <2>10, <3>1 DEF Separate
  <2>. QED  BY <2>6, <2>8, <2>9, <2>10 DEF Absorbed, Separate
<1>2. CASE ~joins
  <2>1. r = Append(m, e)
    BY <1>2 DEF Absorb
  <2>2. /\ r \in Seq(Entry(T)) /\ Len(r) = n + 1 /\ r[n + 1] = e
        /\ \A i \in 1 .. n : r[i] = m[i]
    BY <2>1
  <2>3. \A i \in 1 .. n + 1 : i \in 1 .. n \/ i = n + 1
    OBVIOUS
  <2>4. MapUpTo(r, e, T)
    <3>1. \A i \in 1 .. n + 1 : r[i].len > 0 /\ r[i].base <= e.base
      BY <1>0, <2>2, <2>3
    <3>2. ASSUME NEW i \in 1 .. n + 1, NEW j \in 1 .. n + 1, i < j PROVE r[i].base <= r[j].base
      BY <2>2, <2>3, <3>1, <3>2
    <3>. QED  BY <2>2, <3>1, <3>2 DEF MapUpTo, Rising
  <2>5. ASSUME NEW t PROVE CoveredBy(r, t) = CoveredBy(m, t) \union Claims(e, t)
    <3>1. Claims(e, t) \subseteq Nat
      BY <1>0 DEF Claims
    <3>2. ASSUME NEW a \in Nat PROVE a \in CoveredBy(r, t) <=> a \in CoveredBy(m, t) \/ a \in Claims(e, t)
      <4>1. a \in CoveredBy(r, t) <=> \E i \in 1 .. n + 1 : r[i].type = t /\ r[i].base <= a /\ a < End(r[i])
        BY <2>2, CoverFacts
      <4>2. a \in CoveredBy(m, t) <=> \E i \in 1 .. n : m[i].type = t /\ m[i].base <= a /\ a < End(m[i])
        BY CoverFacts
      <4>3. a \in Claims(e, t) <=> e.type = t /\ e.base <= a /\ a < End(e)
        BY <1>0 DEF Claims
      <4>. QED  BY <2>2, <2>3, <4>1, <4>2, <4>3
    <3>3. CoveredBy(r, t) \subseteq Nat /\ CoveredBy(m, t) \subseteq Nat
      BY <2>2, CoverFacts
    <3>. QED  BY <3>1, <3>2, <3>3
  <2>6. ASSUME OneType(r), Separate(m), NEW i \in 1 .. n, m[i].type = e.type PROVE End(m[i]) < e.base
    <3>. PICK l : l = m[n]
      OBVIOUS
    <3>1. n # 0 /\ m # <<>> /\ Last(m) = l /\ n \in 1 .. n
      BY ReplaceLast DEF Last
    <3>2. CASE i = n
      BY <1>0, <1>2, <2>6, <3>1, <3>2
    <3>3. CASE i # n /\ l.type = e.type
      <4>1. i < n /\ End(m[i]) < l.base /\ l.base <= e.base
        BY <2>6, <3>1, <3>3 DEF Separate
      <4>. QED  BY <1>0, <3>1, <4>1
    <3>4. CASE i # n /\ l.type # e.type
      <4>1. i < n /\ m[i].base <= l.base /\ l.base <= e.base /\ e.base < End(e)
            /\ m[i].base \in Nat /\ End(m[i]) \in Nat /\ l.base \in Nat /\ l.base < End(l) /\ e.base \in Nat
        BY <1>0, <3>1, <3>4
      <4>2. \A a \in Nat : /\ m[i].base <= a /\ a < End(m[i]) => a \in CoveredBy(r, e.type)
                           /\ l.base <= a /\ a < End(l) => a \in CoveredBy(r, l.type)
                           /\ e.base <= a /\ a < End(e) => a \in CoveredBy(r, e.type)
        <5>1. \A a \in Nat : a \in CoveredBy(r, e.type) <=>
                \E k \in 1 .. n + 1 : r[k].type = e.type /\ r[k].base <= a /\ a < End(r[k])
          BY <2>2, CoverFacts
        <5>2. \A a \in Nat : a \in CoveredBy(r, l.type) <=>
                \E k \in 1 .. n + 1 : r[k].type = l.type /\ r[k].base <= a /\ a < End(r[k])
          BY <2>2, CoverFacts, SMTT(30)
        <5>. QED  BY <2>2, <2>6, <3>1, <5>1, <5>2
      <4>3. \A a : ~(a \in CoveredBy(r, e.type) /\ a \in CoveredBy(r, l.type))
        BY <2>6, <3>4 DEF OneType
      <4>4. End(m[i]) <= l.base
        <5>1. ~(m[i].base <= l.base /\ l.base < End(m[i]))
          BY <4>1, <4>2, <4>3
        <5>. QED  BY <4>1, <5>1
      <4>5. e.base # l.base
        BY <4>1, <4>2, <4>3
      <4>. QED  BY <4>1, <4>4, <4>5
    <3>. QED  BY <3>2, <3>3, <3>4
  <2>7. ASSUME OneType(r), Separate(m), NEW i \in 1 .. n + 1, NEW j \in 1 .. n + 1, i < j, r[i].type = r[j].type
        PROVE  End(r[i]) < r[j].base
    <3>1. i \in 1 .. n /\ r[i] = m[i]
      BY <2>2, <2>3, <2>7
    <3>2. CASE j = n + 1
      BY <2>2, <2>6, <2>7, <3>1, <3>2
    <3>3. CASE j \in 1 .. n
      BY <2>2, <2>7, <3>1, <3>3 DEF Separate
    <3>. QED  BY <2>3, <3>2, <3>3
  <2>. QED  BY <2>2, <2>4, <2>5, <2>7 DEF Absorbed, Separate
<1>. QED  BY <1>1, <1>2

(* kMergeMemMap, entry by entry. *)
Folded(f, n, entries) == f = [i \in 0 .. n |-> IF i = 0 THEN <<>> ELSE Absorb(f[i - 1], entries[i])]

(* The recursive function behind Merged is defined.                        *)
LEMMA FoldExists ==
  ASSUME NEW entries, NEW n \in Nat
  PROVE  \E f : Folded(f, n, entries)
<1>. DEFINE T == {k \in Nat : ~\E f : Folded(f, k, entries)}
<1>1. SUFFICES ASSUME ~\E f : Folded(f, n, entries) PROVE FALSE
  OBVIOUS
<1>2. T # {} /\ T \subseteq Nat
  BY <1>1
<1>3. PICK k \in T : \A l \in T : k <= l
  <2>. HIDE DEF T
  <2>. QED  BY <1>2, LeastMember
<1>4. k # 0
  <2>. PICK f : f = [i \in 0 .. 0 |-> <<>>]
    OBVIOUS
  <2>1. Folded(f, 0, entries)
    BY DEF Folded
  <2>. QED  BY <1>3, <2>1
<1>5. k \in Nat /\ k - 1 \in Nat /\ k - 1 \notin T
  BY <1>3, <1>4
<1>6. PICK g : Folded(g, k - 1, entries)
  BY <1>5
<1>. PICK f : f = [i \in 0 .. k |-> IF i = k THEN Absorb(g[k - 1], entries[k]) ELSE g[i]]
  OBVIOUS
<1>7. ASSUME NEW i \in 0 .. k PROVE f[i] = IF i = 0 THEN <<>> ELSE Absorb(f[i - 1], entries[i])
  <2>1. CASE i = k
    <3>1. k - 1 \in 0 .. k /\ k - 1 # k /\ f[k - 1] = g[k - 1]
      BY <1>5
    <3>. QED  BY <1>4, <2>1, <3>1
  <2>2. CASE i # k
    <3>1. i \in 0 .. k - 1 /\ f[i] = g[i] /\ g[i] = IF i = 0 THEN <<>> ELSE Absorb(g[i - 1], entries[i])
      BY <1>5, <1>6, <2>2 DEF Folded
    <3>2. i # 0 => i - 1 \in 0 .. k /\ i - 1 # k /\ f[i - 1] = g[i - 1]
      BY <1>5, <3>1
    <3>. QED  BY <3>1, <3>2
  <2>. QED  BY <2>1, <2>2
<1>8. Folded(f, k, entries)
  BY <1>7 DEF Folded
<1>. QED  BY <1>3, <1>8

(* Merged is its last value.                                               *)
LEMMA MergedIs ==
  ASSUME NEW entries, Len(entries) \in Nat
  PROVE  \E f : Folded(f, Len(entries), entries) /\ Merged(entries) = f[Len(entries)]
<1>1. PICK f : f = (CHOOSE g : Folded(g, Len(entries), entries)) /\ Merged(entries) = f[Len(entries)]
  BY DEF Merged, Folded
<1>2. \E g : Folded(g, Len(entries), entries)
  BY FoldExists
<1>3. Folded(f, Len(entries), entries)
  BY <1>1, <1>2, Zenon
<1>. QED  BY <1>1, <1>3

(* The merged map against the table it was made from: it claims the same   *)
(* addresses for every type, its entries ascend, and those of one type are *)
(* apart when the table is consistent.                                     *)
MapOf(m, entries, T) ==
  /\ m \in Seq(Entry(T)) /\ Rising(m)
  /\ \A i \in 1 .. Len(m) : m[i].len > 0
  /\ \A t : CoveredBy(m, t) = CoveredBy(entries, t)
  /\ OneType(entries) => Separate(m)

(* The same of the map after the first k entries.                          *)
PartOf(m, k, s, T) ==
  /\ m \in Seq(Entry(T)) /\ Rising(m)
  /\ \A i \in 1 .. Len(m) : m[i].len > 0 /\ (k > 0 => m[i].base <= s[k].base)
  /\ \A t : \A a \in Nat : a \in CoveredBy(m, t) <=>
                 \E j \in 1 .. k : s[j].type = t /\ s[j].base <= a /\ a < End(s[j])
  /\ OneType(s) => Separate(m)

(* One more entry of the sorted table.                                     *)
LEMMA PartStep ==
  ASSUME NEW T, NEW s \in Seq(Entry(T)), \A i \in 1 .. Len(s) : s[i].len > 0, Rising(s),
         NEW k \in 1 .. Len(s), NEW m, PartOf(m, k - 1, s, T), k - 1 = 0 => m = <<>>
  PROVE  PartOf(Absorb(m, s[k]), k, s, T)
<1>. PICK e, r : e = s[k] /\ r = Absorb(m, e)
  OBVIOUS
<1>1. /\ m \in Seq(Entry(T)) /\ Rising(m)
      /\ \A i \in 1 .. Len(m) : m[i].len > 0 /\ (k - 1 > 0 => m[i].base <= s[k - 1].base)
      /\ \A t : \A a \in Nat : a \in CoveredBy(m, t) <=>
                 \E j \in 1 .. k - 1 : s[j].type = t /\ s[j].base <= a /\ a < End(s[j])
      /\ OneType(s) => Separate(m)
  BY DEF PartOf
<1>2. e \in Entry(T) /\ e.len > 0 /\ e.base \in Nat /\ End(e) \in Nat /\ k \in Nat /\ k >= 1 /\ k <= Len(s)
  BY EntryFacts
<1>3. \A i \in 1 .. Len(m) : m[i].base <= e.base
  <2>. TAKE i \in 1 .. Len(m)
  <2>1. m[i] \in Entry(T) /\ m[i].base \in Nat
    BY <1>1, EntryFacts
  <2>2. CASE k - 1 = 0
    BY <2>2
  <2>3. CASE k - 1 > 0
    <3>1. k - 1 \in 1 .. Len(s) /\ k - 1 < k
      BY <1>2, <2>3
    <3>2. s[k - 1].base <= e.base /\ s[k - 1].base \in Nat
      <4>1. s[k - 1] \in Entry(T)
        BY <3>1
      <4>. QED  BY <3>1, <4>1, EntryFacts DEF Rising
    <3>. QED  BY <1>1, <1>2, <2>1, <2>3, <3>2
  <2>. QED  BY <1>2, <2>2, <2>3
<1>4. MapUpTo(m, e, T)
  BY <1>1, <1>2, <1>3 DEF MapUpTo
<1>5. MapUpTo(r, e, T) /\ Absorbed(m, e, r)
  BY <1>4, AbsorbFacts
<1>6. /\ r \in Seq(Entry(T)) /\ Rising(r)
      /\ \A i \in 1 .. Len(r) : r[i].len > 0 /\ r[i].base <= e.base
  BY <1>5 DEF MapUpTo
<1>7. ASSUME NEW t, NEW a \in Nat
      PROVE  a \in CoveredBy(r, t) <=> \E j \in 1 .. k : s[j].type = t /\ s[j].base <= a /\ a < End(s[j])
  <2>1. CoveredBy(r, t) = CoveredBy(m, t) \union Claims(e, t)
    BY <1>5 DEF Absorbed
  <2>2. a \in Claims(e, t) <=> e.type = t /\ e.base <= a /\ a < End(e)
    BY <1>2 DEF Claims
  <2>3. \A j \in 1 .. k : j \in 1 .. k - 1 \/ j = k
    BY <1>2
  <2>4. \A j \in 1 .. k - 1 : j \in 1 .. k
    BY <1>2
  <2>5. k \in 1 .. k
    BY <1>2
  <2>. QED  BY <1>1, <2>1, <2>2, <2>3, <2>4, <2>5
<1>8. ASSUME OneType(s) PROVE OneType(r)
  <2>1. ASSUME NEW t, NEW a, a \in CoveredBy(r, t) PROVE a \in CoveredBy(s, t)
    <3>1. a \in Nat
      BY <1>6, <2>1, CoverFacts
    <3>2. PICK j \in 1 .. k : s[j].type = t /\ s[j].base <= a /\ a < End(s[j])
      BY <1>7, <2>1, <3>1
    <3>3. j \in 1 .. Len(s)
      BY <1>2
    <3>. QED  BY <3>1, <3>2, <3>3, CoverFacts
  <2>. QED  BY <1>8, <2>1 DEF OneType
<1>9. OneType(s) => Separate(r)
  BY <1>1, <1>5, <1>8 DEF Absorbed
<1>. QED  BY <1>6, <1>7, <1>9 DEF PartOf

(* Merging the sorted table loses and invents nothing.                     *)
LEMMA MergeMapFacts ==
  ASSUME NEW T, NEW s \in Seq(Entry(T)), \A i \in 1 .. Len(s) : s[i].len > 0, Rising(s)
  PROVE  MapOf(Merged(s), s, T)
<1>. PICK n \in Nat : n = Len(s)
  OBVIOUS
<1>1. PICK f : Folded(f, n, s) /\ Merged(s) = f[n]
  BY MergedIs
<1>2. f[0] = <<>> /\ \A k \in 1 .. n : f[k] = Absorb(f[k - 1], s[k])
  <2>1. \A k \in 0 .. n : f[k] = IF k = 0 THEN <<>> ELSE Absorb(f[k - 1], s[k])
    BY <1>1 DEF Folded
  <2>2. 0 \in 0 .. n /\ \A k \in 1 .. n : k \in 0 .. n /\ k # 0
    OBVIOUS
  <2>. QED  BY <2>1, <2>2
<1>3. PartOf(<<>>, 0, s, T)
  <2>1. <<>> \in Seq(Entry(T)) /\ Len(<<>>) = 0
    OBVIOUS
  <2>2. \A t : CoveredBy(<<>>, t) = {}
    BY DEF CoveredBy
  <2>. QED  BY <2>1, <2>2 DEF PartOf, Rising, Separate
<1>4. PartOf(f[n], n, s, T)
  <2>. DEFINE W == {k \in 0 .. n : ~PartOf(f[k], k, s, T)}
  <2>1. SUFFICES ASSUME ~PartOf(f[n], n, s, T) PROVE FALSE
    OBVIOUS
  <2>2. W # {} /\ W \subseteq Nat
    BY <2>1
  <2>3. PICK k \in W : \A l \in W : k <= l
    <3>. HIDE DEF W
    <3>. QED  BY <2>2, LeastMember
  <2>4. k # 0
    BY <1>2, <1>3, <2>3
  <2>5. k \in 1 .. n /\ k - 1 \in 0 .. n /\ k - 1 \notin W
    BY <2>3, <2>4
  <2>6. PartOf(f[k - 1], k - 1, s, T) /\ (k - 1 = 0 => f[k - 1] = <<>>) /\ f[k] = Absorb(f[k - 1], s[k])
    BY <1>2, <2>5
  <2>. PICK m : m = f[k - 1]
    OBVIOUS
  <2>7. PartOf(Absorb(m, s[k]), k, s, T)
    <3>1. PartOf(m, k - 1, s, T) /\ (k - 1 = 0 => m = <<>>) /\ k \in 1 .. Len(s)
      BY <2>5, <2>6
    <3>. HIDE DEF W
    <3>. QED  BY <3>1, PartStep
  <2>. QED  BY <2>3, <2>6, <2>7
<1>. PICK m : m = Merged(s)
  OBVIOUS
<1>5. PartOf(m, n, s, T)
  BY <1>1, <1>4
<1>6. ASSUME NEW t PROVE CoveredBy(m, t) = CoveredBy(s, t)
  <2>1. CoveredBy(m, t) \subseteq Nat /\ CoveredBy(s, t) \subseteq Nat
    BY <1>5, CoverFacts DEF PartOf
  <2>2. \A a \in Nat : a \in CoveredBy(m, t) <=> a \in CoveredBy(s, t)
    BY <1>5, CoverFacts DEF PartOf
  <2>. QED  BY <2>1, <2>2
<1>. QED  BY <1>5, <1>6 DEF PartOf, MapOf

(* The sorted and merged map of a table.                                   *)
LEMMA MapFacts ==
  ASSUME NEW T, NEW info \in Seq(Entry(T))
  PROVE  MapOf(Merged(SortedMap(info)), info, T)
<1>. PICK s, m : s = SortedMap(info) /\ m = Merged(s)
  OBVIOUS
<1>1. SortOf(s, info, T)
  BY SortFacts
<1>2. /\ s \in Seq(Entry(T)) /\ Rising(s)
      /\ \A i \in 1 .. Len(s) : s[i].len > 0 /\ \E j \in 1 .. Len(info) : info[j] = s[i]
      /\ \A j \in 1 .. Len(info) : info[j].len > 0 => \E i \in 1 .. Len(s) : s[i] = info[j]
  BY <1>1 DEF SortOf, Rising
<1>3. MapOf(m, s, T)
  BY <1>2, MergeMapFacts
<1>4. ASSUME NEW t PROVE CoveredBy(s, t) = CoveredBy(info, t)
  <2>1. CoveredBy(s, t) \subseteq Nat /\ CoveredBy(info, t) \subseteq Nat
    BY <1>2, CoverFacts
  <2>2. ASSUME NEW a \in Nat PROVE a \in CoveredBy(s, t) <=> a \in CoveredBy(info, t)
    <3>1. a \in CoveredBy(s, t) <=> \E i \in 1 .. Len(s) : s[i].type = t /\ s[i].base <= a /\ a < End(s[i])
      <4>1. s \in Seq(Entry(T)) /\ a \in Nat
        BY <1>2
      <4>. QED  BY ONLY <4>1, CoverFacts, ZenonT(30)
    <3>2. a \in CoveredBy(info, t) <=> \E i \in 1 .. Len(info) : info[i].type = t /\ info[i].base <= a /\ a < End(info[i])
      BY CoverFacts
    <3>3. \A i \in 1 .. Len(info) : info[i].base <= a /\ a < End(info[i]) => info[i].len > 0
      BY EntryFacts
    <3>. QED  BY <1>2, <3>1, <3>2, <3>3, ZenonT(30)
  <2>. QED  BY <2>1, <2>2
<1>5. OneType(info) => OneType(s)
  BY <1>4 DEF OneType
<1>. QED  BY <1>3, <1>4, <1>5 DEF MapOf
-----------------------------------------------------------------------------
Types == {firmware[i].type : i \in DOMAIN firmware}

(* The map as kInitializeMemoryMap leaves it.                              *)
MapReady == MapOf(memmap, bootinfo, Types) /\ CoveredBy(bootinfo, "usable") \subseteq 0 .. Total * PageSize - 1

(* The entries of the finished map, and which are usable.                  *)
LEMMA EntriesFacts ==
  ASSUME MapReady
  PROVE  /\ DOMAIN memmap = 1 .. Len(memmap) /\ Len(memmap) \in Nat
         /\ UsableEntries \subseteq 1 .. Len(memmap)
         /\ \A i \in 1 .. Len(memmap) :
              /\ memmap[i].base \in Nat /\ memmap[i].len \in Nat /\ memmap[i].len > 0
              /\ End(memmap[i]) \in Nat /\ memmap[i].base < End(memmap[i])
              /\ i \in UsableEntries <=> memmap[i].type = "usable"
         /\ \A i \in UsableEntries : End(memmap[i]) <= Total * PageSize
         /\ \A a \in Nat : a \in CoveredBy(bootinfo, "usable") <=>
              \E i \in UsableEntries : memmap[i].base <= a /\ a < End(memmap[i])
<1>1. /\ memmap \in Seq(Entry(Types)) /\ CoveredBy(memmap, "usable") = CoveredBy(bootinfo, "usable")
      /\ \A i \in 1 .. Len(memmap) : memmap[i].len > 0
  BY DEF MapReady, MapOf
<1>2. DOMAIN memmap = 1 .. Len(memmap) /\ Len(memmap) \in Nat
  BY <1>1
<1>3. \A i \in 1 .. Len(memmap) :
        /\ memmap[i].base \in Nat /\ memmap[i].len \in Nat /\ memmap[i].len > 0
        /\ End(memmap[i]) \in Nat /\ End(memmap[i]) = memmap[i].base + memmap[i].len
  BY <1>1, EntryFacts
<1>4. UsableEntries = {i \in 1 .. Len(memmap) : memmap[i].type = "usable"}
  BY <1>2 DEF UsableEntries, Usable
<1>5. \A a \in Nat : a \in CoveredBy(bootinfo, "usable") <=>
        \E i \in UsableEntries : memmap[i].base <= a /\ a < End(memmap[i])
  BY <1>1, <1>4, CoverFacts
<1>6. ASSUME NEW i \in UsableEntries PROVE End(memmap[i]) <= Total * PageSize
  <2>1. i \in 1 .. Len(memmap)
    BY <1>4
  <2>. PICK a, b : a = End(memmap[i]) - 1 /\ b = Total * PageSize
    OBVIOUS
  <2>2. a \in Nat /\ memmap[i].base <= a /\ a < End(memmap[i]) /\ End(memmap[i]) = a + 1
    BY <1>3, <2>1
  <2>3. a \in 0 .. b - 1
    BY <1>5, <1>6, <2>2 DEF MapReady
  <2>4. b \in Nat
    BY PageProduct, BuddyAssumption
  <2>. QED  BY <2>2, <2>3, <2>4
<1>. QED  BY <1>2, <1>3, <1>4, <1>5, <1>6

(* The highest usable address is the end of a usable entry and within the  *)
(* machine.                                                                *)
LEMMA HighestFacts ==
  ASSUME MapReady
  PROVE  /\ HighestUsable \in Nat /\ HighestUsable <= Total * PageSize
         /\ \A i \in UsableEntries : End(memmap[i]) <= HighestUsable
         /\ UsableEntries # {} => \E i \in UsableEntries : End(memmap[i]) = HighestUsable
         /\ UsableEntries = {} => HighestUsable = 0
<1>1. /\ UsableEntries \subseteq 1 .. Len(memmap)
      /\ \A i \in UsableEntries : End(memmap[i]) \in Nat /\ End(memmap[i]) <= Total * PageSize
  BY EntriesFacts
<1>2. Total * PageSize \in Nat
  BY PageProduct, BuddyAssumption
<1>3. CASE UsableEntries = {}
  BY <1>2, <1>3 DEF HighestUsable
<1>4. CASE UsableEntries # {}
  <2>. PICK B : B = Total * PageSize
    OBVIOUS
  <2>1. PICK tops : tops = {End(memmap[i]) : i \in UsableEntries}
    OBVIOUS
  <2>2. tops \subseteq 0 .. B /\ tops # {} /\ B \in Nat
    <3>1. \A i \in UsableEntries : End(memmap[i]) \in 0 .. B
      BY <1>1, <1>2
    <3>. QED  BY <1>2, <1>4, <2>1, <3>1
  <2>3. \E x \in tops : \A y \in tops : y <= x
    BY ONLY <2>2, GreatestMember
  <2>4. \E top \in tops : \A i \in UsableEntries : End(memmap[i]) <= top
    BY <2>1, <2>3
  <2>5. HighestUsable = CHOOSE top \in tops : \A i \in UsableEntries : End(memmap[i]) <= top
    BY <1>4, <2>1 DEF HighestUsable
  <2>6. HighestUsable \in tops /\ \A i \in UsableEntries : End(memmap[i]) <= HighestUsable
    BY <2>4, <2>5, Zenon
  <2>. QED  BY <1>2, <1>4, <2>1, <2>2, <2>6
<1>. QED  BY <1>3, <1>4
-----------------------------------------------------------------------------
(* Lists of tables, by the names in them. *)
Naming(s, S, names) ==
  /\ s \in Seq(S)
  /\ \A i, j \in 1 .. Len(s) : s[i] = s[j] => i = j
  /\ \A i \in 1 .. Len(s) : s[i][1] \in names

(* Two namings with different names, one after the other.                  *)
LEMMA NamingConcat ==
  ASSUME NEW S, NEW s, NEW t, NEW a, NEW b, Naming(s, S, a), Naming(t, S, b), a \cap b = {}
  PROVE  Naming(s \o t, S, a \union b) /\ Len(s \o t) = Len(s) + Len(t)
<1>1. s \in Seq(S) /\ t \in Seq(S) /\ Len(s) \in Nat /\ Len(t) \in Nat
  BY DEF Naming
<1>. PICK m \in Nat, n \in Nat : m = Len(s) /\ n = Len(t)
  BY <1>1
<1>. PICK u : u = s \o t
  OBVIOUS
<1>2. /\ u \in Seq(S) /\ Len(u) = m + n
      /\ \A i \in 1 .. m : u[i] = s[i]
      /\ \A i \in m + 1 .. m + n : u[i] = t[i - m] /\ i - m \in 1 .. n
  BY <1>1
<1>3. \A i \in 1 .. m + n : i \in 1 .. m \/ i \in m + 1 .. m + n
  OBVIOUS
<1>4. \A i \in 1 .. m + n : u[i][1] \in a \union b
  BY <1>2, <1>3 DEF Naming
<1>5. ASSUME NEW i \in 1 .. m + n, NEW j \in 1 .. m + n, u[i] = u[j] PROVE i = j
  <2>1. CASE i \in 1 .. m /\ j \in 1 .. m
    BY <1>2, <1>5, <2>1 DEF Naming
  <2>2. CASE i \in m + 1 .. m + n /\ j \in m + 1 .. m + n
    <3>1. i - m = j - m
      BY <1>2, <1>5, <2>2 DEF Naming
    <3>. QED  BY <3>1, <2>2
  <2>3. CASE i \in 1 .. m /\ j \in m + 1 .. m + n
    <3>1. u[i][1] \in a /\ u[j][1] \in b
      BY <1>2, <2>3 DEF Naming
    <3>. QED  BY <1>5, <3>1
  <2>4. CASE j \in 1 .. m /\ i \in m + 1 .. m + n
    <3>1. u[j][1] \in a /\ u[i][1] \in b
      BY <1>2, <2>4 DEF Naming
    <3>. QED  BY <1>5, <3>1
  <2>. QED  BY <1>3, <2>1, <2>2, <2>3, <2>4
<1>. QED  BY <1>2, <1>4, <1>5 DEF Naming

(* A row of numbered tables of one kind.                                   *)
LEMMA NamingRow ==
  ASSUME NEW S, NEW x, NEW n \in Nat, \A k \in 1 .. n : <<x, k>> \in S
  PROVE  Naming([k \in 1 .. n |-> <<x, k>>], S, {x})
<1>. PICK s : s = [k \in 1 .. n |-> <<x, k>>]
  OBVIOUS
<1>1. s \in Seq(S) /\ Len(s) = n /\ \A k \in 1 .. n : s[k] = <<x, k>>
  OBVIOUS
<1>2. \A i, j \in 1 .. n : s[i] = s[j] => i = j
  BY <1>1
<1>. QED  BY <1>1, <1>2 DEF Naming

(* Two tables of different kinds.                                          *)
LEMMA NamingPair ==
  ASSUME NEW S, NEW p \in S, NEW q \in S, p # q
  PROVE  Naming(<<p, q>>, S, {p[1], q[1]}) /\ Naming(<<p>>, S, {p[1]})
<1>. PICK s, t : s = <<p, q>> /\ t = <<p>>
  OBVIOUS
<1>1. s \in Seq(S) /\ Len(s) = 2 /\ s[1] = p /\ s[2] = q /\ t \in Seq(S) /\ Len(t) = 1 /\ t[1] = p
  OBVIOUS
<1>2. \A i \in 1 .. 2 : i = 1 \/ i = 2
  OBVIOUS
<1>3. \A i \in 1 .. 1 : i = 1
  OBVIOUS
<1>4. Naming(s, S, {p[1], q[1]})
  BY <1>1, <1>2 DEF Naming
<1>5. Naming(t, S, {p[1]})
  BY <1>1, <1>3 DEF Naming
<1>. QED  BY <1>4, <1>5

(* kInitializePaging asks for no table twice. *)
LEMMA WantedFacts ==
  ASSUME HighestUsable \in Nat
  PROVE  /\ Len(Wanted) \in Nat /\ DOMAIN Wanted = 1 .. Len(Wanted)
         /\ \A i, j \in 1 .. Len(Wanted) : Wanted[i] = Wanted[j] => i = j
<1>1. PICK S : S = {"pml4", "direct pdpt", "direct pd", "kernel pdpt", "kernel pd", "image pt", "vmalloc pdpt"} \X Nat
  OBVIOUS
<1>2. PICK n \in Nat : n = (HighestUsable + PdSpan - 1) \div PdSpan
  <2>1. HighestUsable + PdSpan - 1 \in Nat /\ PdSpan \in Nat \ {0}
    BY BootAssumption
  <2>. PICK x \in Nat, y \in Nat \ {0} : x = HighestUsable + PdSpan - 1 /\ y = PdSpan
    BY <2>1
  <2>2. x \div y \in Nat
    BY DivModFacts
  <2>. QED  BY <2>2
<1>3. PICK a, d, c, e, v :
       /\ a = <<<<"pml4", 0>>, <<"direct pdpt", 0>>>> /\ d = DirectTables
       /\ c = <<<<"kernel pdpt", 0>>, <<"kernel pd", 0>>>> /\ e = <<<<"image pt", 0>>>> /\ v = VmallocTables
  OBVIOUS
<1>4. Naming(d, S, {"direct pd"})
  <2>1. \A k \in 1 .. n : <<"direct pd", k>> \in S
    <3>1. \A k \in 1 .. n : k \in Nat
      OBVIOUS
    <3>. QED  BY ONLY <1>1, <3>1
  <2>2. Naming([k \in 1 .. n |-> <<"direct pd", k>>], S, {"direct pd"})
    BY <2>1, NamingRow
  <2>. QED  BY <1>2, <1>3, <2>2 DEF DirectTables
<1>5. Naming(v, S, {"vmalloc pdpt"})
  <2>1. VmallocSlots \in Nat /\ \A k \in 1 .. VmallocSlots : <<"vmalloc pdpt", k>> \in S
    <3>1. VmallocSlots \in Nat
      BY BootAssumption
    <3>2. \A k \in 1 .. VmallocSlots : k \in Nat
      BY <3>1
    <3>. QED  BY ONLY <1>1, <3>1, <3>2
  <2>2. Naming([k \in 1 .. VmallocSlots |-> <<"vmalloc pdpt", k>>], S, {"vmalloc pdpt"})
    BY <2>1, NamingRow
  <2>. QED  BY <1>3, <2>2 DEF VmallocTables
<1>6. Naming(a, S, {"pml4", "direct pdpt"}) /\ Naming(c, S, {"kernel pdpt", "kernel pd"}) /\ Naming(e, S, {"image pt"})
  <2>. PICK p, q, r, s, t : /\ p = <<"pml4", 0>> /\ q = <<"direct pdpt", 0>> /\ r = <<"kernel pdpt", 0>>
                            /\ s = <<"kernel pd", 0>> /\ t = <<"image pt", 0>>
    OBVIOUS
  <2>1. p \in S /\ q \in S /\ r \in S /\ s \in S /\ t \in S
    BY <1>1
  <2>2. /\ p[1] = "pml4" /\ q[1] = "direct pdpt" /\ r[1] = "kernel pdpt" /\ s[1] = "kernel pd" /\ t[1] = "image pt"
        /\ p # q /\ r # s /\ t # s
    OBVIOUS
  <2>3. Naming(<<p, q>>, S, {p[1], q[1]}) /\ Naming(<<r, s>>, S, {r[1], s[1]}) /\ Naming(<<t>>, S, {t[1]})
    BY <2>1, <2>2, NamingPair
  <2>. QED  BY <1>3, <2>2, <2>3
<1>7. PICK na, nd, nc, ne, nv :
        /\ na = {"pml4", "direct pdpt"} /\ nd = {"direct pd"} /\ nc = {"kernel pdpt", "kernel pd"}
        /\ ne = {"image pt"} /\ nv = {"vmalloc pdpt"}
  OBVIOUS
<1>8. /\ na \cap nd = {} /\ (na \union nd) \cap nc = {} /\ ((na \union nd) \union nc) \cap ne = {}
      /\ (((na \union nd) \union nc) \union ne) \cap nv = {}
  BY <1>7
<1>9. Naming(a, S, na) /\ Naming(d, S, nd) /\ Naming(c, S, nc) /\ Naming(e, S, ne) /\ Naming(v, S, nv)
  BY <1>4, <1>5, <1>6, <1>7
<1>10. Naming(a \o d, S, na \union nd)
  BY <1>8, <1>9, NamingConcat
<1>11. Naming((a \o d) \o c, S, (na \union nd) \union nc)
  BY <1>8, <1>9, <1>10, NamingConcat
<1>12. Naming(((a \o d) \o c) \o e, S, ((na \union nd) \union nc) \union ne)
  BY <1>8, <1>9, <1>11, NamingConcat
<1>13. Naming((((a \o d) \o c) \o e) \o v, S, (((na \union nd) \union nc) \union ne) \union nv)
  BY <1>8, <1>9, <1>12, NamingConcat
<1>14. PICK w, names : w = (((a \o d) \o c) \o e) \o v /\ names = (((na \union nd) \union nc) \union ne) \union nv
  OBVIOUS
<1>15. Naming(w, S, names)
  BY <1>13, <1>14
<1>16. Wanted = w
  BY <1>3, <1>14 DEF Wanted, BeforeImage
<1>17. w \in Seq(S) /\ \A i, j \in 1 .. Len(w) : w[i] = w[j] => i = j
  BY <1>15 DEF Naming
<1>. QED  BY <1>16, <1>17
-----------------------------------------------------------------------------
(* A frame is usable when one usable entry covers all of it.               *)
LEMMA UsableFramesFacts ==
  ASSUME MapReady
  PROVE  /\ UsableFrames \subseteq 0 .. Up(HighestUsable) - 1
         /\ Up(HighestUsable) \in 0 .. Total
         /\ \A f \in Nat : f \in UsableFrames <=>
              \E i \in UsableEntries : memmap[i].base <= f * PageSize /\ (f + 1) * PageSize <= End(memmap[i])
<1>1. /\ UsableEntries \subseteq 1 .. Len(memmap)
      /\ \A i \in UsableEntries : memmap[i].base \in Nat /\ End(memmap[i]) \in Nat
  BY EntriesFacts
<1>2. /\ HighestUsable \in Nat /\ HighestUsable <= Total * PageSize
      /\ \A i \in UsableEntries : End(memmap[i]) <= HighestUsable
  BY HighestFacts
<1>3. \A f : f \in UsableFrames <=> \E i \in UsableEntries : f \in Up(memmap[i].base) .. Down(End(memmap[i])) - 1
  BY DEF UsableFrames
<1>4. ASSUME NEW i \in UsableEntries
      PROVE  /\ \A f \in Nat : f \in Up(memmap[i].base) .. Down(End(memmap[i])) - 1 <=>
                   memmap[i].base <= f * PageSize /\ (f + 1) * PageSize <= End(memmap[i])
             /\ Up(memmap[i].base) .. Down(End(memmap[i])) - 1 \subseteq 0 .. Up(HighestUsable) - 1
  <2>. PICK lo, hi : lo = memmap[i].base /\ hi = End(memmap[i])
    OBVIOUS
  <2>1. lo \in Nat /\ hi \in Nat
    BY <1>1
  <2>2. /\ Up(lo) \in Nat /\ \A f \in Nat : Up(lo) <= f <=> lo <= f * PageSize
    BY <2>1, UpFacts
  <2>3. Down(hi) \in Nat /\ \A f \in Nat : f < Down(hi) <=> (f + 1) * PageSize <= hi
    BY <2>1, DownFacts
  <2>4. Down(hi) <= Up(HighestUsable) /\ Up(HighestUsable) \in Nat
    <3>1. hi <= HighestUsable
      BY <1>2
    <3>. QED  BY <1>2, <2>1, <3>1, RoundingOrder, UpFacts
  <2>5. \A f \in Nat : f \in Up(lo) .. Down(hi) - 1 <=> Up(lo) <= f /\ f < Down(hi)
    BY <2>2, <2>3
  <2>6. Up(lo) .. Down(hi) - 1 \subseteq 0 .. Up(HighestUsable) - 1
    BY <2>2, <2>3, <2>4
  <2>. QED  BY <2>2, <2>3, <2>5, <2>6
<1>5. UsableFrames \subseteq 0 .. Up(HighestUsable) - 1
  BY <1>3, <1>4
<1>6. Up(HighestUsable) \in 0 .. Total
  <2>1. Total \in Nat
    BY BuddyAssumption
  <2>2. Up(HighestUsable) <= Total
    BY <1>2, <2>1, UpFacts
  <2>. QED  BY <1>2, <2>1, <2>2, UpFacts
<1>. QED  BY <1>3, <1>4, <1>5, <1>6

(* All of such a frame is memory the firmware calls usable.                *)
LEMMA UsableFrameWhole ==
  ASSUME MapReady, NEW f \in UsableFrames
  PROVE  /\ f \in Nat /\ f * PageSize \in Nat /\ (f + 1) * PageSize \in Nat /\ f * PageSize < (f + 1) * PageSize
         /\ \A a \in f * PageSize .. (f + 1) * PageSize - 1 : a \in CoveredBy(bootinfo, "usable")
<1>1. f \in Nat
  BY UsableFramesFacts
<1>2. f * PageSize \in Nat /\ (f + 1) * PageSize \in Nat /\ f * PageSize < (f + 1) * PageSize
  BY <1>1, PageProduct
<1>. PICK lo, hi : lo = f * PageSize /\ hi = (f + 1) * PageSize
  OBVIOUS
<1>3. PICK i \in UsableEntries : memmap[i].base <= lo /\ hi <= End(memmap[i])
  BY <1>1, UsableFramesFacts
<1>4. memmap[i].base \in Nat /\ End(memmap[i]) \in Nat
  BY EntriesFacts
<1>5. \A a \in lo .. hi - 1 : a \in Nat /\ memmap[i].base <= a /\ a < End(memmap[i])
  BY <1>2, <1>3, <1>4
<1>. QED  BY <1>1, <1>2, <1>5, EntriesFacts

(* Whole frames among the boot page tables hold nothing else.              *)
LEMMA BootTablesApart ==
  ASSUME NEW lo \in Nat, NEW hi \in Nat, hi <= BootTables[1] \/ BootTables[2] <= lo,
         NEW f \in BootTableFrames
  PROVE  f \notin Frames(lo, hi) /\ f \in Nat
<1>1. /\ BootTables[1] \in Nat /\ BootTables[2] \in Nat
  BY LayoutAssumption
<1>. PICK b1, b2 : b1 = BootTables[1] /\ b2 = BootTables[2]
  OBVIOUS
<1>2. /\ Up(b1) \in Nat /\ Down(b2) \in Nat /\ Down(lo) \in Nat /\ Up(hi) \in Nat
  BY <1>1, UpFacts, DownFacts
<1>3. f \in Up(b1) .. Down(b2) - 1
  BY DEF BootTableFrames
<1>4. Up(hi) <= Up(b1) \/ Down(b2) <= Down(lo)
  BY <1>1, RoundingOrder
<1>. QED  BY <1>2, <1>3, <1>4 DEF Frames

(* The static layout ends on a page boundary above the boot tables.        *)
LEMMA LayoutTopFacts ==
  ASSUME kernelEnd \in KernelEnds
  PROVE  /\ StaticLayoutTop \in Nat /\ BootTables[2] <= StaticLayoutTop /\ kernelEnd \in Nat
         /\ \E k \in Nat : StaticLayoutTop = k * PageSize
<1>1. kernelEnd \in Nat /\ IstEnd \in Nat /\ BootTables[2] \in Nat /\ BootTables[2] <= IstEnd
  BY LayoutAssumption
<1>2. PICK m : m = MaxOf(kernelEnd, IstEnd)
  OBVIOUS
<1>3. m \in Nat /\ IstEnd <= m
  BY <1>1, <1>2 DEF MaxOf
<1>4. Up(m) \in Nat /\ m <= Up(m) * PageSize
  BY <1>3, UpFacts
<1>5. StaticLayoutTop = Up(m) * PageSize
  BY <1>2 DEF StaticLayoutTop
<1>. PICK k \in Nat : k = Up(m)
  BY <1>4
<1>6. k * PageSize \in Nat
  BY PageProduct
<1>. QED  BY <1>1, <1>3, <1>4, <1>5, <1>6

(* Where mem_map and the bitmap are.                                       *)
TableRoom(n) == (Up(n) + Up(BitmapSize(n))) * PageSize
Placed(bm) == bm.start = StaticLayoutTop /\ bm.next = StaticLayoutTop + TableRoom(Up(HighestUsable))

(* The room mem_map and the bitmap take is a number of whole pages.        *)
LEMMA TableRoomFacts ==
  ASSUME NEW n \in Nat
  PROVE  /\ Up(n) \in Nat /\ BitmapSize(n) \in Nat /\ Up(BitmapSize(n)) \in Nat
         /\ TableRoom(n) = Up(n) * PageSize + Up(BitmapSize(n)) * PageSize
         /\ TableRoom(n) \in Nat /\ Up(n) * PageSize \in Nat /\ Up(BitmapSize(n)) * PageSize \in Nat
         /\ n # 0 => BitmapSize(n) # 0 /\ TableRoom(n) > 0
<1>1. BitmapWord \in Nat \ {0} /\ PageSize \in Nat \ {0}
  BY BootAssumption
<1>. PICK w \in Nat \ {0}, x \in Nat : w = BitmapWord /\ x = n + BitmapWord - 1
  BY <1>1
<1>2. x \div w \in Nat /\ x % w \in 0 .. w - 1 /\ x = w * (x \div w) + (x % w)
  BY DivModFacts
<1>. PICK b \in Nat : b = BitmapSize(n) /\ b = x \div w
  BY <1>2 DEF BitmapSize
<1>3. n # 0 => b # 0
  <2>1. x < w => n = 0
    BY <1>1
  <2>2. b = 0 => x = x % w
    BY <1>2
  <2>. QED  BY <1>2, <2>1, <2>2
<1>4. Up(n) \in Nat /\ Up(b) \in Nat /\ n <= Up(n) * PageSize
  BY UpFacts
<1>. PICK u \in Nat, v \in Nat : u = Up(n) /\ v = Up(b)
  BY <1>4
<1>5. (u + v) * PageSize = u * PageSize + v * PageSize /\ u * PageSize \in Nat /\ v * PageSize \in Nat
  BY <1>1
<1>. QED  BY <1>3, <1>4, <1>5 DEF TableRoom

(* The bump allocator places both when the memory around the top of the    *)
(* static layout goes far enough.                                          *)
LEMMA PlacedFacts ==
  ASSUME kernelEnd \in KernelEnds, NEW n, n = Up(HighestUsable), n \in Nat,
         NEW empty, empty = InitializeBootmem,
         NEW withMap, withMap = BootmemAlloc(empty, n),
         NEW full, full = BootmemAlloc(withMap, BitmapSize(n))
  PROVE  /\ BootmemHas(empty, n) /\ BootmemHas(withMap, BitmapSize(n)) => Placed(full)
         /\ n # 0 /\ BootmemEntries # {} /\ BootmemLimit \in Nat /\ StaticLayoutTop + TableRoom(n) <= BootmemLimit =>
              BootmemHas(empty, n) /\ BootmemHas(withMap, BitmapSize(n))
<1>1. /\ Up(n) * PageSize \in Nat /\ Up(BitmapSize(n)) * PageSize \in Nat
      /\ TableRoom(n) = Up(n) * PageSize + Up(BitmapSize(n)) * PageSize
      /\ n # 0 => BitmapSize(n) # 0
  BY TableRoomFacts
<1>2. StaticLayoutTop \in Nat
  BY LayoutTopFacts
<1>. PICK a, b, top : a = Up(n) * PageSize /\ b = Up(BitmapSize(n)) * PageSize /\ top = StaticLayoutTop
  OBVIOUS
<1>3. CASE BootmemEntries = {}
  <2>1. empty.frozen
    BY <1>3 DEF InitializeBootmem
  <2>. QED  BY <1>3, <2>1 DEF BootmemHas
<1>4. CASE BootmemEntries # {}
  <2>. PICK lim : lim = BootmemLimit
    OBVIOUS
  <2>1. empty = [start |-> top, next |-> top, limit |-> lim, frozen |-> FALSE]
    BY <1>4 DEF InitializeBootmem
  <2>2. BootmemHas(empty, n) <=> n # 0 /\ top + a <= lim
    BY <2>1 DEF BootmemHas
  <2>3. ASSUME BootmemHas(empty, n)
        PROVE  withMap = [start |-> top, next |-> top + a, limit |-> lim, frozen |-> FALSE]
    <3>1. withMap = [empty EXCEPT !.next = @ + a]
      BY <2>3 DEF BootmemAlloc
    <3>. QED  BY ONLY <2>1, <3>1
  <2>4. ASSUME BootmemHas(empty, n)
        PROVE  BootmemHas(withMap, BitmapSize(n)) <=> BitmapSize(n) # 0 /\ (top + a) + b <= lim
    BY <2>3, <2>4 DEF BootmemHas
  <2>5. ASSUME BootmemHas(empty, n), BootmemHas(withMap, BitmapSize(n))
        PROVE  full = [start |-> top, next |-> (top + a) + b, limit |-> lim, frozen |-> FALSE]
    BY <2>3, <2>5 DEF BootmemAlloc
  <2>6. (top + a) + b = top + (a + b)
    BY <1>1, <1>2
  <2>7. BootmemHas(empty, n) /\ BootmemHas(withMap, BitmapSize(n)) => Placed(full)
    BY <1>1, <2>5, <2>6 DEF Placed
  <2>8. ASSUME n # 0, lim \in Nat, top + (a + b) <= lim
        PROVE  BootmemHas(empty, n) /\ BootmemHas(withMap, BitmapSize(n))
    <3>1. top + a <= lim
      BY <1>1, <1>2, <2>8
    <3>2. BootmemHas(empty, n)
      BY <2>2, <2>8, <3>1
    <3>. QED  BY <1>1, <2>4, <2>6, <2>8, <3>2
  <2>. QED  BY <1>1, <2>7, <2>8
<1>. QED  BY <1>3, <1>4
-----------------------------------------------------------------------------
InfoOK ==
  /\ bootinfo \in Seq(Entry(Types))
  /\ CoveredBy(bootinfo, "usable") \subseteq 0 .. Total * PageSize - 1

(* When no two entries disagree on an address, no address is of two types. *)
LEMMA OneTypeFacts ==
  ASSUME InfoOK, OneTypeEach
  PROVE  OneType(bootinfo)
<1>. SUFFICES ASSUME NEW t, NEW u, t # u, NEW a, a \in CoveredBy(bootinfo, t), a \in CoveredBy(bootinfo, u) PROVE FALSE
  BY DEF OneType
<1>1. bootinfo \in Seq(Entry(Types)) /\ DOMAIN bootinfo = 1 .. Len(bootinfo)
  BY DEF InfoOK
<1>2. a \in Nat
  BY <1>1, CoverFacts
<1>3. PICK i \in 1 .. Len(bootinfo) : bootinfo[i].type = t /\ bootinfo[i].base <= a /\ a < End(bootinfo[i])
  BY <1>1, <1>2, CoverFacts
<1>4. PICK j \in 1 .. Len(bootinfo) : bootinfo[j].type = u /\ bootinfo[j].base <= a /\ a < End(bootinfo[j])
  BY <1>1, <1>2, CoverFacts
<1>5. (bootinfo[i].base .. End(bootinfo[i]) - 1) \cap (bootinfo[j].base .. End(bootinfo[j]) - 1) = {}
  BY <1>1, <1>3, <1>4 DEF OneTypeEach
<1>6. /\ bootinfo[i].base \in Nat /\ End(bootinfo[i]) \in Nat
      /\ bootinfo[j].base \in Nat /\ End(bootinfo[j]) \in Nat
  BY <1>1, EntryFacts
<1>7. a \in bootinfo[i].base .. End(bootinfo[i]) - 1 /\ a \in bootinfo[j].base .. End(bootinfo[j]) - 1
  BY <1>2, <1>3, <1>4, <1>6
<1>. QED  BY <1>5, <1>7

(* The top of the machine is one above its last usable address.            *)
LEMMA MachineTopFacts ==
  ASSUME InfoOK, Machine # {}
  PROVE  /\ MachineTop \in Nat /\ MachineTop # 0 /\ MachineTop - 1 \in Machine /\ Machine \subseteq Nat
         /\ \A a \in Machine : a < MachineTop
<1>. PICK b : b = Total * PageSize
  OBVIOUS
<1>1. b \in Nat
  BY PageProduct, BuddyAssumption
<1>2. Machine \subseteq 0 .. b - 1
  BY DEF InfoOK, Machine
<1>3. Machine \subseteq 0 .. b
  BY <1>1, <1>2
<1>. PICK M : M = Machine
  OBVIOUS
<1>4. PICK x \in M : \A y \in M : y <= x
  BY ONLY <1>1, <1>3, Machine # {}, M = Machine, GreatestMember
<1>5. M \subseteq Nat
  BY <1>1, <1>3
<1>6. \E t \in {a + 1 : a \in M} : \A a \in M : a < t
  <2>1. \A a \in M : a < x + 1
    BY <1>4, <1>5
  <2>. QED  BY <2>1
<1>7. MachineTop \in {a + 1 : a \in M} /\ \A a \in M : a < MachineTop
  BY <1>6, Zenon DEF MachineTop
<1>8. PICK a \in M : MachineTop = a + 1
  BY <1>7
<1>9. a \in Nat /\ (a + 1) - 1 = a
  BY <1>5
<1>. QED  BY <1>5, <1>7, <1>8, <1>9

(* The map's highest usable address is the machine's. *)
LEMMA HighestIsTop ==
  ASSUME InfoOK, MapReady, Machine # {}
  PROVE  HighestUsable = MachineTop
<1>1. /\ MachineTop \in Nat /\ MachineTop # 0 /\ MachineTop - 1 \in Machine
      /\ \A a \in Machine : a < MachineTop
  BY MachineTopFacts
<1>2. /\ HighestUsable \in Nat
      /\ \A i \in UsableEntries : End(memmap[i]) <= HighestUsable
      /\ UsableEntries # {} => \E i \in UsableEntries : End(memmap[i]) = HighestUsable
  BY HighestFacts
<1>3. \A a \in Nat : a \in Machine <=> \E i \in UsableEntries : memmap[i].base <= a /\ a < End(memmap[i])
  BY EntriesFacts DEF Machine
<1>4. \A i \in UsableEntries : memmap[i].base \in Nat /\ End(memmap[i]) \in Nat /\ memmap[i].base < End(memmap[i])
  BY EntriesFacts
<1>5. PICK i \in UsableEntries : memmap[i].base <= MachineTop - 1 /\ MachineTop - 1 < End(memmap[i])
  <2>1. MachineTop - 1 \in Nat
    BY <1>1
  <2>. QED  BY <1>1, <1>3, <2>1
<1>6. MachineTop <= HighestUsable
  BY <1>1, <1>2, <1>4, <1>5
<1>7. PICK j \in UsableEntries : End(memmap[j]) = HighestUsable
  BY <1>2, <1>5
<1>8. HighestUsable - 1 \in Machine
  <2>. PICK a : a = HighestUsable - 1
    OBVIOUS
  <2>1. a \in Nat /\ memmap[j].base <= a /\ a < End(memmap[j])
    BY <1>2, <1>4, <1>7
  <2>. QED  BY <1>3, <2>1
<1>9. HighestUsable - 1 < MachineTop
  BY <1>1, <1>8
<1>. QED  BY <1>1, <1>2, <1>6, <1>9

(* On a consistent table an unbroken usable stretch lies in one entry.     *)
LEMMA StretchFacts ==
  ASSUME InfoOK, MapReady, OneTypeEach, NEW lo \in Nat, NEW hi \in Nat, lo < hi, lo .. hi - 1 \subseteq Machine
  PROVE  \E i \in UsableEntries : memmap[i].base <= lo /\ hi <= End(memmap[i])
<1>1. /\ UsableEntries \subseteq 1 .. Len(memmap)
      /\ \A i \in UsableEntries : memmap[i].base \in Nat /\ End(memmap[i]) \in Nat /\ memmap[i].base < End(memmap[i])
                                  /\ memmap[i].type = "usable" /\ i \in Nat
      /\ \A a \in Nat : a \in Machine <=> \E i \in UsableEntries : memmap[i].base <= a /\ a < End(memmap[i])
  <2>1. /\ UsableEntries \subseteq 1 .. Len(memmap)
        /\ \A a \in Nat : a \in Machine <=> \E i \in UsableEntries : memmap[i].base <= a /\ a < End(memmap[i])
    BY EntriesFacts DEF Machine
  <2>2. \A i \in UsableEntries : memmap[i].base \in Nat /\ End(memmap[i]) \in Nat /\ memmap[i].base < End(memmap[i])
                                  /\ memmap[i].type = "usable" /\ i \in Nat
    BY <2>1, EntriesFacts
  <2>. QED  BY <2>1, <2>2
<1>2. \A i, j \in UsableEntries : i < j => End(memmap[i]) < memmap[j].base
  BY <1>1, OneTypeFacts DEF MapReady, MapOf, Separate
<1>3. \A a \in Nat : lo <= a /\ a < hi => a \in Machine
  OBVIOUS
<1>4. PICK i \in UsableEntries : memmap[i].base <= lo /\ lo < End(memmap[i])
  <2>1. lo \in Machine
    BY <1>3
  <2>. QED  BY <1>1, <2>1
<1>5. ASSUME End(memmap[i]) < hi PROVE FALSE
  <2>1. End(memmap[i]) \in Machine
    BY <1>1, <1>3, <1>4, <1>5
  <2>2. PICK j \in UsableEntries : memmap[j].base <= End(memmap[i]) /\ End(memmap[i]) < End(memmap[j])
    BY <1>1, <2>1
  <2>3. i = j \/ i < j \/ j < i
    BY <1>1
  <2>4. ~(i < j)
    BY <1>1, <1>2, <2>2
  <2>5. ~(j < i)
    <3>1. j < i => End(memmap[j]) < memmap[i].base
      BY <1>2
    <3>. QED  BY <1>1, <2>2, <3>1
  <2>. QED  BY <1>1, <2>2, <2>3, <2>4, <2>5
<1>. QED  BY <1>1, <1>4, <1>5

(* So kInitializeBootmem finds room on a machine that has it.              *)
LEMMA RoomFacts ==
  ASSUME InfoOK, MapReady, kernelEnd \in KernelEnds, OneTypeEach, Machine # {},
         NEW n, n = Up(MachineTop), StaticLayoutTop .. StaticLayoutTop + TableRoom(n) - 1 \subseteq Machine
  PROVE  n = Up(HighestUsable) /\ n \in Nat /\ n # 0 /\ BootmemEntries # {} /\ BootmemLimit \in Nat
         /\ StaticLayoutTop + TableRoom(n) <= BootmemLimit
<1>1. n = Up(HighestUsable)
  BY HighestIsTop
<1>2. n \in Nat /\ n # 0
  <2>1. MachineTop \in Nat /\ MachineTop # 0
    BY MachineTopFacts
  <2>2. Up(MachineTop) \in Nat /\ MachineTop <= Up(MachineTop) * PageSize
    BY <2>1, UpFacts
  <2>3. 0 * PageSize = 0
    BY PageProduct
  <2>. QED  BY <2>1, <2>2, <2>3
<1>. PICK lo, room : lo = StaticLayoutTop /\ room = TableRoom(n)
  OBVIOUS
<1>3. lo \in Nat /\ \E k \in Nat : lo = k * PageSize
  BY LayoutTopFacts
<1>4. room \in Nat /\ room > 0 /\ \E k \in Nat : room = k * PageSize
  <2>1. room \in Nat /\ room > 0 /\ Up(n) \in Nat /\ Up(BitmapSize(n)) \in Nat
    BY <1>2, TableRoomFacts
  <2>2. Up(n) + Up(BitmapSize(n)) \in Nat
    BY <2>1
  <2>. QED  BY <2>1, <2>2 DEF TableRoom
<1>5. PICK k \in Nat : lo + room = k * PageSize
  <2>1. PICK i \in Nat, j \in Nat : lo = i * PageSize /\ room = j * PageSize
    BY <1>3, <1>4
  <2>2. (i + j) * PageSize = i * PageSize + j * PageSize /\ i + j \in Nat
    BY BootAssumption
  <2>. QED  BY <2>1, <2>2
<1>. PICK hi \in Nat : hi = lo + room
  BY <1>3, <1>4
<1>6. PICK i \in UsableEntries : memmap[i].base <= lo /\ hi <= End(memmap[i])
  <2>1. lo \in Nat /\ lo < hi /\ lo .. hi - 1 \subseteq Machine
    BY <1>3, <1>4
  <2>. QED  BY <2>1, StretchFacts
<1>7. /\ UsableEntries \subseteq 1 .. Len(memmap)
      /\ \A j \in UsableEntries : memmap[j].base \in Nat /\ End(memmap[j]) \in Nat /\ memmap[j].base < End(memmap[j])
                                  /\ memmap[j].type = "usable"
  <2>1. UsableEntries \subseteq 1 .. Len(memmap)
    BY EntriesFacts
  <2>. QED  BY <2>1, EntriesFacts
<1>8. \A j, l \in UsableEntries : j < l => End(memmap[j]) < memmap[l].base
  BY <1>7, OneTypeFacts DEF MapReady, MapOf, Separate
<1>9. i \in BootmemEntries
  BY <1>3, <1>4, <1>6, <1>7 DEF BootmemEntries
<1>10. ASSUME NEW j \in BootmemEntries PROVE j = i
  <2>1. j \in UsableEntries /\ memmap[j].base <= lo /\ lo < End(memmap[j])
    BY DEF BootmemEntries
  <2>2. i \in Nat /\ j \in Nat
    BY <1>7, <2>1
  <2>3. ~(i < j)
    <3>1. i < j => End(memmap[i]) < memmap[j].base
      BY <1>8, <2>1
    <3>. QED  BY <1>3, <1>4, <1>6, <1>7, <2>1, <3>1, SMTT(30)
  <2>4. ~(j < i)
    <3>1. j < i => End(memmap[j]) < memmap[i].base
      BY <1>8, <2>1
    <3>. QED  BY <1>3, <1>6, <1>7, <2>1, <3>1
  <2>. QED  BY <2>2, <2>3, <2>4
<1>11. (CHOOSE j \in BootmemEntries : \A l \in BootmemEntries : j <= l) = i
  <2>1. \E j \in BootmemEntries : \A l \in BootmemEntries : j <= l
    <3>1. i <= i
      BY <1>7
    <3>. QED  BY <1>9, <1>10, <3>1
  <2>. QED  BY <1>10, <2>1, Zenon
<1>12. BootmemLimit = Down(End(memmap[i])) * PageSize
  BY <1>11 DEF BootmemLimit
<1>13. hi <= Down(End(memmap[i])) * PageSize /\ Down(End(memmap[i])) * PageSize \in Nat
  <2>. PICK e \in Nat : e = End(memmap[i])
    BY <1>7
  <2>1. Down(k * PageSize) = k /\ k * PageSize \in Nat
    BY WholePages, PageProduct
  <2>2. hi = k * PageSize /\ hi <= e
    BY <1>5, <1>6
  <2>3. k <= Down(e) /\ Down(e) \in Nat
    BY <2>1, <2>2, RoundingOrder, DownFacts
  <2>4. PageSize \in Nat
    BY BootAssumption
  <2>5. k * PageSize <= Down(e) * PageSize
    BY <2>3, <2>4, ProductOrder
  <2>. QED  BY <2>2, <2>3, <2>5, PageProduct
<1>. QED  BY <1>1, <1>2, <1>9, <1>12, <1>13

(* Every frame that is memory altogether is among the usable frames.       *)
LEMMA WholeFrames ==
  ASSUME InfoOK, MapReady, OneTypeEach, NEW f \in Nat, f * PageSize .. (f + 1) * PageSize - 1 \subseteq Machine
  PROVE  f \in UsableFrames
<1>. PICK lo, hi : lo = f * PageSize /\ hi = (f + 1) * PageSize
  OBVIOUS
<1>1. lo \in Nat /\ hi \in Nat /\ lo < hi /\ lo .. hi - 1 \subseteq Machine
  <2>1. hi = lo + PageSize /\ lo \in Nat /\ PageSize \in Nat \ {0}
    BY PageProduct
  <2>2. lo .. hi - 1 \subseteq Machine
    OBVIOUS
  <2>. QED  BY ONLY <2>1, <2>2
<1>2. \E i \in UsableEntries : memmap[i].base <= lo /\ hi <= End(memmap[i])
  BY <1>1, StretchFacts
<1>. QED  BY <1>2, UsableFramesFacts
-----------------------------------------------------------------------------
(* The invariant of boot. *)
BeforeMap == {"bios", "kernel32", "area", "memmap", "halt_memsize", "halt_area"}
InUse == {"paging", "halt_paging", "faulted", "unreserve", "running"}

Untouched ==
  bitmap = {} /\ reserved = {} /\ held = {} /\ refused = FALSE /\ DOMAIN tables = {}

(* The frames that are free or handed out, and what they may be.           *)
Mine == bitmap \union UNION {Span(b) : b \in held}
MineOK == Mine \subseteq (UsableFrames \ KernelFrames(bootmem))
                         \union (IF phase = "running" THEN BootTableFrames ELSE {})

TablesIn(made, wanted, blocks) ==
  /\ IsFiniteSet(DOMAIN made)
  /\ Cardinality(DOMAIN made) <= Len(wanted)
  /\ DOMAIN made = {wanted[i] : i \in 1 .. Cardinality(DOMAIN made)}
  /\ \A t \in DOMAIN made : <<made[t], 0>> \in blocks

TablesOK == TablesIn(tables, Wanted, held)

Counted == Cardinality(bitmap) + Cardinality(DOMAIN tables) = Cardinality(UsableFrames \ KernelFrames(bootmem))

BootInv ==
  /\ FramesInv /\ InfoOK
  /\ firmware \in Firmwares /\ kernelEnd \in KernelEnds
  /\ phase \in BeforeMap \union {"pmm", "halt_pmm"} \union InUse
  /\ phase \in BeforeMap => memmap = <<>>
  /\ phase \notin BeforeMap => MapReady
  /\ phase \notin InUse => Untouched
  /\ phase \in InUse => Placed(bootmem) /\ MineOK /\ TablesOK
  /\ phase = "paging" => Counted
  /\ cr3 = IF phase \in {"unreserve", "running"} THEN "kernel" ELSE "boot"
  /\ SufficientMachinesBoot

(* What rests on the firmware and its table alone stays with them.         *)
LEMMA SameInfo ==
  ASSUME UNCHANGED <<firmware, bootinfo>>
  PROVE  Types' = Types /\ (InfoOK => InfoOK') /\ Machine' = Machine /\ (OneTypeEach' <=> OneTypeEach)
BY DEF Types, InfoOK, Machine, OneTypeEach

(* What rests on the map and the image alone stays with them.              *)
LEMMA SameMap ==
  ASSUME UNCHANGED <<firmware, bootinfo, memmap, kernelEnd>>
  PROVE  /\ (MapReady => MapReady') /\ UsableEntries' = UsableEntries /\ HighestUsable' = HighestUsable
         /\ UsableFrames' = UsableFrames /\ Wanted' = Wanted /\ StaticLayoutTop' = StaticLayoutTop
         /\ (Suffices' <=> Suffices)
         /\ \A bm : KernelFrames(bm)' = KernelFrames(bm)
<1>1. MapReady => MapReady'
  BY DEF MapReady, Types
<1>2. UsableEntries' = UsableEntries
  BY DEF UsableEntries
<1>3. HighestUsable' = HighestUsable
  BY <1>2 DEF HighestUsable
<1>4. UsableFrames' = UsableFrames
  BY <1>2 DEF UsableFrames
<1>5. Wanted' = Wanted
  BY <1>3 DEF Wanted, BeforeImage, DirectTables
<1>6. StaticLayoutTop' = StaticLayoutTop
  BY DEF StaticLayoutTop
<1>7. \A bm : KernelFrames(bm)' = KernelFrames(bm)
  BY DEF KernelFrames
<1>8. Machine' = Machine
  BY DEF Machine
<1>9. MachineTop' = MachineTop
  BY <1>8 DEF MachineTop
<1>10. (OneTypeEach' <=> OneTypeEach) /\ (ImageFits' <=> ImageFits)
  BY DEF OneTypeEach, ImageFits
<1>11. Suffices' <=> Suffices
  BY <1>5, <1>6, <1>7, <1>8, <1>9, <1>10 DEF Suffices
<1>. QED  BY <1>1, <1>2, <1>3, <1>4, <1>5, <1>6, <1>7, <1>11

(* A step that leaves the frames alone.                                    *)
LEMMA SameFrames ==
  ASSUME FramesInv, UNCHANGED buddyVars
  PROVE  FramesInv' /\ Mine' = Mine
<1>1. FramesInv'
  BY StutterPreserves DEF FramesInv, buddyVars
<1>. QED  BY <1>1 DEF buddyVars, Mine
-----------------------------------------------------------------------------
(* The machine at power-on.                                                *)
LEMMA InitInv ==
  ASSUME Init
  PROVE  BootInv
<1>1. FramesInv
  BY NoFramesInv DEF Init
<1>2. InfoOK
  <2>1. bootinfo = <<>> /\ <<>> \in Seq(Entry(Types))
    BY DEF Init
  <2>2. CoveredBy(<<>>, "usable") = {}
    BY DEF CoveredBy
  <2>. QED  BY <2>1, <2>2 DEF InfoOK
<1>3. Untouched
  <2>1. DOMAIN <<>> = {}
    OBVIOUS
  <2>. QED  BY <2>1 DEF Init, NoFrames, Untouched
<1>4. SufficientMachinesBoot
  BY DEF Init, SufficientMachinesBoot, Failed
<1>. QED  BY <1>1, <1>2, <1>3, <1>4 DEF Init, BootInv, BeforeMap, InUse

(* EntryPoint.s copies answers of the firmware and makes none up.          *)
LEMMA CollectInv ==
  ASSUME BootInv, CollectE820
  PROVE  BootInv'
<1>1. /\ phase = "bios" /\ phase' = "kernel32" /\ UNCHANGED buddyVars
      /\ UNCHANGED <<firmware, kernelEnd, memmap, tables, cr3>>
  BY DEF CollectE820, Advance
<1>. PICK before : before = {pair \in Answers \X Answers : pair[1] < pair[2]}
  OBVIOUS
<1>. PICK kept : kept = Arranged(Answers, before)
  OBVIOUS
<1>. PICK n : n = IF Len(kept) < MaxEntries THEN Len(kept) ELSE MaxEntries
  OBVIOUS
<1>2. bootinfo' = [i \in 1 .. n |-> [base |-> firmware[kept[i]].base, len |-> firmware[kept[i]].len,
                                     type |-> firmware[kept[i]].type]]
  BY DEF CollectE820
<1>3. /\ Len(firmware) \in Nat /\ DOMAIN firmware = 1 .. Len(firmware)
      /\ \A i \in DOMAIN firmware :
           /\ firmware[i].base \in Nat /\ firmware[i].len \in Nat
           /\ firmware[i].type = "usable" => firmware[i].base + firmware[i].len <= Total * PageSize
  BY FirmwareAssumption DEF BootInv
<1>4. IsFiniteSet(Answers) /\ Answers \subseteq 1 .. Len(firmware)
  <2>1. IsFiniteSet(1 .. Len(firmware)) /\ Answers \subseteq 1 .. Len(firmware)
    BY <1>3, FS_Interval DEF Answers
  <2>. QED  BY <2>1, FS_Subset
<1>5. StrictOrder(Answers, before)
  <2>1. \A i, j \in Answers : <<i, j>> \in before <=> i < j
    OBVIOUS
  <2>2. \A i \in Answers : i \in Nat
    BY <1>3, <1>4
  <2>. QED  BY <2>1, <2>2 DEF StrictOrder
<1>6. /\ Len(kept) \in Nat /\ \A i \in 1 .. Len(kept) : kept[i] \in DOMAIN firmware
  <2>1. InOrder(kept, Answers, before)
    BY <1>4, <1>5, ArrangedFacts
  <2>2. Len(kept) \in Nat /\ kept \in Seq(Answers)
    BY <2>1 DEF InOrder
  <2>3. \A i \in 1 .. Len(kept) : kept[i] \in Answers
    BY <2>2
  <2>. QED  BY <1>3, <1>4, <2>2, <2>3
<1>7. n \in Nat /\ 1 .. n \subseteq 1 .. Len(kept)
  BY <1>6, BootAssumption
<1>8. \A i \in 1 .. n : kept[i] \in DOMAIN firmware
  BY <1>6, <1>7
<1>. PICK info, T : info = bootinfo' /\ T = Types
  OBVIOUS
<1>9. info \in Seq(Entry(T)) /\ Len(info) = n
  <2>1. \A i \in 1 .. n : info[i] \in Entry(T)
    BY <1>2, <1>3, <1>8 DEF Entry, Types
  <2>2. DOMAIN info = 1 .. n
    BY <1>2
  <2>3. info = [i \in 1 .. n |-> info[i]]
    BY <1>2
  <2>4. info \in [1 .. n -> Entry(T)]
    BY ONLY <2>1, <2>2, <2>3
  <2>. QED  BY ONLY <1>7, <2>4, SMTT(30)
<1>10. CoveredBy(info, "usable") \subseteq 0 .. Total * PageSize - 1
  <2>. SUFFICES ASSUME NEW a \in CoveredBy(info, "usable") PROVE a \in 0 .. Total * PageSize - 1
    OBVIOUS
  <2>1. a \in Nat
    BY <1>9, CoverFacts
  <2>2. PICK i \in 1 .. n : info[i].type = "usable" /\ info[i].base <= a /\ a < End(info[i])
    BY <1>9, <2>1, CoverFacts
  <2>3. info[i].base = firmware[kept[i]].base /\ info[i].len = firmware[kept[i]].len /\ info[i].type = firmware[kept[i]].type
    BY <1>2
  <2>. PICK b : b = Total * PageSize
    OBVIOUS
  <2>4. End(info[i]) \in Nat /\ End(info[i]) <= b /\ b \in Nat
    <3>1. b \in Nat
      BY PageProduct, BuddyAssumption
    <3>2. firmware[kept[i]].base + firmware[kept[i]].len <= b
      BY <1>3, <1>8, <2>2, <2>3
    <3>. QED  BY <1>3, <1>8, <2>3, <3>1, <3>2 DEF End
  <2>. QED  BY <2>1, <2>2, <2>4
<1>11. InfoOK'
  <2>1. Types' = Types
    BY <1>1 DEF Types
  <2>. QED  BY <1>9, <1>10, <2>1 DEF InfoOK
<1>12. FramesInv'
  BY <1>1, SameFrames DEF BootInv
<1>13. Untouched'
  BY <1>1 DEF BootInv, InUse, Untouched, buddyVars
<1>. QED  BY <1>1, <1>11, <1>12, <1>13 DEF BootInv, BeforeMap, InUse, SufficientMachinesBoot, Failed

(* kCheckMemSizeOvr64MB stops no machine with a large enough top.          *)
LEMMA CheckInv ==
  ASSUME BootInv, CheckMemSize
  PROVE  BootInv'
<1>1. /\ phase = "kernel32" /\ phase' = IF BigEnough THEN "area" ELSE "halt_memsize"
      /\ UNCHANGED buddyVars /\ UNCHANGED <<firmware, kernelEnd, bootinfo, memmap, bootmem, tables, cr3>>
  BY DEF CheckMemSize, Advance
<1>2. FramesInv' /\ InfoOK'
  BY <1>1, SameFrames, SameInfo DEF BootInv
<1>3. Untouched' /\ memmap' = <<>>
  BY <1>1 DEF BootInv, InUse, BeforeMap, Untouched, buddyVars
<1>4. ASSUME ~BigEnough PROVE ~Suffices
  <2>. SUFFICES ASSUME Suffices PROVE FALSE
    OBVIOUS
  <2>1. InfoOK /\ Machine # {} /\ MachineTop >= MinTop
    BY DEF Suffices, BootInv
  <2>. PICK a : a = MachineTop - 1
    OBVIOUS
  <2>2. a \in Machine /\ a \in Nat /\ MachineTop = a + 1
    BY <2>1, MachineTopFacts
  <2>3. bootinfo \in Seq(Entry(Types)) /\ DOMAIN bootinfo = 1 .. Len(bootinfo)
    BY <2>1 DEF InfoOK
  <2>4. PICK i \in 1 .. Len(bootinfo) : bootinfo[i].type = "usable" /\ bootinfo[i].base <= a /\ a < End(bootinfo[i])
    BY <2>2, <2>3, CoverFacts DEF Machine
  <2>5. End(bootinfo[i]) \in Nat /\ MinTop \in Nat
    BY <2>3, EntryFacts, LayoutAssumption
  <2>6. End(bootinfo[i]) >= MinTop
    BY <2>1, <2>2, <2>4, <2>5
  <2>. QED  BY <1>4, <2>3, <2>4, <2>6 DEF BigEnough, Usable
<1>5. Suffices' <=> Suffices
  BY <1>1, SameMap
<1>6. SufficientMachinesBoot'
  BY <1>1, <1>4, <1>5 DEF SufficientMachinesBoot, Failed
<1>. QED  BY <1>1, <1>2, <1>3, <1>6 DEF BootInv, BeforeMap, InUse

(* kInitKernel64Area stops no machine whose memory below 6 MB is usable.   *)
LEMMA AreaInv ==
  ASSUME BootInv, InitKernel64Area
  PROVE  BootInv'
<1>1. /\ phase = "area" /\ UNCHANGED buddyVars /\ UNCHANGED <<firmware, kernelEnd, bootinfo, memmap, bootmem, tables, cr3>>
      /\ \/ phase' = "memmap"
         \/ phase' = "halt_area" /\ ~(Zeroed[1] .. Zeroed[2] - 1 \subseteq Machine)
  BY DEF InitKernel64Area, Advance, Machine
<1>2. FramesInv' /\ InfoOK'
  BY <1>1, SameFrames, SameInfo DEF BootInv
<1>3. Untouched' /\ memmap' = <<>>
  BY <1>1 DEF BootInv, InUse, BeforeMap, Untouched, buddyVars
<1>4. Suffices' <=> Suffices
  BY <1>1, SameMap
<1>5. SufficientMachinesBoot'
  BY <1>1, <1>4 DEF SufficientMachinesBoot, Suffices, Failed
<1>. QED  BY <1>1, <1>2, <1>3, <1>5 DEF BootInv, BeforeMap, InUse

(* kInitializeMemoryMap makes the map the firmware described.              *)
LEMMA MemoryMapInv ==
  ASSUME BootInv, InitializeMemoryMap
  PROVE  BootInv'
<1>1. /\ phase = "memmap" /\ phase' = "pmm" /\ UNCHANGED buddyVars
      /\ UNCHANGED <<firmware, kernelEnd, bootinfo, bootmem, tables, cr3>>
      /\ memmap' = Merged(SortedMap(bootinfo))
  BY DEF InitializeMemoryMap, Advance
<1>2. FramesInv' /\ InfoOK' /\ Types' = Types
  BY <1>1, SameFrames, SameInfo DEF BootInv
<1>3. MapReady'
  <2>1. MapOf(memmap', bootinfo, Types)
    BY <1>1, MapFacts DEF BootInv, InfoOK
  <2>. QED  BY <1>1, <1>2, <2>1 DEF MapReady, InfoOK
<1>4. Untouched'
  BY <1>1 DEF BootInv, InUse, Untouched, buddyVars
<1>5. SufficientMachinesBoot'
  BY <1>1 DEF SufficientMachinesBoot, Failed
<1>. QED  BY <1>1, <1>2, <1>3, <1>4, <1>5 DEF BootInv, BeforeMap, InUse

(* kInitializePhysicalMemory: either mem_map and the bitmap have a place,  *)
(* and what is usable and not the kernel's is free; or the machine is one  *)
(* that cannot hold them.                                                  *)
LEMMA PhysicalInv ==
  ASSUME BootInv, InitializePhysicalMemory
  PROVE  BootInv'
<1>. PICK n, empty : n = Up(HighestUsable) /\ empty = InitializeBootmem
  OBVIOUS
<1>. PICK withMap : withMap = BootmemAlloc(empty, n)
  OBVIOUS
<1>. PICK full : full = BootmemAlloc(withMap, BitmapSize(n))
  OBVIOUS
<1>. DEFINE placed == BootmemHas(empty, n) /\ BootmemHas(withMap, BitmapSize(n))
            taken == KernelFrames(full) \cap 0 .. n - 1
            free == (UsableFrames \cap 0 .. n - 1) \ taken
<1>1. /\ phase = "pmm" /\ UNCHANGED <<firmware, kernelEnd, bootinfo, memmap, tables, cr3>>
      /\ \/ /\ placed /\ phase' = "paging"
            /\ bootmem' = [full EXCEPT !.frozen = TRUE]
            /\ TakeOver(n, free, taken)
         \/ /\ ~placed /\ phase' = "halt_pmm"
            /\ total' = IF n = 0 \/ empty.frozen THEN total ELSE n
            /\ UNCHANGED <<bitmap, reserved, buddy, order, area, freePages, held, refused>>
  BY DEF InitializePhysicalMemory, Advance
<1>2. /\ FramesInv /\ InfoOK /\ MapReady /\ bitmap = {} /\ reserved = {} /\ held = {} /\ refused = FALSE
      /\ DOMAIN tables = {} /\ kernelEnd \in KernelEnds /\ cr3 = "boot" /\ firmware \in Firmwares
  BY <1>1 DEF BootInv, BeforeMap, InUse, Untouched
<1>3. n \in 0 .. Total /\ UsableFrames \subseteq 0 .. n - 1 /\ n \in Nat
  BY <1>2, UsableFramesFacts
<1>4. InfoOK' /\ MapReady'
  BY <1>1, <1>2, SameInfo, SameMap
<1>5. CASE placed /\ phase' = "paging" /\ bootmem' = [full EXCEPT !.frozen = TRUE] /\ TakeOver(n, free, taken)
  <2>1. FramesInv'
    <3>. PICK F, K : F = free /\ K = taken
      OBVIOUS
    <3>1. F \subseteq 0 .. n - 1 /\ K \subseteq 0 .. n - 1 /\ F \cap K = {} /\ TakeOver(n, F, K)
      BY <1>5
    <3>. QED  BY <1>2, <1>3, <3>1, TakeOverPreserves
  <2>2. Placed(full)
    BY <1>2, <1>3, <1>5, PlacedFacts
  <2>3. bootmem'.start = full.start /\ bootmem'.next = full.next
    <3>1. full.start = full.start /\ bootmem' = [full EXCEPT !.frozen = TRUE]
      BY <1>5
    <3>. QED  BY <3>1
  <2>4. Placed(bootmem)'
    BY <1>1, <2>2, <2>3, SameMap DEF Placed
  <2>5. KernelFrames(bootmem)' = KernelFrames(full)
    BY <1>1, <2>3 DEF KernelFrames
  <2>6. UsableFrames' = UsableFrames
    BY <1>1, SameMap
  <2>7. bitmap' = UsableFrames \ KernelFrames(full) /\ held' = {}
    BY <1>2, <1>3, <1>5 DEF TakeOver
  <2>8. MineOK'
    BY <2>5, <2>6, <2>7 DEF MineOK, Mine
  <2>9. DOMAIN tables' = {} /\ Cardinality({}) = 0 /\ IsFiniteSet({})
    BY <1>1, <1>2, FS_EmptySet
  <2>10. TablesOK'
    <3>1. Len(Wanted) \in Nat
      BY <1>2, HighestFacts, WantedFacts
    <3>2. Wanted' = Wanted
      BY <1>1, SameMap
    <3>3. 1 .. 0 = {}
      OBVIOUS
    <3>4. {Wanted[i] : i \in 1 .. 0} = {}
      BY <3>3
    <3>5. TablesIn(tables', Wanted', held')
      BY <2>9, <3>1, <3>2, <3>4 DEF TablesIn
    <3>. QED  BY <3>5 DEF TablesOK
  <2>11. Counted'
    <3>1. Cardinality(bitmap') \in Nat
      BY <2>1, PfnFinite, FS_Subset, FS_CardinalityType DEF FramesInv
    <3>2. bitmap' = (UsableFrames \ KernelFrames(bootmem))'
      BY <2>5, <2>6, <2>7
    <3>. QED  BY <2>9, <3>1, <3>2 DEF Counted
  <2>12. SufficientMachinesBoot'
    BY <1>5 DEF SufficientMachinesBoot, Failed
  <2>. QED  BY <1>1, <1>2, <1>4, <1>5, <2>1, <2>4, <2>8, <2>10, <2>11, <2>12 DEF BootInv, BeforeMap, InUse
<1>6. CASE /\ ~placed /\ phase' = "halt_pmm"
           /\ total' = IF n = 0 \/ empty.frozen THEN total ELSE n
           /\ UNCHANGED <<bitmap, reserved, buddy, order, area, freePages, held, refused>>
  <2>1. FramesInv'
    <3>1. Listed' = Listed
      BY <1>6 DEF Listed
    <3>2. total' \in 0 .. Total
      BY <1>2, <1>3, <1>6 DEF FramesInv
    <3>3. reserved = {}
      BY <1>1 DEF BootInv, BeforeMap, InUse, Untouched
    <3>. QED  BY <1>2, <1>6, <3>1, <3>2, <3>3 DEF FramesInv, HeldOK
  <2>2. Untouched'
    BY <1>1, <1>2, <1>6 DEF Untouched
  <2>3. ~Suffices
    <3>. SUFFICES ASSUME Suffices PROVE FALSE
      OBVIOUS
    <3>. PICK m : m = Up(MachineTop)
      OBVIOUS
    <3>1. OneTypeEach /\ Machine # {}
      BY DEF Suffices
    <3>. PICK bm : bm = [start |-> StaticLayoutTop, next |-> StaticLayoutTop + TableRoom(m)]
      OBVIOUS
    <3>4. bm.start .. bm.next - 1 \subseteq Machine
      BY DEF Suffices, TableRoom
    <3>6. bm.start = StaticLayoutTop /\ bm.next = StaticLayoutTop + TableRoom(m)
      OBVIOUS
    <3>2. StaticLayoutTop .. StaticLayoutTop + TableRoom(m) - 1 \subseteq Machine
      <4>1. StaticLayoutTop \in Nat /\ TableRoom(m) \in Nat
        <5>1. MachineTop \in Nat
          BY <1>2, <3>1, MachineTopFacts
        <5>. QED  BY <1>2, <5>1, UpFacts, TableRoomFacts, LayoutTopFacts
      <4>. QED  BY ONLY <3>4, <3>6, <4>1
    <3>3. m = n /\ m # 0 /\ BootmemEntries # {} /\ BootmemLimit \in Nat /\ StaticLayoutTop + TableRoom(m) <= BootmemLimit
      BY <1>2, <3>1, <3>2, RoomFacts
    <3>5. placed
      BY <1>2, <1>3, <3>3, PlacedFacts
    <3>. QED  BY <1>6, <3>5
  <2>4. SufficientMachinesBoot'
    BY <1>1, <2>3, SameMap DEF SufficientMachinesBoot
  <2>. QED  BY <1>1, <1>2, <1>4, <1>6, <2>1, <2>2, <2>4 DEF BootInv, BeforeMap, InUse
<1>. QED  BY <1>1, <1>5, <1>6

(* An allocation uses frames that were free and moves no held block.       *)
LEMMA AllocKeeps ==
  ASSUME FramesInv, NEW o \in Order, AllocPages(o)
  PROVE  FramesInv' /\ Mine' \subseteq Mine /\ held \subseteq held'
<1>1. PICK p \in Pfn : /\ FramesInv' /\ Run(p, o) \subseteq bitmap /\ bitmap' = bitmap \ Run(p, o)
                       /\ held' = held \union {<<p, o>>}
  BY AllocPreserves
<1>2. Span(<<p, o>>) = Run(p, o)
  BY DEF Span
<1>3. ASSUME NEW b \in held' PROVE Span(b) \subseteq Mine
  <2>1. CASE b \in held
    BY <2>1 DEF Mine
  <2>2. CASE b = <<p, o>>
    BY <1>1, <1>2, <2>2 DEF Mine
  <2>. QED  BY <1>1, <2>1, <2>2
<1>4. Mine' \subseteq Mine
  <2>1. Mine' = bitmap' \union UNION {Span(b) : b \in held'}
    BY DEF Mine, Span, Run
  <2>2. bitmap' \subseteq Mine
    BY <1>1 DEF Mine
  <2>. QED  BY <1>3, <2>1, <2>2
<1>. QED  BY <1>1, <1>4

(* kAllocPage takes one free frame.                                        *)
LEMMA OneFrame ==
  ASSUME FramesInv, AllocPages(0)
  PROVE  \E p \in bitmap : /\ bitmap' = bitmap \ {p} /\ held' = held \union {<<p, 0>>}
                           /\ \A f : <<f, 0>> \in held' \ held => f = p
<1>1. 0 \in Order
  BY BuddyAssumption DEF Order
<1>2. PICK p \in Pfn : /\ Run(p, 0) \subseteq bitmap /\ bitmap' = bitmap \ Run(p, 0)
                       /\ <<p, 0>> \notin held /\ held' = held \union {<<p, 0>>}
  BY <1>1, AllocPreserves
<1>3. Run(p, 0) = {p}
  <2>1. p \in Nat /\ 2^0 = 1
    BY PowerAssumption DEF Pfn
  <2>. QED  BY <2>1 DEF Run
<1>. QED  BY <1>2, <1>3

(* What a step that leaves the machine and its map alone keeps.            *)
LEMMA SameMachine ==
  ASSUME BootInv, phase \in InUse, phase' \in InUse, FramesInv',
         UNCHANGED <<firmware, kernelEnd, bootinfo, memmap, bootmem>>
  PROVE  /\ InfoOK' /\ MapReady' /\ Placed(bootmem)' /\ Wanted' = Wanted
         /\ UsableFrames' = UsableFrames /\ KernelFrames(bootmem)' = KernelFrames(bootmem)
         /\ phase' \notin BeforeMap /\ (Suffices' <=> Suffices)
         /\ Len(Wanted) \in Nat /\ \A i, j \in 1 .. Len(Wanted) : Wanted[i] = Wanted[j] => i = j
<1>1. InfoOK /\ MapReady /\ Placed(bootmem)
  BY DEF BootInv, BeforeMap, InUse
<1>2. Placed(bootmem)'
  <2>1. HighestUsable' = HighestUsable /\ StaticLayoutTop' = StaticLayoutTop
    BY SameMap
  <2>2. TableRoom(Up(HighestUsable))' = TableRoom(Up(HighestUsable))
    BY <2>1 DEF TableRoom, Up, BitmapSize
  <2>. QED  BY <1>1, <2>1, <2>2 DEF Placed
<1>3. KernelFrames(bootmem)' = KernelFrames(bootmem)
  BY DEF KernelFrames
<1>4. /\ Len(Wanted) \in Nat /\ \A i, j \in 1 .. Len(Wanted) : Wanted[i] = Wanted[j] => i = j
  BY <1>1, HighestFacts, WantedFacts
<1>. QED  BY <1>1, <1>2, <1>3, <1>4, SameInfo, SameMap DEF BeforeMap, InUse

(* A page table more and a free frame less; a frame above the boot window  *)
(* is not in a machine below it.                                           *)
LEMMA BuildTableInv ==
  ASSUME BootInv, BuildTable
  PROVE  BootInv'
<1>1. /\ phase = "paging" /\ AllocPages(0) /\ NextTable <= Len(Wanted)
      /\ UNCHANGED <<firmware, kernelEnd, bootinfo, memmap, bootmem, cr3>>
  BY DEF BuildTable
<1>2. /\ FramesInv /\ MineOK /\ TablesOK /\ Counted /\ cr3 = "boot" /\ InfoOK /\ MapReady
      /\ firmware \in Firmwares /\ kernelEnd \in KernelEnds
  BY <1>1 DEF BootInv, BeforeMap, InUse
<1>3. PICK p \in bitmap : /\ bitmap' = bitmap \ {p} /\ held' = held \union {<<p, 0>>}
                          /\ \A f : <<f, 0>> \in held' \ held => f = p
  BY <1>1, <1>2, OneFrame
<1>4. FramesInv' /\ Mine' \subseteq Mine /\ held \subseteq held'
  <2>1. 0 \in Order
    BY BuddyAssumption DEF Order
  <2>. QED  BY <1>1, <1>2, <2>1, AllocKeeps
<1>. PICK n, W, k : n = Cardinality(DOMAIN tables) /\ W = Wanted /\ k = n + 1
  OBVIOUS
<1>5. PICK f \in Pfn :
        /\ <<f, 0>> \in held' \ held
        /\ IF f * PageSize < Window
           THEN /\ tables' = [t \in DOMAIN tables \union {W[k]} |-> IF t = W[k] THEN f ELSE tables[t]]
                /\ phase' = phase
           ELSE tables' = tables /\ phase' = "faulted"
  BY DEF BuildTable, NextTable
<1>6. f = p /\ f \in Mine /\ f \in UsableFrames \ KernelFrames(bootmem)
  BY <1>1, <1>2, <1>3, <1>5 DEF MineOK, Mine
<1>7. phase' \in {"paging", "faulted"}
  BY <1>1, <1>5
<1>8. /\ InfoOK' /\ MapReady' /\ Placed(bootmem)' /\ Wanted' = W
      /\ UsableFrames' = UsableFrames /\ KernelFrames(bootmem)' = KernelFrames(bootmem)
      /\ phase' \notin BeforeMap /\ (Suffices' <=> Suffices)
      /\ Len(W) \in Nat /\ \A i, j \in 1 .. Len(W) : W[i] = W[j] => i = j
  BY <1>1, <1>4, <1>7, SameMachine DEF InUse
<1>9. MineOK'
  <2>1. Mine \subseteq UsableFrames \ KernelFrames(bootmem)
    BY <1>1, <1>2 DEF MineOK
  <2>2. Mine' \subseteq UsableFrames' \ KernelFrames(bootmem)'
    BY <1>4, <1>8, <2>1
  <2>. QED  BY <2>2 DEF MineOK
<1>10. /\ n \in Nat /\ k <= Len(W) /\ IsFiniteSet(DOMAIN tables) /\ DOMAIN tables = {W[i] : i \in 1 .. n}
       /\ \A t \in DOMAIN tables : <<tables[t], 0>> \in held
  <2>1. IsFiniteSet(DOMAIN tables) /\ k = NextTable
    BY <1>2 DEF TablesOK, TablesIn, NextTable
  <2>. QED  BY <1>1, <1>2, <2>1, FS_CardinalityType DEF TablesOK, TablesIn
<1>11. CASE f * PageSize < Window
  <2>. PICK t, D : t = W[k] /\ D = DOMAIN tables
    OBVIOUS
  <2>1. tables' = [u \in D \union {t} |-> IF u = t THEN f ELSE tables[u]] /\ phase' = "paging"
    BY <1>1, <1>5, <1>11
  <2>2. t \notin D
    <3>1. k \in 1 .. Len(W) /\ \A i \in 1 .. n : i \in 1 .. Len(W) /\ i # k
      <4>1. k = n + 1 /\ n \in Nat /\ k <= Len(W) /\ Len(W) \in Nat
        BY <1>8, <1>10
      <4>. QED  BY ONLY <4>1
    <3>2. \A i \in 1 .. n : W[i] # W[k]
      BY <1>8, <3>1
    <3>. QED  BY <1>10, <3>2
  <2>3. DOMAIN tables' = D \union {t} /\ IsFiniteSet(D \union {t}) /\ Cardinality(D \union {t}) = k
    BY <1>10, <2>1, <2>2, FS_AddElement
  <2>4. D \union {t} = {W[i] : i \in 1 .. k}
    <3>1. 1 .. k = (1 .. n) \union {k}
      <4>1. k = n + 1 /\ n \in Nat
        BY <1>10
      <4>. QED  BY ONLY <4>1
    <3>. QED  BY <1>10, <3>1, ZenonT(30)
  <2>5. \A u \in D \union {t} : <<tables'[u], 0>> \in held'
    BY <1>4, <1>5, <1>10, <2>1
  <2>6. TablesOK'
    <3>. PICK T, H : T = tables' /\ H = held'
      OBVIOUS
    <3>1. TablesIn(T, W, H)
      <4>1. DOMAIN T = D \union {t} /\ IsFiniteSet(DOMAIN T) /\ Cardinality(DOMAIN T) = k /\ k <= Len(W)
        BY <1>10, <2>3
      <4>2. DOMAIN T = {W[i] : i \in 1 .. k} /\ \A u \in DOMAIN T : <<T[u], 0>> \in H
        BY <2>3, <2>4, <2>5
      <4>. QED  BY ONLY <4>1, <4>2 DEF TablesIn
    <3>. QED  BY <1>8, <3>1 DEF TablesOK
  <2>7. Counted'
    <3>1. IsFiniteSet(bitmap)
      BY <1>2, PfnFinite, FS_Subset DEF FramesInv
    <3>2. Cardinality(bitmap') = Cardinality(bitmap) - 1 /\ Cardinality(bitmap) \in Nat
      BY <1>3, <3>1, FS_RemoveElement, FS_CardinalityType
    <3>3. Cardinality(DOMAIN tables') = n + 1
      BY <2>3
    <3>4. Cardinality(bitmap) + n = Cardinality(UsableFrames \ KernelFrames(bootmem))
      BY <1>2 DEF Counted
    <3>5. Cardinality(bitmap') + Cardinality(DOMAIN tables') = Cardinality(UsableFrames \ KernelFrames(bootmem))
      BY <1>10, <3>2, <3>3, <3>4
    <3>6. (UsableFrames \ KernelFrames(bootmem))' = UsableFrames \ KernelFrames(bootmem)
      BY <1>8
    <3>. QED  BY <3>5, <3>6 DEF Counted
  <2>8. SufficientMachinesBoot'
    BY <2>1 DEF SufficientMachinesBoot, Failed
  <2>. QED  BY <1>1, <1>2, <1>4, <1>8, <1>9, <2>1, <2>6, <2>7, <2>8 DEF BootInv, BeforeMap, InUse
<1>12. CASE ~(f * PageSize < Window)
  <2>1. tables' = tables /\ phase' = "faulted"
    BY <1>5, <1>12
  <2>2. TablesOK'
    <3>1. \A t \in DOMAIN tables : <<tables[t], 0>> \in held'
      BY <1>4, <1>10
    <3>2. n <= Len(W)
      BY <1>8, <1>10
    <3>3. TablesIn(tables, W, held')
      BY <1>2, <3>1 DEF TablesOK, TablesIn
    <3>. QED  BY <1>8, <2>1, <3>3 DEF TablesOK
  <2>3. ~Suffices
    <3>. SUFFICES ASSUME Suffices PROVE FALSE
      OBVIOUS
    <3>. PICK a : a = f * PageSize
      OBVIOUS
    <3>1. a \in Nat /\ a \in Machine
      <4>1. /\ f * PageSize \in Nat /\ (f + 1) * PageSize \in Nat /\ f * PageSize < (f + 1) * PageSize
            /\ \A c \in f * PageSize .. (f + 1) * PageSize - 1 : c \in CoveredBy(bootinfo, "usable")
        BY <1>2, <1>6, UsableFrameWhole
      <4>. PICK b : b = (f + 1) * PageSize
        OBVIOUS
      <4>2. a \in a .. b - 1
        BY <4>1
      <4>. QED  BY <4>1, <4>2 DEF Machine
    <3>2. Machine # {} /\ MachineTop <= Window /\ Window \in Nat
      BY LayoutAssumption DEF Suffices
    <3>3. MachineTop \in Nat /\ a < MachineTop
      BY <1>2, <3>1, <3>2, MachineTopFacts
    <3>. QED  BY <1>12, <3>1, <3>2, <3>3
  <2>4. SufficientMachinesBoot'
    BY <1>8, <2>3 DEF SufficientMachinesBoot
  <2>. QED  BY <1>1, <1>2, <1>4, <1>8, <1>9, <2>1, <2>2, <2>4 DEF BootInv, BeforeMap, InUse
<1>. QED  BY <1>11, <1>12
-----------------------------------------------------------------------------
(* A step between two states that own memory.                              *)
LEMMA StillInUse ==
  ASSUME BootInv, phase \in InUse, phase' \in InUse, FramesInv',
         UNCHANGED <<firmware, kernelEnd, bootinfo, memmap, bootmem, tables>>,
         MineOK', \A t \in DOMAIN tables : <<tables[t], 0>> \in held',
         phase' = "paging" => Counted',
         cr3' = IF phase' \in {"unreserve", "running"} THEN "kernel" ELSE "boot",
         phase' \in Failed => ~Suffices
  PROVE  BootInv'
<1>1. /\ InfoOK' /\ MapReady' /\ Placed(bootmem)' /\ Wanted' = Wanted
      /\ phase' \notin BeforeMap /\ (Suffices' <=> Suffices)
  BY SameMachine
<1>2. TablesOK'
  <2>1. TablesIn(tables, Wanted, held')
    BY DEF BootInv, TablesOK, TablesIn
  <2>. QED  BY <1>1, <2>1 DEF TablesOK
<1>3. SufficientMachinesBoot'
  BY <1>1 DEF SufficientMachinesBoot
<1>. QED  BY <1>1, <1>2, <1>3 DEF BootInv

(* Frames handed around stay within the same memory.                       *)
LEMMA MineSame ==
  ASSUME BootInv, phase \in InUse, phase' \in InUse, FramesInv', Mine' \subseteq Mine,
         UNCHANGED <<firmware, kernelEnd, bootinfo, memmap, bootmem>>,
         phase = "running" => phase' = "running"
  PROVE  MineOK'
<1>1. UsableFrames' = UsableFrames /\ KernelFrames(bootmem)' = KernelFrames(bootmem)
  BY SameMachine
<1>2. BootTableFrames' = BootTableFrames
  BY DEF BootTableFrames
<1>3. Mine \subseteq (UsableFrames \ KernelFrames(bootmem)) \union (IF phase = "running" THEN BootTableFrames ELSE {})
  BY DEF BootInv, MineOK
<1>. QED  BY <1>1, <1>2, <1>3 DEF MineOK

(* A sufficient machine has a frame for every page table.                  *)
LEMMA EnoughFrames ==
  ASSUME InfoOK, MapReady, Placed(bootmem), Suffices
  PROVE  Cardinality(UsableFrames \ KernelFrames(bootmem)) >= Len(Wanted)
<1>. PICK n, bm : n = Up(MachineTop) /\ bm = [start |-> StaticLayoutTop, next |-> StaticLayoutTop + TableRoom(n)]
  OBVIOUS
<1>. PICK whole : whole = {f \in 0 .. n - 1 : f * PageSize .. (f + 1) * PageSize - 1 \subseteq Machine}
  OBVIOUS
<1>1. OneTypeEach /\ Machine # {} /\ Cardinality(whole \ KernelFrames(bm)) >= Len(Wanted)
  BY DEF Suffices, TableRoom
<1>2. n = Up(HighestUsable) /\ n \in Nat
  <2>1. HighestUsable = MachineTop /\ MachineTop \in Nat
    BY <1>1, HighestIsTop, MachineTopFacts
  <2>. QED  BY <2>1, UpFacts
<1>3. KernelFrames(bm) = KernelFrames(bootmem)
  <2>1. bm.start = bootmem.start /\ bm.next = bootmem.next
    BY <1>2 DEF Placed
  <2>. QED  BY <2>1 DEF KernelFrames
<1>4. whole \subseteq UsableFrames
  <2>. SUFFICES ASSUME NEW f \in whole PROVE f \in UsableFrames
    OBVIOUS
  <2>1. f \in Nat /\ f * PageSize .. (f + 1) * PageSize - 1 \subseteq Machine
    OBVIOUS
  <2>. QED  BY <1>1, <2>1, WholeFrames
<1>. PICK A, B : A = whole \ KernelFrames(bm) /\ B = UsableFrames \ KernelFrames(bootmem)
  OBVIOUS
<1>5. A \subseteq B /\ IsFiniteSet(B)
  <2>1. UsableFrames \subseteq 0 .. n - 1 /\ IsFiniteSet(0 .. n - 1)
    BY <1>2, UsableFramesFacts, FS_Interval
  <2>. QED  BY <1>3, <1>4, <2>1, FS_Subset
<1>6. Cardinality(A) <= Cardinality(B) /\ Cardinality(A) \in Nat /\ Cardinality(B) \in Nat
  BY <1>5, FS_Subset, FS_CardinalityType
<1>7. Len(Wanted) \in Nat
  BY HighestFacts, WantedFacts
<1>. QED  BY <1>1, <1>6, <1>7

(* kInitializePaging runs out of frames only when they really are too few. *)
LEMMA NoFrameInv ==
  ASSUME BootInv, NoFrameForTable
  PROVE  BootInv'
<1>1. /\ phase = "paging" /\ phase' = "halt_paging" /\ AllocFails(0) /\ NextTable <= Len(Wanted)
      /\ UNCHANGED <<firmware, kernelEnd, bootinfo, memmap, bootmem, tables, cr3>>
  BY DEF NoFrameForTable, Advance
<1>2. /\ FramesInv /\ MineOK /\ TablesOK /\ Counted /\ cr3 = "boot" /\ InfoOK /\ MapReady /\ Placed(bootmem)
  BY <1>1 DEF BootInv, BeforeMap, InUse
<1>3. FramesInv' /\ bitmap' = bitmap /\ held' = held /\ bitmap = {}
  <2>1. 0 \in Order
    BY BuddyAssumption DEF Order
  <2>2. /\ FramesInv' /\ bitmap' = bitmap /\ held' = held
        /\ \A p \in Pfn : ~(p % 2^0 = 0 /\ Run(p, 0) \subseteq bitmap)
    BY <1>1, <1>2, <2>1, RefusalPreserves
  <2>3. ASSUME NEW p \in bitmap PROVE FALSE
    <3>1. p \in Pfn /\ p \in Nat /\ 2^0 = 1
      BY <1>2, PfnFinite, PowerAssumption DEF FramesInv
    <3>2. p % 2^0 = 0 /\ Run(p, 0) = {p}
      BY <3>1 DEF Run
    <3>. QED  BY <2>2, <3>1, <3>2
  <2>. QED  BY <2>2, <2>3
<1>4. Mine' = Mine
  BY <1>3 DEF Mine, Span, Run
<1>5. ~Suffices
  <2>. SUFFICES ASSUME Suffices PROVE FALSE
    OBVIOUS
  <2>1. Cardinality(UsableFrames \ KernelFrames(bootmem)) >= Len(Wanted)
    BY <1>2, EnoughFrames
  <2>. PICK n, k : n = Cardinality(DOMAIN tables) /\ k = Len(Wanted)
    OBVIOUS
  <2>2. Cardinality(bitmap) = 0
    BY <1>3, FS_EmptySet
  <2>3. n \in Nat /\ k \in Nat
    <3>1. IsFiniteSet(DOMAIN tables)
      BY <1>2 DEF TablesOK, TablesIn
    <3>. QED  BY <1>2, <3>1, FS_CardinalityType, HighestFacts, WantedFacts
  <2>4. n >= k
    BY <1>2, <2>1, <2>2, <2>3 DEF Counted
  <2>. QED  BY <1>1, <2>3, <2>4 DEF NextTable
<1>6. MineOK'
  BY <1>1, <1>3, <1>4, MineSame DEF InUse
<1>7. \A t \in DOMAIN tables : <<tables[t], 0>> \in held'
  BY <1>2, <1>3 DEF TablesOK, TablesIn
<1>8. phase \in InUse /\ phase' \in InUse /\ phase' # "paging" /\ cr3' = "boot" /\ phase' \notin {"unreserve", "running"}
  BY <1>1, <1>2 DEF InUse
<1>. QED  BY <1>1, <1>3, <1>5, <1>6, <1>7, <1>8, StillInUse

(* An image larger than a large page stops the boot.                       *)
LEMMA ImageTooLargeInv ==
  ASSUME BootInv, ImageTooLarge
  PROVE  BootInv'
<1>1. /\ phase = "paging" /\ phase' = "halt_paging" /\ ~ImageFits /\ UNCHANGED buddyVars
      /\ UNCHANGED <<firmware, kernelEnd, bootinfo, memmap, bootmem, tables, cr3>>
  BY DEF ImageTooLarge, Advance
<1>2. FramesInv /\ TablesOK /\ cr3 = "boot" /\ held' = held
  BY <1>1 DEF BootInv, InUse, buddyVars
<1>3. FramesInv' /\ Mine' = Mine
  BY <1>1, <1>2, SameFrames
<1>4. ~Suffices
  BY <1>1 DEF Suffices
<1>5. phase \in InUse /\ phase' \in InUse /\ phase' # "paging" /\ cr3' = "boot" /\ phase' \notin {"unreserve", "running"}
  BY <1>1, <1>2 DEF InUse
<1>6. MineOK'
  BY <1>1, <1>3, <1>5, MineSame
<1>7. \A t \in DOMAIN tables : <<tables[t], 0>> \in held'
  BY <1>2 DEF TablesOK, TablesIn
<1>. QED  BY <1>1, <1>3, <1>4, <1>5, <1>6, <1>7, StillInUse

(* The kernel's own page tables are loaded.                                *)
LEMMA SwitchInv ==
  ASSUME BootInv, SwitchTables
  PROVE  BootInv'
<1>1. /\ phase = "paging" /\ phase' = "unreserve" /\ cr3' = "kernel" /\ UNCHANGED buddyVars
      /\ UNCHANGED <<firmware, kernelEnd, bootinfo, memmap, bootmem, tables>>
  BY DEF SwitchTables, Advance
<1>2. FramesInv /\ TablesOK /\ held' = held
  BY <1>1 DEF BootInv, InUse, buddyVars
<1>3. FramesInv' /\ Mine' = Mine
  BY <1>1, <1>2, SameFrames
<1>4. phase \in InUse /\ phase' \in InUse /\ phase' # "paging" /\ phase' \notin Failed
  BY <1>1 DEF InUse, Failed
<1>5. MineOK'
  BY <1>1, <1>3, <1>4, MineSame
<1>6. \A t \in DOMAIN tables : <<tables[t], 0>> \in held'
  BY <1>2 DEF TablesOK, TablesIn
<1>. QED  BY <1>1, <1>3, <1>4, <1>5, <1>6, StillInUse

(* Only the frames of the boot tables come back.                           *)
LEMMA UnreserveInv ==
  ASSUME BootInv, UnreserveBootTables
  PROVE  BootInv'
<1>. PICK frames : frames = BootTableFrames \cap 0 .. total - 1
  OBVIOUS
<1>1. /\ phase = "unreserve" /\ phase' = "running" /\ UnreserveRange(frames)
      /\ UNCHANGED <<firmware, kernelEnd, bootinfo, memmap, bootmem, tables, cr3>>
  BY DEF UnreserveBootTables, Advance
<1>2. FramesInv /\ TablesOK /\ MineOK /\ cr3 = "kernel"
  BY <1>1 DEF BootInv, InUse
<1>3. FramesInv' /\ bitmap' \subseteq bitmap \union frames /\ held' = held
  BY <1>1, <1>2, UnreservePreserves
<1>4. phase \in InUse /\ phase' \in InUse /\ phase' # "paging" /\ phase' \notin Failed
  BY <1>1 DEF InUse, Failed
<1>5. MineOK'
  <2>1. UsableFrames' = UsableFrames /\ KernelFrames(bootmem)' = KernelFrames(bootmem)
    BY <1>1, <1>3, <1>4, SameMachine
  <2>2. Mine' \subseteq Mine \union BootTableFrames
    BY <1>3 DEF Mine, Span, Run
  <2>3. Mine \subseteq UsableFrames \ KernelFrames(bootmem)
    BY <1>1, <1>2 DEF MineOK
  <2>4. BootTableFrames' = BootTableFrames
    BY DEF BootTableFrames
  <2>. QED  BY <1>1, <2>1, <2>2, <2>3, <2>4 DEF MineOK
<1>6. \A t \in DOMAIN tables : <<tables[t], 0>> \in held'
  BY <1>2, <1>3 DEF TablesOK, TablesIn
<1>. QED  BY <1>1, <1>2, <1>3, <1>4, <1>5, <1>6, StillInUse

(* The running kernel allocates and frees, and keeps its page tables.      *)
LEMMA ServeInv ==
  ASSUME BootInv, Serve
  PROVE  BootInv'
<1>. PICK kept : kept = {<<tables[t], 0>> : t \in DOMAIN tables}
  OBVIOUS
<1>1. /\ phase = "running" /\ phase' = "running" /\ Calls(kept)
      /\ UNCHANGED <<firmware, kernelEnd, bootinfo, memmap, bootmem, tables, cr3>>
  BY DEF Serve, bootVars
<1>2. FramesInv /\ cr3 = "kernel" /\ kept \subseteq held
  BY <1>1 DEF BootInv, InUse, TablesOK, TablesIn
<1>3. phase \in InUse /\ phase' \in InUse /\ phase' # "paging" /\ phase' \notin Failed
  BY <1>1 DEF InUse, Failed
<1>4. FramesInv' /\ Mine' \subseteq Mine /\ kept \subseteq held'
  <2>1. ASSUME NEW o \in Order, AllocPages(o) PROVE FramesInv' /\ Mine' \subseteq Mine /\ kept \subseteq held'
    BY <1>2, <2>1, AllocKeeps
  <2>2. ASSUME NEW o \in Order, AllocFails(o) PROVE FramesInv' /\ Mine' \subseteq Mine /\ kept \subseteq held'
    <3>1. FramesInv' /\ bitmap' = bitmap /\ held' = held
      BY <1>2, <2>2, RefusalPreserves
    <3>. QED  BY <1>2, <3>1 DEF Mine, Span, Run
  <2>3. ASSUME NEW b \in Passed(kept), FreePages(b[1], b[2]) PROVE FramesInv' /\ Mine' \subseteq Mine /\ kept \subseteq held'
    <3>1. ~Refuses(b[1], b[2])
      BY <2>3 DEF FreePages
    <3>2. b \in held /\ b \notin kept
      BY <1>2, <3>1, FreedIsHeld
    <3>3. FramesInv' /\ bitmap' = bitmap \union Span(b) /\ held' = held \ {b}
      BY <1>2, <2>3, <3>2, FreePreserves
    <3>. QED  BY <1>2, <3>2, <3>3 DEF Mine, Span, Run
  <2>4. ASSUME FreeRefused(kept) PROVE FramesInv' /\ Mine' \subseteq Mine /\ kept \subseteq held'
    <3>1. UNCHANGED <<total, bitmap, reserved, buddy, order, area, freePages, held>> /\ refused' \in BOOLEAN
      BY <2>4 DEF FreeRefused
    <3>2. FramesInv'
      BY <1>2, <3>1, StutterPreserves
    <3>. QED  BY <1>2, <3>1, <3>2 DEF Mine, Span, Run
  <2>. QED  BY <1>1, <2>1, <2>2, <2>3, <2>4 DEF Calls
<1>5. MineOK'
  BY <1>1, <1>3, <1>4, MineSame
<1>. QED  BY <1>1, <1>2, <1>3, <1>4, <1>5, StillInUse

(* Nothing happens.                                                        *)
LEMMA SameInv ==
  ASSUME BootInv, UNCHANGED vars
  PROVE  BootInv'
<1>1. /\ UNCHANGED buddyVars /\ UNCHANGED <<firmware, kernelEnd, bootinfo, memmap, bootmem, tables, cr3, phase>>
  BY DEF vars, bootVars
<1>2. FramesInv' /\ Mine' = Mine /\ InfoOK' /\ held' = held /\ bitmap' = bitmap
  BY <1>1, SameFrames, SameInfo DEF BootInv, buddyVars
<1>3. CASE phase \in InUse
  <2>1. MineOK'
    BY <1>1, <1>2, <1>3, MineSame
  <2>2. \A t \in DOMAIN tables : <<tables[t], 0>> \in held'
    BY <1>2, <1>3 DEF BootInv, TablesOK, TablesIn
  <2>3. phase' = "paging" => Counted'
    <3>1. UsableFrames' = UsableFrames /\ KernelFrames(bootmem)' = KernelFrames(bootmem)
      BY <1>1, <1>2, <1>3, SameMachine
    <3>. QED  BY <1>1, <1>2, <3>1 DEF BootInv, Counted
  <2>4. phase' \in Failed => ~Suffices
    BY <1>1 DEF BootInv, SufficientMachinesBoot
  <2>. QED  BY <1>1, <1>2, <1>3, <2>1, <2>2, <2>3, <2>4, StillInUse DEF BootInv
<1>4. CASE phase \notin InUse
  <2>1. Untouched'
    BY <1>1, <1>2, <1>4 DEF BootInv, Untouched, buddyVars
  <2>2. (MapReady => MapReady') /\ (Suffices' <=> Suffices)
    BY <1>1, SameMap
  <2>3. SufficientMachinesBoot'
    BY <1>1, <2>2 DEF BootInv, SufficientMachinesBoot
  <2>4. phase # "paging"
    BY <1>4 DEF InUse
  <2>. QED  BY <1>1, <1>2, <1>4, <2>1, <2>2, <2>3, <2>4 DEF BootInv
<1>. QED  BY <1>3, <1>4

(* Every step keeps the invariant.                                         *)
LEMMA BootStep ==
  ASSUME BootInv, [Next]_vars
  PROVE  BootInv'
BY CollectInv, CheckInv, AreaInv, MemoryMapInv, PhysicalInv, BuildTableInv, NoFrameInv, ImageTooLargeInv,
   SwitchInv, UnreserveInv, ServeInv, SameInv DEF Next, Stopped

(* BootInv is an invariant of boot and of the running kernel, for any      *)
(* memory size, layout, image and firmware within the stated assumptions.  *)
THEOREM BootAlways == Spec => []BootInv
<1>1. Init => BootInv
  BY InitInv
<1>2. BootInv /\ [Next]_vars => BootInv'
  BY BootStep
<1>. QED  BY <1>1, <1>2, PTL DEF Spec
-----------------------------------------------------------------------------
(* The free lists are exact, and boot state is of the right kind.          *)
LEMMA ListsExactHold ==
  ASSUME BootInv
  PROVE  ListsExact
<1>1. FramesTypeOK /\ FreeListsExact
  BY InvImplies DEF BootInv
<1>2. \A i \in DOMAIN memmap : memmap[i].len > 0
  <2>1. CASE phase \in BeforeMap
    BY <2>1 DEF BootInv
  <2>2. CASE phase \notin BeforeMap
    <3>1. MapReady
      BY <2>2 DEF BootInv
    <3>2. DOMAIN memmap = 1 .. Len(memmap)
      BY <3>1, EntriesFacts
    <3>. QED  BY <3>1, <3>2, EntriesFacts
  <2>. QED  BY <2>1, <2>2
<1>3. DOMAIN tables \subseteq {Wanted[i] : i \in DOMAIN Wanted}
  <2>1. CASE phase \notin InUse
    BY <2>1 DEF BootInv, Untouched
  <2>2. CASE phase \in InUse
    <3>1. MapReady /\ TablesOK
      BY <2>2 DEF BootInv, BeforeMap, InUse
    <3>. PICK n : n = Cardinality(DOMAIN tables)
      OBVIOUS
    <3>2. IsFiniteSet(DOMAIN tables) /\ n <= Len(Wanted) /\ DOMAIN tables = {Wanted[i] : i \in 1 .. n}
      BY <3>1 DEF TablesOK, TablesIn
    <3>3. n \in Nat /\ Len(Wanted) \in Nat /\ DOMAIN Wanted = 1 .. Len(Wanted)
      BY <3>1, <3>2, FS_CardinalityType, HighestFacts, WantedFacts
    <3>4. 1 .. n \subseteq 1 .. Len(Wanted)
      BY ONLY <3>2, <3>3
    <3>. QED  BY <3>2, <3>3, <3>4
  <2>. QED  BY <2>1, <2>2
<1>. QED  BY <1>1, <1>2, <1>3 DEF ListsExact, BootTypeOK, BootInv, BeforeMap, InUse, Failed

(* The finished map is the firmware's.                                     *)
LEMMA MapFaithfulHolds ==
  ASSUME BootInv
  PROVE  MapFaithful
<1>. SUFFICES ASSUME phase = "pmm" PROVE MapFaithful
  BY DEF MapFaithful
<1>1. InfoOK /\ MapReady
  BY DEF BootInv, BeforeMap
<1>2. MapOf(memmap, bootinfo, Types) /\ DOMAIN memmap = 1 .. Len(memmap)
  BY <1>1, EntriesFacts DEF MapReady
<1>3. Rising(memmap) /\ (\A t : CoveredBy(memmap, t) = CoveredBy(bootinfo, t)) /\ (OneType(bootinfo) => Separate(memmap))
  BY <1>2 DEF MapOf
<1>4. \A i, j \in DOMAIN memmap : i < j => memmap[i].base <= memmap[j].base
  BY <1>2, <1>3 DEF Rising
<1>5. OneTypeEach => \A i, j \in DOMAIN memmap :
        i < j /\ memmap[i].type = memmap[j].type => End(memmap[i]) < memmap[j].base
  BY <1>1, <1>2, <1>3, OneTypeFacts DEF Separate
<1>. QED  BY <1>3, <1>4, <1>5 DEF MapFaithful

(* Nothing lives in a free frame.                                          *)
LEMMA FreeFramesAreUnusedHolds ==
  ASSUME BootInv
  PROVE  FreeFramesAreUnused
<1>. SUFFICES ASSUME NEW f \in bitmap
              PROVE  /\ \/ f \in BootTableFrames
                        \/ \A a \in f * PageSize .. (f + 1) * PageSize - 1 :
                             \E i \in DOMAIN bootinfo : Usable(bootinfo[i]) /\ bootinfo[i].base <= a /\ a < End(bootinfo[i])
                     /\ f \notin Frames(KernelBase, kernelEnd) /\ f \notin Frames(bootmem.start, bootmem.next)
                     /\ \A r \in Fixed : f \notin Frames(r[1], r[2])
                     /\ cr3 = "boot" => f \notin Frames(BootTables[1], BootTables[2])
                     /\ \A t \in DOMAIN tables : tables[t] # f
  BY DEF FreeFramesAreUnused
<1>1. phase \in InUse
  BY DEF BootInv, Untouched
<1>2. /\ FramesInv /\ InfoOK /\ MapReady /\ Placed(bootmem) /\ MineOK /\ TablesOK /\ kernelEnd \in KernelEnds
      /\ cr3 = IF phase \in {"unreserve", "running"} THEN "kernel" ELSE "boot"
  BY <1>1 DEF BootInv, BeforeMap, InUse
<1>3. \A t \in DOMAIN tables : tables[t] # f
  <2>. SUFFICES ASSUME NEW t \in DOMAIN tables, tables[t] = f PROVE FALSE
    OBVIOUS
  <2>. PICK b : b = <<f, 0>>
    OBVIOUS
  <2>1. b \in held /\ b \in Block /\ Span(b) \cap bitmap = {}
    BY <1>2 DEF TablesOK, TablesIn, FramesInv, HeldOK
  <2>2. f \in Span(b)
    BY <2>1, BlockFacts
  <2>. QED  BY <2>1, <2>2
<1>4. f \in UsableFrames \ KernelFrames(bootmem) \/ (phase = "running" /\ f \in BootTableFrames)
  BY <1>2 DEF MineOK, Mine
<1>5. CASE f \in UsableFrames \ KernelFrames(bootmem)
  <2>1. ASSUME NEW a \in f * PageSize .. (f + 1) * PageSize - 1
        PROVE  \E i \in DOMAIN bootinfo : Usable(bootinfo[i]) /\ bootinfo[i].base <= a /\ a < End(bootinfo[i])
    <3>1. a \in CoveredBy(bootinfo, "usable")
      BY <1>2, <1>5, UsableFrameWhole
    <3>2. bootinfo \in Seq(Entry(Types)) /\ DOMAIN bootinfo = 1 .. Len(bootinfo)
      BY <1>2 DEF InfoOK
    <3>3. a \in Nat
      BY <3>1, <3>2, CoverFacts
    <3>. QED  BY <3>1, <3>2, <3>3, CoverFacts DEF Usable
  <2>2. /\ f \notin Frames(KernelBase, kernelEnd) /\ f \notin Frames(bootmem.start, bootmem.next)
        /\ \A r \in Fixed : f \notin Frames(r[1], r[2])
        /\ f \notin Frames(BootTables[1], BootTables[2])
    BY <1>5 DEF KernelFrames
  <2>. QED  BY <1>3, <2>1, <2>2
<1>6. CASE phase = "running" /\ f \in BootTableFrames
  <2>1. cr3 = "kernel"
    BY <1>2, <1>6
  <2>2. f \notin Frames(KernelBase, kernelEnd)
    <3>1. KernelBase \in Nat /\ kernelEnd \in Nat
      BY <1>2, LayoutAssumption
    <3>. PICK r : r = <<KernelBase, kernelEnd>>
      OBVIOUS
    <3>2. r[2] <= BootTables[1] \/ BootTables[2] <= r[1]
      BY <1>2, LayoutAssumption
    <3>. QED  BY <1>6, <3>1, <3>2, BootTablesApart
  <2>3. ASSUME NEW r \in Fixed PROVE f \notin Frames(r[1], r[2])
    <3>1. r[1] \in Nat /\ r[2] \in Nat /\ (r[2] <= BootTables[1] \/ BootTables[2] <= r[1])
      BY LayoutAssumption
    <3>. QED  BY <1>6, <3>1, BootTablesApart
  <2>4. f \notin Frames(bootmem.start, bootmem.next)
    <3>1. bootmem.start \in Nat /\ BootTables[2] <= bootmem.start
      BY <1>2, LayoutTopFacts DEF Placed
    <3>2. bootmem.next \in Nat
      <4>1. Up(HighestUsable) \in Nat
        BY <1>2, HighestFacts, UpFacts
      <4>2. TableRoom(Up(HighestUsable)) \in Nat
        BY <4>1, TableRoomFacts
      <4>. QED  BY <1>2, <4>2, LayoutTopFacts DEF Placed
    <3>. QED  BY <1>6, <3>1, <3>2, BootTablesApart
  <2>. QED  BY <1>3, <1>6, <2>1, <2>2, <2>3, <2>4
<1>. QED  BY <1>4, <1>5, <1>6
-----------------------------------------------------------------------------
(* Each step is a step of the abstract allocator, or none of its business. *)
LEMMA AllocatorStep ==
  ASSUME BootInv, [Next]_vars
  PROVE  [Allocator!Next]_<<bitmap, held, refused>>
<1>1. FramesInv /\ FramesInv' /\ bitmap' \subseteq Pfn
  BY BootStep DEF BootInv, FramesInv
<1>2. ASSUME NEW o \in Order, AllocPages(o) PROVE Allocator!Next
  <2>1. PICK p \in Pfn : /\ p % 2^o = 0 /\ Run(p, o) \subseteq bitmap /\ bitmap' = bitmap \ Run(p, o)
                         /\ held' = held \union {<<p, o>>} /\ refused' = FALSE
    BY <1>1, <1>2, AllocPreserves
  <2>2. Allocator!Run(p, o) = Run(p, o)
    BY DEF Run, Allocator!Run
  <2>3. p \in Allocator!Candidates(o)
    BY <2>1, <2>2 DEF Allocator!Candidates
  <2>. QED  BY <2>1, <2>2, <2>3 DEF Allocator!Next, Allocator!Alloc
<1>3. ASSUME NEW o \in Order, AllocFails(o) PROVE Allocator!Next
  <2>1. /\ bitmap' = bitmap /\ held' = held /\ refused' = TRUE
        /\ \A p \in Pfn : ~(p % 2^o = 0 /\ Run(p, o) \subseteq bitmap)
    BY <1>1, <1>3, RefusalPreserves
  <2>2. Allocator!Candidates(o) = {}
    BY <2>1 DEF Allocator!Candidates, Allocator!Run, Run
  <2>. QED  BY <2>1, <2>2 DEF Allocator!Next, Allocator!Alloc
<1>4. ASSUME bitmap \subseteq bitmap', \A b \in held : Span(b) \cap (bitmap' \ bitmap) = {}, held' = held, refused' = FALSE
      PROVE  Allocator!Next
  <2>1. \A b \in held : Allocator!Run(b[1], b[2]) \cap (bitmap' \ bitmap) = {}
    BY <1>4 DEF Span, Run, Allocator!Run
  <2>. QED  BY <1>1, <1>4, <2>1 DEF Allocator!Next, Allocator!Release
<1>5. CASE UNCHANGED buddyVars
  BY <1>5 DEF buddyVars
<1>6. CASE InitializePhysicalMemory
  <2>1. bitmap = {} /\ held = {} /\ refused = FALSE
    BY <1>6 DEF InitializePhysicalMemory, Advance, BootInv, InUse, Untouched
  <2>2. held' = held /\ refused' = refused
    BY <1>6 DEF InitializePhysicalMemory, TakeOver
  <2>. QED  BY <1>4, <2>1, <2>2
<1>7. CASE UnreserveBootTables
  <2>. PICK frames : frames = BootTableFrames \cap 0 .. total - 1
    OBVIOUS
  <2>1. UnreserveRange(frames)
    BY <1>7 DEF UnreserveBootTables
  <2>2. bitmap \subseteq bitmap' /\ held' = held /\ refused' = FALSE /\ \A b \in held : Span(b) \cap (bitmap' \ bitmap) = {}
    BY <1>1, <2>1, UnreservePreserves
  <2>. QED  BY <1>4, <2>2
<1>8. CASE Serve
  <2>. PICK kept : kept = {<<tables[t], 0>> : t \in DOMAIN tables}
    OBVIOUS
  <2>1. Calls(kept)
    BY <1>8 DEF Serve
  <2>2. ASSUME NEW b \in Passed(kept), FreePages(b[1], b[2]) PROVE Allocator!Next
    <3>1. ~Refuses(b[1], b[2])
      BY <2>2 DEF FreePages
    <3>2. b \in held
      BY <1>1, <3>1, FreedIsHeld
    <3>3. bitmap' = bitmap \union Span(b) /\ held' = held \ {b} /\ b \in Block /\ refused' = FALSE
      BY <1>1, <2>2, <3>2, FreePreserves
    <3>. PICK p, o : p = b[1] /\ o = b[2]
      OBVIOUS
    <3>4. b = <<p, o>> /\ p \in Pfn /\ o \in Order
      BY <3>3, BlockFacts
    <3>5. Allocator!Run(p, o) = Span(b)
      BY DEF Span, Run, Allocator!Run
    <3>. QED  BY <3>2, <3>3, <3>4, <3>5 DEF Allocator!Next, Allocator!Free
  <2>3. ASSUME FreeRefused(kept) PROVE Allocator!Next
    <3>1. bitmap' = bitmap /\ held' = held /\ refused' = FALSE
      BY <2>3 DEF FreeRefused
    <3>. QED  BY <1>4, <3>1
  <2>. QED  BY <1>2, <1>3, <2>1, <2>2, <2>3 DEF Calls
<1>9. CASE BuildTable \/ NoFrameForTable
  <2>1. 0 \in Order /\ (AllocPages(0) \/ AllocFails(0))
    BY <1>9, BuddyAssumption DEF BuildTable, NoFrameForTable, Order
  <2>. QED  BY <1>2, <1>3, <2>1
<1>10. CASE CollectE820 \/ CheckMemSize \/ InitKernel64Area \/ InitializeMemoryMap \/ ImageTooLarge \/ SwitchTables \/ Stopped
            \/ UNCHANGED vars
  <2>1. UNCHANGED buddyVars
    BY <1>10 DEF CollectE820, CheckMemSize, InitKernel64Area, InitializeMemoryMap, ImageTooLarge, SwitchTables, Stopped, vars
  <2>. QED  BY <1>5, <2>1
<1>. QED  BY <1>6, <1>7, <1>8, <1>9, <1>10 DEF Next
-----------------------------------------------------------------------------
(* The free lists partition the free frames in every state from boot on,   *)
(* through the rebuild when boot memory comes back.  pmm.c:208, pmm.c:174  *)
THEOREM ListsExactAlways == Spec => []ListsExact
<1>1. BootInv => ListsExact
  BY ListsExactHold
<1>. QED  BY <1>1, BootAlways, PTL

(* Free neighbours are always merged, and the order of a block outlives    *)
(* its use. pmm.c:385, slab.c:319                                          *)
THEOREM ListsUsefulAlways == Spec => []ListsUseful
<1>1. BootInv => ListsUseful
  BY InvImplies DEF BootInv, ListsUseful
<1>. QED  BY <1>1, BootAlways, PTL

(* Sorting and merging the E820 table lose and invent nothing.             *)
(* memmap.c:36, memmap.c:52                                                *)
THEOREM MapFaithfulAlways == Spec => []MapFaithful
<1>1. BootInv => MapFaithful
  BY MapFaithfulHolds
<1>. QED  BY <1>1, BootAlways, PTL

(* A free frame is usable memory, or held the boot page tables, and        *)
(* nothing lives in it.  pmm.c:133, paging.c:421                           *)
THEOREM FreeFramesStayUnused == Spec => []FreeFramesAreUnused
<1>1. BootInv => FreeFramesAreUnused
  BY FreeFramesAreUnusedHolds
<1>. QED  BY <1>1, BootAlways, PTL

(* A machine that has what the kernel needs never stops on its way up.     *)
(* main.c:88, main.c:101, bootmem.c:60                                     *)
THEOREM SufficientMachinesComeUp == Spec => []SufficientMachinesBoot
<1>1. BootInv => SufficientMachinesBoot
  BY DEF BootInv
<1>. QED  BY <1>1, BootAlways, PTL

(* Boot and the running kernel implement the abstract frame allocator:     *)
(* callers get frames nobody else has, and are refused only when no run is *)
(* left.                                                                   *)
THEOREM ImplementsFrameAllocator == Spec => HandsOutFreeRuns
<1>1. Init => Allocator!Init
  BY DEF Init, NoFrames, Allocator!Init
<1>2. BootInv /\ [Next]_vars => [Allocator!Next]_<<bitmap, held, refused>>
  BY AllocatorStep
<1>. QED  BY <1>1, <1>2, BootAlways, PTL DEF Spec, HandsOutFreeRuns, Allocator!Spec
=============================================================================
