---------------------------- MODULE KernelLemmas ----------------------------
(***************************************************************************)
(* Facts about the kernel's intrusive lists seen as sequences: what adding *)
(* at the tail (kAddListToTail), taking the head (kRemoveListFromHead) and *)
(* removing by identifier (kRemoveList) do to the set of members and to    *)
(* "no member twice"; the least member of a set of list indices, which is  *)
(* what a scan in increasing order stops at; and quotients and remainders, *)
(* of which page, frame and table numbers are made.                        *)
(***************************************************************************)
EXTENDS Naturals, Sequences, SequencesExt, WellFoundedInduction, TLAPS

(* Appending adds the element, and keeps the members distinct if it is new. *)
LEMMA AppendFacts ==
  ASSUME NEW S, NEW s \in Seq(S), NEW e \in S
  PROVE  /\ Append(s, e) \in Seq(S)
         /\ ToSet(Append(s, e)) = ToSet(s) \union {e}
         /\ IsInjective(s) /\ e \notin ToSet(s) => IsInjective(Append(s, e))
<1>1. /\ Append(s, e) \in Seq(S)
      /\ DOMAIN s = 1 .. Len(s)
      /\ DOMAIN Append(s, e) = 1 .. Len(s) + 1
      /\ \A i \in 1 .. Len(s) : Append(s, e)[i] = s[i]
      /\ Append(s, e)[Len(s) + 1] = e
      /\ Len(s) \in Nat
  OBVIOUS
<1>2. ToSet(Append(s, e)) = ToSet(s) \union {e}
  <2>1. ASSUME NEW x PROVE x \in ToSet(Append(s, e)) <=> x \in ToSet(s) \union {e}
    <3>1. x \in ToSet(Append(s, e)) <=> \E i \in 1 .. Len(s) + 1 : Append(s, e)[i] = x
      BY <1>1, Zenon DEF ToSet
    <3>2. x \in ToSet(s) <=> \E i \in 1 .. Len(s) : s[i] = x
      BY <1>1, Zenon DEF ToSet
    <3>3. \A i \in 1 .. Len(s) + 1 : i \in 1 .. Len(s) \/ i = Len(s) + 1
      BY <1>1
    <3>4. 1 .. Len(s) \subseteq 1 .. Len(s) + 1 /\ Len(s) + 1 \in 1 .. Len(s) + 1
      BY <1>1
    <3>. QED  BY <1>1, <3>1, <3>2, <3>3, <3>4, Zenon
  <2>. QED  BY <2>1, Zenon
<1>3. IsInjective(s) /\ e \notin ToSet(s) => IsInjective(Append(s, e))
  BY <1>1 DEF ToSet, IsInjective
<1>. QED  BY <1>1, <1>2, <1>3

(* Taking the head removes that element; if the members were distinct they *)
(* stay distinct and the head is gone.                                     *)
LEMMA TailFacts ==
  ASSUME NEW S, NEW s \in Seq(S), s # <<>>
  PROVE  /\ Tail(s) \in Seq(S)
         /\ Head(s) \in S
         /\ ToSet(s) = ToSet(Tail(s)) \union {Head(s)}
         /\ IsInjective(s) => IsInjective(Tail(s)) /\ Head(s) \notin ToSet(Tail(s))
<1>1. /\ Tail(s) \in Seq(S)
      /\ DOMAIN s = 1 .. Len(s)
      /\ DOMAIN Tail(s) = 1 .. Len(s) - 1
      /\ \A i \in 1 .. Len(s) - 1 : Tail(s)[i] = s[i + 1]
      /\ Head(s) = s[1] /\ Head(s) \in S
      /\ Len(s) \in Nat \ {0}
  OBVIOUS
<1>2. ToSet(s) = ToSet(Tail(s)) \union {Head(s)}
  <2>1. ASSUME NEW x \in ToSet(s) PROVE x \in ToSet(Tail(s)) \union {Head(s)}
    <3>1. PICK i \in 1 .. Len(s) : s[i] = x
      BY <1>1, <2>1, Zenon DEF ToSet
    <3>2. CASE i = 1
      BY <1>1, <3>1, <3>2
    <3>3. CASE i # 1
      <4>1. i - 1 \in 1 .. Len(s) - 1 /\ Tail(s)[i - 1] = x
        BY <1>1, <3>1, <3>3
      <4>. QED  BY <1>1, <4>1, Zenon DEF ToSet
    <3>. QED  BY <3>2, <3>3
  <2>2. ASSUME NEW x \in ToSet(Tail(s)) PROVE x \in ToSet(s)
    <3>1. PICK i \in 1 .. Len(s) - 1 : s[i + 1] = x
      BY <1>1, <2>2, Zenon DEF ToSet
    <3>2. i + 1 \in 1 .. Len(s)
      BY <1>1
    <3>. QED  BY <1>1, <3>1, <3>2, Zenon DEF ToSet
  <2>3. Head(s) \in ToSet(s)
    <3>1. 1 \in 1 .. Len(s)
      BY <1>1
    <3>. QED  BY <1>1, <3>1, Zenon DEF ToSet
  <2>. QED  BY <2>1, <2>2, <2>3, Zenon
<1>3. IsInjective(s) => IsInjective(Tail(s)) /\ Head(s) \notin ToSet(Tail(s))
  BY <1>1 DEF IsInjective, ToSet
<1>. QED  BY <1>1, <1>2, <1>3

(* The part of a list before its k-th member, and the part behind it.      *)
LEMMA PartsFacts ==
  ASSUME NEW S, NEW s \in Seq(S), NEW k \in 1 .. Len(s)
  PROVE  /\ SubSeq(s, 1, k - 1) \in Seq(S) /\ Len(SubSeq(s, 1, k - 1)) = k - 1
         /\ \A i \in 1 .. k - 1 : SubSeq(s, 1, k - 1)[i] = s[i]
         /\ SubSeq(s, k + 1, Len(s)) \in Seq(S) /\ Len(SubSeq(s, k + 1, Len(s))) = Len(s) - k
         /\ \A i \in 1 .. Len(s) - k : SubSeq(s, k + 1, Len(s))[i] = s[k + i]
<1>0. k \in Nat /\ Len(s) \in Nat /\ k - 1 \in Nat /\ k <= Len(s)
  OBVIOUS
<1>1. SubSeq(s, 1, k - 1) \in Seq(S) /\ Len(SubSeq(s, 1, k - 1)) = k - 1
  BY <1>0
<1>2. \A i \in 1 .. k - 1 : SubSeq(s, 1, k - 1)[i] = s[i]
  BY <1>0
<1>3. SubSeq(s, k + 1, Len(s)) \in Seq(S)
  BY <1>0
<1>4. Len(SubSeq(s, k + 1, Len(s))) = Len(s) - k
  BY <1>0
<1>5. \A i \in 1 .. Len(s) - k : SubSeq(s, k + 1, Len(s))[i] = s[k + i]
  BY <1>0
<1>. QED  BY <1>1, <1>2, <1>3, <1>4, <1>5

(* Where the members of a list go when one of them is taken out: those     *)
(* behind it move up by one.                                               *)
LEMMA RemoveFirstAt ==
  ASSUME NEW S, NEW s \in Seq(S), IsInjective(s), NEW k \in 1 .. Len(s), NEW e, s[k] = e
  PROVE  /\ RemoveFirst(s, e) \in Seq(S) /\ Len(RemoveFirst(s, e)) = Len(s) - 1
         /\ \A i \in 1 .. k - 1 : RemoveFirst(s, e)[i] = s[i]
         /\ \A i \in k .. Len(s) - 1 : RemoveFirst(s, e)[i] = s[i + 1]
         /\ IsInjective(RemoveFirst(s, e))
<1>. DEFINE a == SubSeq(s, 1, k - 1)
            b == SubSeq(s, k + 1, Len(s))
            r == a \o b
<1>0. DOMAIN s = 1 .. Len(s) /\ Len(s) \in Nat /\ k \in Nat
  OBVIOUS
<1>1. RemoveFirst(s, e) = r
  <2>1. {j \in 1 .. Len(s) : s[j] = e} = {k}
    BY <1>0 DEF IsInjective
  <2>2. SelectInSeq(s, LAMBDA v: v = e) = Min({k})
    BY <2>1 DEF SelectInSeq
  <2>3. Min({k}) = k
    BY <1>0 DEF Min
  <2>. QED  BY <2>2, <2>3 DEF RemoveFirst, RemoveAt
<1>2. a \in Seq(S) /\ Len(a) = k - 1 /\ \A i \in 1 .. k - 1 : a[i] = s[i]
  BY PartsFacts
<1>3. b \in Seq(S) /\ Len(b) = Len(s) - k /\ \A i \in 1 .. Len(s) - k : b[i] = s[k + i]
  BY PartsFacts
<1>. HIDE DEF a, b
<1>4. r \in Seq(S) /\ Len(r) = Len(s) - 1 /\ DOMAIN r = 1 .. Len(s) - 1
  <2>1. r \in Seq(S) /\ Len(r) = Len(a) + Len(b)
    <3>1. a \in Seq(S) /\ b \in Seq(S)
      BY <1>2, <1>3
    <3>. QED  BY <3>1
  <2>2. Len(a) + Len(b) = Len(s) - 1
    BY <1>0, <1>2, <1>3
  <2>3. DOMAIN r = 1 .. Len(r)
    BY <2>1
  <2>. QED  BY <2>1, <2>2, <2>3
<1>5. \A i \in 1 .. k - 1 : r[i] = s[i]
  BY <1>0, <1>2, <1>3
<1>6. ASSUME NEW i \in k .. Len(s) - 1 PROVE r[i] = s[i + 1]
  <2>1. r[i] = b[i - (k - 1)]
    BY <1>0, <1>2, <1>3
  <2>2. b[i - (k - 1)] = s[k + (i - (k - 1))]
    BY <1>0, <1>3
  <2>3. k + (i - (k - 1)) = i + 1
    BY <1>0
  <2>. QED  BY <2>1, <2>2, <2>3
<1>. HIDE DEF r
<1>7. IsInjective(r)
  <2>. SUFFICES ASSUME NEW i \in 1 .. Len(s) - 1, NEW j \in 1 .. Len(s) - 1, r[i] = r[j]
                PROVE  i = j
    BY <1>4 DEF IsInjective
  <2>1. \A m, n \in 1 .. Len(s) : s[m] = s[n] => m = n
    BY <1>0 DEF IsInjective
  <2>. QED  BY <1>0, <1>5, <1>6, <2>1
<1>. QED  BY <1>1, <1>4, <1>5, <1>6, <1>7

(* Removing the first occurrence from a list of distinct members removes   *)
(* that member and no other.                                               *)
LEMMA RemoveFirstFacts ==
  ASSUME NEW S, NEW s \in Seq(S), NEW e, IsInjective(s)
  PROVE  /\ RemoveFirst(s, e) \in Seq(S)
         /\ ToSet(RemoveFirst(s, e)) = ToSet(s) \ {e}
         /\ IsInjective(RemoveFirst(s, e))
<1>0. DOMAIN s = 1 .. Len(s) /\ Len(s) \in Nat
  OBVIOUS
<1>1. CASE ~\E i \in 1..Len(s): s[i] = e
  <2>1. RemoveFirst(s, e) = s
    BY <1>1, Zenon DEF RemoveFirst
  <2>2. e \notin ToSet(s)
    BY <1>0, <1>1, Zenon DEF ToSet
  <2>. QED  BY <2>1, <2>2
<1>2. CASE \E i \in 1..Len(s): s[i] = e
  <2>1. PICK k \in 1 .. Len(s) : s[k] = e
    BY <1>2
  <2>. PICK r : r = RemoveFirst(s, e)
    OBVIOUS
  <2>2. /\ r \in Seq(S) /\ Len(r) = Len(s) - 1 /\ IsInjective(r)
        /\ \A i \in 1 .. k - 1 : r[i] = s[i]
        /\ \A i \in k .. Len(s) - 1 : r[i] = s[i + 1]
    BY <2>1, RemoveFirstAt, ZenonT(30)
  <2>3. DOMAIN r = 1 .. Len(s) - 1
    BY <2>2
  <2>4. ToSet(r) = ToSet(s) \ {e}
    <3>1. ASSUME NEW x \in ToSet(r) PROVE x \in ToSet(s) /\ x # e
      <4>1. PICK i \in 1 .. Len(s) - 1 : r[i] = x
        BY <2>3, <3>1, Zenon DEF ToSet
      <4>2. PICK j \in 1 .. Len(s) : j # k /\ s[j] = x
        BY <1>0, <2>1, <2>2, <4>1
      <4>. QED  BY <1>0, <2>1, <4>2 DEF ToSet, IsInjective
    <3>2. ASSUME NEW x \in ToSet(s), x # e PROVE x \in ToSet(r)
      <4>1. PICK j \in 1 .. Len(s) : s[j] = x
        BY <1>0, <3>2, Zenon DEF ToSet
      <4>2. \E i \in 1 .. Len(s) - 1 : r[i] = x
        <5>1. CASE j < k
          BY <1>0, <2>1, <2>2, <4>1, <5>1
        <5>2. CASE j > k
          <6>1. j - 1 \in k .. Len(s) - 1 /\ (j - 1) + 1 = j
            BY <1>0, <2>1, <5>2
          <6>2. r[j - 1] = x /\ j - 1 \in 1 .. Len(s) - 1
            BY <1>0, <2>1, <2>2, <4>1, <6>1
          <6>. QED  BY <6>2
        <5>. QED  BY <2>1, <3>2, <4>1, <5>1, <5>2
      <4>. QED  BY <2>3, <4>2, Zenon DEF ToSet
    <3>. QED  BY <3>1, <3>2, Zenon
  <2>. QED  BY <2>2, <2>4
<1>. QED  BY <1>1, <1>2

(* Where the members are after one is added at the tail, or the first is   *)
(* taken.                                                                  *)
LEMMA AppendAt ==
  ASSUME NEW S, NEW s \in Seq(S), NEW e \in S, IsInjective(s), \A i \in 1 .. Len(s) : s[i] # e
  PROVE  /\ Append(s, e) \in Seq(S) /\ Len(Append(s, e)) = Len(s) + 1
         /\ \A i \in 1 .. Len(s) : Append(s, e)[i] = s[i]
         /\ Append(s, e)[Len(s) + 1] = e
         /\ IsInjective(Append(s, e))
BY DEF IsInjective

LEMMA TailAt ==
  ASSUME NEW S, NEW s \in Seq(S), Len(s) > 0, IsInjective(s)
  PROVE  /\ Tail(s) \in Seq(S) /\ Len(Tail(s)) = Len(s) - 1
         /\ \A i \in 1 .. Len(s) - 1 : Tail(s)[i] = s[i + 1]
         /\ IsInjective(Tail(s))
         /\ \A i \in 1 .. Len(s) - 1 : s[i + 1] # s[1]
<1>1. s # <<>>
  OBVIOUS
<1>2. /\ Tail(s) \in Seq(S) /\ Len(Tail(s)) = Len(s) - 1
      /\ \A i \in 1 .. Len(s) - 1 : Tail(s)[i] = s[i + 1]
  BY <1>1
<1>. QED  BY <1>2 DEF IsInjective

(* A non-empty set of natural numbers has a least member. *)
LEMMA LeastMember ==
  ASSUME NEW T, T \subseteq Nat, T # {}
  PROVE  \E x \in T : \A y \in T : x <= y
<1>1. PICK x \in T : \A y \in T : ~(<<y, x>> \in OpToRel(<, Nat))
  BY NatLessThanWellFounded, WFMin, Zenon
<1>2. \A y \in T : ~(y < x)
  BY <1>1 DEF OpToRel
<1>. QED  BY <1>2
(* <<e>> \o s puts e in front of s (kListAdd).                            *)
LEMMA PrependFacts ==
  ASSUME NEW S, NEW s \in Seq(S), NEW e \in S
  PROVE  /\ <<e>> \o s \in Seq(S) /\ Head(<<e>> \o s) = e /\ <<e>> \o s # <<>>
         /\ ToSet(<<e>> \o s) = ToSet(s) \union {e}
         /\ IsInjective(s) /\ e \notin ToSet(s) => IsInjective(<<e>> \o s)
<1>. DEFINE t == <<e>> \o s
<1>1. /\ t \in Seq(S) /\ Len(t) = Len(s) + 1 /\ t[1] = e
      /\ DOMAIN s = 1 .. Len(s) /\ DOMAIN t = 1 .. Len(t) /\ Len(s) \in Nat
      /\ \A i \in 1 .. Len(s) : t[i + 1] = s[i] /\ i + 1 \in 1 .. Len(t)
  OBVIOUS
<1>2. \A i \in 1 .. Len(t) : i = 1 \/ (i - 1 \in 1 .. Len(s) /\ (i - 1) + 1 = i /\ t[i] = s[i - 1])
  BY <1>1
<1>3. 1 \in 1 .. Len(t) /\ t # <<>> /\ Head(t) = e
  BY <1>1
<1>. HIDE DEF t
<1>4. ToSet(t) = ToSet(s) \union {e}
  <2>1. ASSUME NEW x \in ToSet(t) PROVE x \in ToSet(s) \union {e}
    BY <1>1, <1>2, <2>1 DEF ToSet
  <2>2. ASSUME NEW x \in ToSet(s) PROVE x \in ToSet(t)
    BY <1>1, <2>2 DEF ToSet
  <2>3. e \in ToSet(t)
    BY <1>1, <1>3 DEF ToSet
  <2>. QED  BY <2>1, <2>2, <2>3
<1>5. ASSUME IsInjective(s), e \notin ToSet(s), NEW i \in 1 .. Len(t), NEW j \in 1 .. Len(t), t[i] = t[j]
      PROVE  i = j
  <2>1. \A k \in 1 .. Len(t) : k # 1 => t[k] # e
    BY <1>1, <1>2, <1>5 DEF ToSet
  <2>2. CASE i = 1 \/ j = 1
    BY <1>1, <1>5, <2>1, <2>2
  <2>3. CASE i # 1 /\ j # 1
    <3>1. s[i - 1] = s[j - 1] /\ i - 1 \in 1 .. Len(s) /\ j - 1 \in 1 .. Len(s)
      BY <1>2, <1>5, <2>3
    <3>2. i - 1 = j - 1
      BY <1>1, <1>5, <3>1 DEF IsInjective
    <3>. QED  BY <3>2
  <2>. QED  BY <2>2, <2>3
<1>6. IsInjective(s) /\ e \notin ToSet(s) => IsInjective(t)
  BY <1>1, <1>5 DEF IsInjective
<1>. QED  BY <1>1, <1>3, <1>4, <1>6 DEF t

-----------------------------------------------------------------------------
(* Quotient and remainder.                                                 *)
LEMMA DivModFacts ==
  ASSUME NEW n \in Nat \ {0}, NEW x \in Nat
  PROVE  /\ x \div n \in Nat /\ x % n \in 0 .. n - 1
         /\ x = n * (x \div n) + (x % n)
OBVIOUS

(* A number is a multiple and a remainder in one way.                      *)
LEMMA ProductUnique ==
  ASSUME NEW n \in Nat \ {0}, NEW i \in Nat, NEW j \in Nat, NEW a \in 0 .. n - 1, NEW b \in 0 .. n - 1,
         i * n + a = j * n + b
  PROVE  i = j /\ a = b
<1>1. ASSUME i < j PROVE FALSE
  <2>1. (i + 1) * n <= j * n
    BY <1>1
  <2>2. (i + 1) * n = i * n + n
    OBVIOUS
  <2>. QED  BY <2>1, <2>2
<1>2. ASSUME j < i PROVE FALSE
  <2>1. (j + 1) * n <= i * n
    BY <1>2
  <2>2. (j + 1) * n = j * n + n
    OBVIOUS
  <2>. QED  BY <2>1, <2>2
<1>. QED  BY <1>1, <1>2

(* ... so the quotient and remainder of i * n + a are i and a.             *)
LEMMA MultipleFacts ==
  ASSUME NEW n \in Nat \ {0}, NEW i \in Nat, NEW a \in 0 .. n - 1
  PROVE  (i * n + a) % n = a /\ (i * n + a) \div n = i
<1>. PICK x \in Nat : x = i * n + a
  OBVIOUS
<1>1. x = n * (x \div n) + (x % n) /\ x \div n \in Nat /\ x % n \in 0 .. n - 1
  BY DivModFacts
<1>2. PICK j, b : j = x \div n /\ b = x % n
  OBVIOUS
<1>3. j * n + b = i * n + a
  BY <1>1, <1>2
<1>4. j = i /\ b = a
  BY <1>1, <1>2, <1>3, ProductUnique
<1>. QED  BY <1>2, <1>4

(* x is a multiple of n when its remainder is zero.                        *)
LEMMA MultipleIff ==
  ASSUME NEW n \in Nat \ {0}, NEW p \in Nat
  PROVE  (p % n = 0) <=> (\E i \in Nat : p = i * n)
<1>1. ASSUME p % n = 0 PROVE \E i \in Nat : p = i * n
  <2>1. PICK i \in Nat : i = p \div n
    BY DivModFacts
  <2>2. p = n * i + 0
    BY <1>1, <2>1, DivModFacts
  <2>. QED  BY <2>2
<1>2. ASSUME NEW i \in Nat, p = i * n PROVE p % n = 0
  <2>1. p = i * n + 0 /\ 0 \in 0 .. n - 1
    BY <1>2
  <2>. QED  BY <2>1, MultipleFacts
<1>. QED  BY <1>1, <1>2

(* Dividing twice is dividing by the product.                              *)
LEMMA NestedQuotient ==
  ASSUME NEW m \in Nat \ {0}, NEW n \in Nat \ {0}, NEW a \in Nat
  PROVE  (a \div m) \div n = a \div (n * m)
<1>1. PICK q, r : q = a \div m /\ r = a % m
  OBVIOUS
<1>2. q \in Nat /\ r \in 0 .. m - 1 /\ a = m * q + r
  BY <1>1, DivModFacts
<1>3. PICK p, s : p = q \div n /\ s = q % n
  OBVIOUS
<1>4. p \in Nat /\ s \in 0 .. n - 1 /\ q = n * p + s
  BY <1>2, <1>3, DivModFacts
<1>. PICK w \in Nat \ {0} : w = n * m
  OBVIOUS
<1>5. m * s + r \in 0 .. w - 1
  <2>1. m * (s + 1) <= m * n /\ m * (s + 1) = m * s + m /\ m * n = n * m
    BY <1>4
  <2>2. m * s \in Nat
    BY <1>4
  <2>. QED  BY <1>2, <2>1, <2>2
<1>6. a = p * w + (m * s + r)
  <2>1. m * (n * p + s) = m * (n * p) + m * s /\ m * (n * p) = p * (n * m)
    BY <1>4
  <2>. QED  BY <1>2, <1>4, <2>1
<1>7. a \div w = p
  BY <1>4, <1>5, <1>6, MultipleFacts
<1>. QED  BY <1>1, <1>3, <1>7
=============================================================================
