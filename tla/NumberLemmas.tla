---------------------------- MODULE NumberLemmas ----------------------------
(***************************************************************************)
(* What the proofs need to know of numbers: division with remainder for a  *)
(* divisor that is a constant of a specification, and induction in the     *)
(* form the provers can use, over a set instead of a predicate.            *)
(***************************************************************************)
EXTENDS FiniteSetTheorems, TLAPS

(* A set of numbers has a least element.                                   *)
LEMMA LeastNumber ==
  ASSUME NEW S \in SUBSET Nat, S # {}
  PROVE  \E n \in S : \A m \in S : n <= m
<1> DEFINE Less == OpToRel(<, Nat)
<1>1. \A m, n \in S : m < n => <<m, n>> \in Less
  BY DEF OpToRel
<1>2. IsWellFoundedOn(Less, Nat)
  BY NatLessThanWellFounded
<1> HIDE DEF Less
<1>3. \E n \in S : \A m \in S : ~(<<m, n>> \in Less)
  BY <1>2, WFMin
<1>4. \A m, n \in S : ~(m < n) => n <= m
  OBVIOUS
<1> QED
  BY <1>1, <1>3, <1>4

(* Induction: a set of numbers with zero and all successors has them all.  *)
LEMMA NumberInduction ==
  ASSUME NEW S, 0 \in S, \A n \in Nat : n \in S => n + 1 \in S
  PROVE  Nat \subseteq S
<1> SUFFICES ASSUME Nat \ S # {} PROVE FALSE
  OBVIOUS
<1>1. PICK n \in Nat \ S : \A m \in Nat \ S : n <= m
  <2>1. Nat \ S \in SUBSET Nat
    OBVIOUS
  <2> QED
    BY <2>1, LeastNumber
<1>2. n # 0 /\ n - 1 \in Nat /\ n = (n - 1) + 1
  OBVIOUS
<1>3. n - 1 \in S
  BY <1>1, <1>2
<1> QED
  BY <1>2, <1>3

-----------------------------------------------------------------------------
LEMMA Remainder ==
  ASSUME NEW n \in Nat, NEW d \in Nat \ {0}, NEW q \in Nat, NEW r \in Nat,
         q = n \div d, r = n % d
  PROVE  n = q * d + r
OBVIOUS

LEMMA Division ==
  ASSUME NEW n \in Nat, NEW d \in Nat \ {0}
  PROVE  /\ n \div d \in Nat /\ n % d \in 0 .. d - 1
         /\ \E q \in Nat, r \in 0 .. d - 1 : n = q * d + r /\ q = n \div d /\ r = n % d
<1>1. n \div d \in Nat /\ n % d \in 0 .. d - 1
  OBVIOUS
<1>2. PICK q \in Nat : q = n \div d
  BY <1>1
<1>3. PICK r \in 0 .. d - 1 : r = n % d
  BY <1>1
<1>4. n = q * d + r
  BY <1>2, <1>3, Remainder
<1> QED
  BY <1>1, <1>2, <1>3, <1>4

(* Quotient and remainder are the only ones.                               *)
LEMMA Quotient ==
  ASSUME NEW n \in Nat, NEW d \in Nat \ {0}, NEW q \in Nat, NEW r \in 0 .. d - 1,
         n = q * d + r
  PROVE  n \div d = q /\ n % d = r
OBVIOUS

LEMMA SmallModulo ==
  ASSUME NEW n \in Nat, NEW d \in Nat \ {0}, n < d
  PROVE  n % d = n /\ n \div d = 0
OBVIOUS

LEMMA ModuloPlus ==
  ASSUME NEW n \in Nat, NEW d \in Nat \ {0}
  PROVE  (n + d) % d = n % d
<1>1. PICK q \in Nat, r \in 0 .. d - 1 : n = q * d + r /\ r = n % d
  BY Division
<1>2. n = q * d + r
  BY <1>1
<1>3. (q + 1) * d + r = n + d
  BY <1>2
<1>4. ASSUME NEW m \in Nat, NEW k \in Nat, k * d + r = m PROVE m % d = r
  BY <1>4, Quotient
<1>5. (n + d) % d = r
  <2>1. q + 1 \in Nat /\ n + d \in Nat
    OBVIOUS
  <2> QED
    BY <2>1, <1>3, <1>4
<1> QED
  BY <1>1, <1>5

LEMMA ModuloRange ==
  ASSUME NEW n \in Int, NEW d \in Nat \ {0}
  PROVE  n % d \in 0 .. d - 1
OBVIOUS

LEMMA ProductMonotone ==
  ASSUME NEW a \in Nat, NEW b \in Nat, NEW d \in Nat, a <= b
  PROVE  a * d \in Nat /\ b * d \in Nat /\ a * d <= b * d
<1>1. PICK e \in Nat : b = a + e
  <2>1. b - a \in Nat /\ b = a + (b - a)
    OBVIOUS
  <2> QED
    BY <2>1
<1>2. a * d \in Nat /\ b * d \in Nat /\ e * d \in Nat
  OBVIOUS
<1>3. (a + e) * d = a * d + e * d
  OBVIOUS
<1> QED
  BY <1>1, <1>2, <1>3

(* A quotient is at least k when the number is at least k divisors.        *)
LEMMA Floor ==
  ASSUME NEW n \in Nat, NEW d \in Nat \ {0}, NEW k \in Nat
  PROVE  n \div d >= k <=> n >= k * d
<1>1. PICK q \in Nat, r \in 0 .. d - 1 : n = q * d + r /\ q = n \div d
  BY Division
<1> DEFINE low == k * d
           at == q * d
<1>2. low \in Nat /\ at \in Nat /\ n = at + r
  BY <1>1
<1>3. CASE k <= q
  <2>1. low <= at
    BY <1>3, ProductMonotone
  <2> HIDE DEF low, at
  <2> QED
    BY <1>1, <1>2, <1>3, <2>1
<1>4. CASE ~(k <= q)
  <2>1. q + 1 \in Nat /\ q + 1 <= k
    BY <1>4
  <2>2. (q + 1) * d <= low
    BY <2>1, ProductMonotone
  <2>3. (q + 1) * d = at + d
    OBVIOUS
  <2> HIDE DEF low, at
  <2>4. n < low
    BY <1>2, <2>2, <2>3
  <2> QED
    BY <1>1, <1>2, <1>4, <2>4
<1> QED
  BY <1>3, <1>4
=============================================================================
