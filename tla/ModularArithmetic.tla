--------------------------- MODULE ModularArithmetic ---------------------------
(***************************************************************************)
(* Facts about remainders and multiples that the proofs about the rings      *)
(* cite: a ring of d cells keeps position p in cell p % d, and an offset is   *)
(* aligned to a unit of d bytes when its remainder is zero.  At the end,      *)
(* induction over a set of natural numbers, for what a recursive function    *)
(* computes.                                                                 *)
(***************************************************************************)
EXTENDS Integers, WellFoundedInduction, TLAPS

(* The definition of quotient and remainder, in the form the proofs use.     *)
LEMMA DivMod ==
  ASSUME NEW d \in Nat \ {0}, NEW a \in Int
  PROVE  /\ a = d * (a \div d) + (a % d)
         /\ a % d \in 0 .. d - 1
         /\ a \div d \in Int
  OBVIOUS

(* A product of d that lies strictly between -d and d is zero.               *)
LEMMA SmallMultiple ==
  ASSUME NEW d \in Nat \ {0}, NEW k \in Int, d * k < d, d * k > -d
  PROVE  k = 0
<1>1. k < 1
  <2> SUFFICES ASSUME k >= 1 PROVE FALSE
    OBVIOUS
  <2>1. d * k >= d
    OBVIOUS
  <2> QED
    BY <2>1
<1>2. k > -1
  <2> SUFFICES ASSUME k <= -1 PROVE FALSE
    OBVIOUS
  <2>1. d * k <= -d
    OBVIOUS
  <2> QED
    BY <2>1
<1> QED
  BY <1>1, <1>2

(* Every multiple of d is aligned to d.                                      *)
LEMMA MultipleAligned ==
  ASSUME NEW d \in Nat \ {0}, NEW k \in Int
  PROVE  (d * k) % d = 0
<1> DEFINE q == (d * k) \div d
           r == (d * k) % d
<1> DEFINE a == d * k
<1>0. a \in Int
  OBVIOUS
<1>1. a = d * q + r /\ r \in 0 .. d - 1 /\ q \in Int
  <2> HIDE DEF a
  <2>1. a = d * (a \div d) + (a % d) /\ a % d \in 0 .. d - 1 /\ a \div d \in Int
    BY <1>0, DivMod
  <2> QED
    BY <2>1 DEF a
<1> HIDE DEF q, r
<1>2. d * (k - q) = r
  BY <1>1
<1>3. k - q = 0
  <2>1. k - q \in Int /\ d * (k - q) < d /\ d * (k - q) > -d
    BY <1>1, <1>2
  <2> QED
    BY <2>1, SmallMultiple
<1>4. r = 0
  BY <1>1, <1>2, <1>3
<1> QED
  BY <1>4 DEF r

(* Sums and differences of aligned numbers are aligned.                      *)
LEMMA AlignedSum ==
  ASSUME NEW d \in Nat \ {0}, NEW a \in Int, NEW b \in Int, a % d = 0, b % d = 0
  PROVE  (a + b) % d = 0 /\ (a - b) % d = 0
<1> DEFINE p == a \div d
           q == b \div d
<1>1. a = d * p /\ b = d * q /\ p \in Int /\ q \in Int
  BY DivMod
<1> HIDE DEF p, q
<1>2. a + b = d * (p + q) /\ a - b = d * (p - q)
  BY <1>1
<1> QED
  BY <1>1, <1>2, MultipleAligned

(* Two aligned numbers less than d apart are the same.                       *)
LEMMA AlignedApart ==
  ASSUME NEW d \in Nat \ {0}, NEW a \in Int, NEW b \in Int,
         a % d = 0, b % d = 0, a - b < d, b - a < d
  PROVE  a = b
<1> DEFINE p == a \div d
           q == b \div d
<1>1. a = d * p /\ b = d * q /\ p \in Int /\ q \in Int
  BY DivMod
<1> HIDE DEF p, q
<1>2. d * (p - q) = a - b /\ p - q \in Int
  BY <1>1
<1>3. p - q = 0
  BY <1>2, SmallMultiple
<1> QED
  BY <1>1, <1>3

(* Two positions share a cell of a ring of d only when d or more apart.      *)
LEMMA CellOfOne ==
  ASSUME NEW d \in Nat \ {0}, NEW p \in Int, NEW q \in Int,
         p % d = q % d, p - q < d, q - p < d
  PROVE  p = q
<1> DEFINE a == p \div d
           b == q \div d
           r == p % d
<1>1. p = d * a + r /\ q = d * b + r /\ a \in Int /\ b \in Int /\ r \in Int
  BY DivMod
<1> HIDE DEF a, b, r
<1>2. d * (a - b) = p - q /\ a - b \in Int
  BY <1>1
<1>3. a - b = 0
  BY <1>2, SmallMultiple
<1> QED
  BY <1>1, <1>3

(* Cutting a number down to a multiple of d loses less than d of it.         *)
LEMMA CutDown ==
  ASSUME NEW d \in Nat \ {0}, NEW a \in Nat
  PROVE  /\ (a \div d) * d \in Nat
         /\ (a \div d) * d <= a
         /\ a < (a \div d) * d + d
         /\ ((a \div d) * d) % d = 0
<1> DEFINE q == a \div d
           r == a % d
<1>1. a = d * q + r /\ r \in 0 .. d - 1 /\ q \in Int
  BY DivMod
<1> HIDE DEF q, r
<1>2. q > -1
  <2> SUFFICES ASSUME q <= -1 PROVE FALSE
    BY <1>1
  <2>1. d * q <= -d
    BY <1>1
  <2> QED
    BY <2>1, <1>1
<1>3. d * q = q * d /\ d * q \in Nat
  BY <1>1, <1>2
<1>4. (d * q) % d = 0
  BY <1>1, MultipleAligned
<1> QED
  BY <1>1, <1>3, <1>4 DEF q

(* Cutting an aligned number down leaves it alone.                           *)
LEMMA CutAligned ==
  ASSUME NEW d \in Nat \ {0}, NEW a \in Nat, a % d = 0
  PROVE  (a \div d) * d = a
<1> DEFINE q == a \div d
<1>1. a = d * q /\ q \in Int
  BY DivMod
<1> HIDE DEF q
<1> QED
  BY <1>1 DEF q

(* A multiple of d below n * d leaves room for d more.                       *)
LEMMA MultipleBelow ==
  ASSUME NEW d \in Nat \ {0}, NEW n \in Nat, NEW k \in 0 .. n - 1
  PROVE  k * d \in Nat /\ n * d \in Nat /\ k * d + d <= n * d
<1> DEFINE m == n - k - 1
<1>1. m \in Nat /\ k \in Nat /\ n = k + 1 + m
  OBVIOUS
<1> HIDE DEF m
<1>2. m * d \in Nat /\ k * d \in Nat
  BY <1>1
<1>3. (k + 1 + m) * d = k * d + d + m * d
  BY <1>1
<1> QED
  BY <1>1, <1>2, <1>3

(* The rest of a division is no larger than what is divided.                 *)
LEMMA RemainderSmall ==
  ASSUME NEW d \in Nat \ {0}, NEW a \in Nat
  PROVE  a % d \in 0 .. a
<1> DEFINE q == a \div d
           r == a % d
<1>1. (a \div d) * d \in Nat
  BY CutDown
<1>2. a = d * q + r /\ r \in 0 .. d - 1 /\ q \in Int
  BY DivMod
<1>3. q * d \in Nat
  BY <1>1
<1> HIDE DEF q, r
<1>4. d * q = q * d
  BY <1>2
<1>5. r \in 0 .. a
  BY <1>2, <1>3, <1>4
<1> QED
  BY <1>5 DEF r

(* A length cut into pieces of d, the last of them shorter: every piece has   *)
(* something in it, and n pieces are enough for what is not longer.          *)
LEMMA Pieces ==
  ASSUME NEW d \in Nat \ {0}, NEW a \in Nat
  PROVE  LET q == (a + d - 1) \div d IN
         /\ q \in Nat
         /\ \A k \in 1 .. q : (k - 1) * d \in Nat /\ (k - 1) * d < a /\ k * d = (k - 1) * d + d
         /\ \A n \in Nat : a <= n * d => q <= n
<1> DEFINE q == (a + d - 1) \div d
           r == (a + d - 1) % d
<1>1. a + d - 1 = d * q + r /\ r \in 0 .. d - 1 /\ q \in Int
  <2>1. a + d - 1 \in Int
    OBVIOUS
  <2> QED
    BY ONLY <2>1, d \in Nat \ {0}, DivMod
<1> HIDE DEF q, r
<1>2. q \in Nat
  <2> SUFFICES ASSUME q <= -1 PROVE FALSE
    BY <1>1
  <2>1. d * q <= -d
    <3>1. d * (q + 1) <= 0
      BY <1>1
    <3>2. d * (q + 1) = d * q + d
      BY <1>1
    <3> QED
      BY <1>1, <3>1, <3>2
  <2> QED
    BY <1>1, <2>1
<1>3. ASSUME NEW k \in 1 .. q
      PROVE  (k - 1) * d \in Nat /\ (k - 1) * d < a /\ k * d = (k - 1) * d + d
  <2>1. k - 1 \in 0 .. q - 1
    BY <1>2
  <2>2. (k - 1) * d \in Nat /\ q * d \in Nat /\ (k - 1) * d + d <= q * d
    BY ONLY <1>2, <2>1, d \in Nat \ {0}, MultipleBelow
  <2>3. q * d = d * q
    BY <1>2
  <2>4. k * d = (k - 1) * d + d
    BY <1>2
  <2> QED
    BY <1>1, <2>2, <2>3, <2>4
<1>4. ASSUME NEW n \in Nat, a <= n * d
      PROVE  q <= n
  <2> SUFFICES ASSUME n \in 0 .. q - 1 PROVE FALSE
    BY <1>2
  <2>1. n * d \in Nat /\ q * d \in Nat /\ n * d + d <= q * d
    BY ONLY <1>2, n \in 0 .. q - 1, d \in Nat \ {0}, MultipleBelow
  <2>2. q * d = d * q
    BY <1>2
  <2> QED
    BY <1>1, <1>4, <2>1, <2>2
<1> QED
  BY <1>2, <1>3, <1>4 DEF q

-----------------------------------------------------------------------------
(* A set of natural numbers that has a member has a least one.               *)
LEMMA LeastNatural ==
  ASSUME NEW T \in SUBSET Nat, T # {}
  PROVE  \E x \in T : \A y \in T : x <= y
<1> DEFINE Less == {ss \in Nat \X Nat : ss[1] < ss[2]}
<1>1. IsWellFoundedOn(Less, Nat)
  BY NatLessThanWellFounded DEF OpToRel
<1>2. \A x, y \in Nat : <<y, x>> \in Less <=> y < x
  OBVIOUS
<1> HIDE DEF Less
<1>3. PICK x \in T : \A y \in T : ~ (<<y, x>> \in Less)
  BY <1>1, WFMin
<1>4. \A y \in T : ~ (y < x)
  BY <1>2, <1>3
<1> QED
  BY <1>4

(* A set that holds 0, and k + 1 whenever it holds k, holds all of Nat.      *)
LEMMA SetInduction ==
  ASSUME NEW G, 0 \in G, \A k \in Nat : k \in G => k + 1 \in G
  PROVE  Nat \subseteq G
<1> SUFFICES ASSUME NEW b \in Nat, b \notin G
             PROVE  FALSE
  OBVIOUS
<1>1. PICK x \in Nat \ G : \A y \in Nat \ G : x <= y
  <2>1. Nat \ G \in SUBSET Nat /\ Nat \ G # {}
    OBVIOUS
  <2> QED
    BY <2>1, LeastNatural
<1>2. x # 0 /\ x - 1 \in Nat
  BY <1>1
<1>3. x - 1 \in G
  BY <1>1, <1>2
<1> QED
  BY <1>1, <1>2, <1>3

=============================================================================
