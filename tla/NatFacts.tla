------------------------------ MODULE NatFacts ------------------------------
(* The least element of a set of natural numbers, and induction over a set: in *)
(* this form, without an operator as a parameter, both can be cited.            *)
EXTENDS Integers, WellFoundedInduction, TLAPS

(* A set of natural numbers that is not empty has a least element. *)
LEMMA LeastElement ==
  ASSUME NEW S \in SUBSET Nat, S # {}
  PROVE  \E x \in S : \A y \in S : x <= y
<1> DEFINE R == OpToRel(<, Nat)
<1>1. \E x \in S : \A y \in S : ~ (<<y, x>> \in R)
  <2>1. IsWellFoundedOn(R, Nat)
    BY NatLessThanWellFounded
  <2> HIDE DEF R
  <2> QED
    BY <2>1, WFMin
<1>2. \A x, y \in Nat : <<y, x>> \notin R => x <= y
  BY DEF OpToRel
<1> QED
  BY <1>1, <1>2

(* A set that has 0 and with every number the next one has every number. *)
LEMMA InductionOverSet ==
  ASSUME NEW S, 0 \in S, \A n \in Nat : n \in S => n + 1 \in S
  PROVE  Nat \subseteq S
<1> SUFFICES ASSUME Nat \ S # {} PROVE FALSE
  OBVIOUS
<1>1. PICK x \in Nat \ S : \A y \in Nat \ S : x <= y
  <2> Nat \ S \in SUBSET Nat
    OBVIOUS
  <2> QED
    BY LeastElement
<1>2. x - 1 \in Nat /\ x - 1 \in S
  BY <1>1
<1> QED
  BY <1>1, <1>2

-----------------------------------------------------------------------------
(* Two indices less than a lap apart are different slots. *)

(* Quotient and remainder of a natural number. *)
LEMMA DivMod ==
  ASSUME NEW a \in Nat, NEW n \in Nat \ {0}
  PROVE  /\ a = n * (a \div n) + (a % n)
         /\ a % n \in 0 .. n - 1
         /\ a \div n \in Nat
BY SMT

(* No multiple of n lies strictly between 0 and n. *)
LEMMA NoMultipleBetween ==
  ASSUME NEW n \in Nat \ {0}, NEW q \in Int, 0 < n * q, n * q < n
  PROVE  FALSE
BY SMT

(* Indices less than a lap apart are different slots. *)
LEMMA DistinctSlots ==
  ASSUME NEW a \in Nat, NEW b \in Nat, NEW n \in Nat \ {0}, a < b, b - a < n
  PROVE  a % n # b % n
<1> SUFFICES ASSUME a % n = b % n PROVE FALSE
  OBVIOUS
<1> DEFINE q == a \div n
           r == b \div n
<1>1. a = n * q + (a % n) /\ b = n * r + (b % n)
  BY DivMod
<1>2. q \in Int /\ r \in Int /\ a % n \in Int
  BY DivMod
<1> HIDE DEF q, r
<1>3. n * q \in Int /\ n * r \in Int
  BY <1>2
<1>4. b - a = n * r - n * q
  BY <1>1, <1>2, <1>3
<1>5. n * r - n * q = n * (r - q) /\ r - q \in Int
  BY <1>2
<1> QED BY <1>4, <1>5, NoMultipleBetween

(* The remainder of what is small already. *)
LEMMA ModSmall == ASSUME NEW n \in Nat \ {0}, NEW a \in 0 .. n - 1 PROVE a % n = a
BY SMT

(* A number has one remainder. *)
LEMMA OneRemainder ==
  ASSUME NEW n \in Nat \ {0}, NEW q \in Int, NEW p \in Int,
         NEW a \in 0 .. n - 1, NEW b \in 0 .. n - 1, n * q + a = n * p + b
  PROVE  a = b
<1>1. n * (p - q) = a - b /\ n * (q - p) = b - a /\ p - q \in Int /\ q - p \in Int
  <2>1. n * q \in Int /\ n * p \in Int
    OBVIOUS
  <2>2. n * p - n * q = a - b
    BY <2>1
  <2>3. n * (p - q) = n * p - n * q /\ n * (q - p) = n * q - n * p
    OBVIOUS
  <2> QED
    BY <2>1, <2>2, <2>3
<1>2. ~(a < b)
  BY <1>1, NoMultipleBetween
<1>3. ~(b < a)
  BY <1>1, NoMultipleBetween
<1> QED
  BY <1>2, <1>3

(* Multiples do not change a remainder. *)
LEMMA ModMultiple ==
  ASSUME NEW n \in Nat \ {0}, NEW a \in Nat, NEW q \in Nat
  PROVE  (n * q + a) % n = a % n
<1> DEFINE b == n * q + a
           x == a \div n
           y == b \div n
           s == a % n
           t == b % n
           X == n * x
           Q == n * q
<1>1. Q \in Nat /\ b \in Nat /\ b = Q + a
  OBVIOUS
<1>2. a = X + s /\ s \in 0 .. n - 1 /\ x \in Nat
  BY DivMod
<1>3. b = n * y + t /\ t \in 0 .. n - 1 /\ y \in Nat
  BY <1>1, DivMod
<1> HIDE DEF x, y, s, t, b
<1>4. n * (q + x) = Q + X /\ X \in Nat
  BY <1>2
<1> HIDE DEF X, Q
<1>5. n * (q + x) + s = n * y + t
  BY <1>1, <1>2, <1>3, <1>4
<1>6. q + x \in Int /\ y \in Int
  BY <1>2, <1>3
<1>7. s = t
  BY <1>2, <1>3, <1>5, <1>6, OneRemainder
<1> QED
  BY <1>7 DEF s, t, b

(* Going on from a remainder. *)
LEMMA ModAdd ==
  ASSUME NEW n \in Nat \ {0}, NEW a \in Nat, NEW b \in Nat
  PROVE  ((a % n) + b) % n = (a + b) % n
<1> DEFINE q == a \div n
           r == a % n
<1>1. a = n * q + r /\ r \in Nat /\ q \in Nat
  BY DivMod
<1> HIDE DEF q, r
<1>2. a + b = n * q + (r + b) /\ r + b \in Nat
  BY <1>1
<1>3. (n * q + (r + b)) % n = (r + b) % n
  BY <1>1, <1>2, ModMultiple
<1> QED
  BY <1>2, <1>3 DEF r
=============================================================================
