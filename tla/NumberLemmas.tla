---------------------------- MODULE NumberLemmas ----------------------------
(***************************************************************************)
(* Facts about natural numbers that the proofs about several modules rest  *)
(* on: the least element of a set, and quotients and remainders.           *)
(***************************************************************************)
EXTENDS Integers, FiniteSetsExt, TLAPS, WellFoundedInduction

\* Any set of naturals that is not empty has a least element, and Min is it.
LEMMA MinOfNat ==
  ASSUME NEW S, S \subseteq Nat, S # {}
  PROVE  Min(S) \in S /\ \A y \in S : Min(S) <= y
<1> DEFINE R == OpToRel(<, Nat)
<1>1. IsWellFoundedOn(R, Nat)
  BY NatLessThanWellFounded
<1>2. PICK x \in S : \A y \in S : <<y, x>> \notin R
  BY <1>1, WFMin
<1>3. \A y \in S : x <= y
  <2> SUFFICES ASSUME NEW y \in S, y < x PROVE FALSE
    OBVIOUS
  <2>1. <<y, x>> \in R
    BY DEF OpToRel
  <2> QED
    BY <1>2, <2>1
<1> QED
  BY <1>3 DEF Min

\* Quotient and remainder, as the index computations of free_frame use them.
LEMMA DivMod ==
  ASSUME NEW a \in Int, NEW d \in Nat \ {0}
  PROVE  /\ a \div d \in Int
         /\ a % d \in 0 .. d - 1
         /\ a = (a \div d) * d + (a % d)
         /\ a \in Nat => a \div d \in Nat
BY SMT

\* Word and bit determine the index i * 64 + bit_index that alloc_frame forms.
LEMMA DivModUnique ==
  ASSUME NEW q \in Int, NEW d \in Nat \ {0}, NEW r \in 0 .. d - 1
  PROVE  (q * d + r) \div d = q /\ (q * d + r) % d = r
BY SMT

\* A greater number has a greater quotient.
LEMMA DivMonotone ==
  ASSUME NEW a \in Int, NEW b \in Int, NEW d \in Nat \ {0}, a <= b
  PROVE  a \div d <= b \div d
<1> DEFINE p == a \div d
           q == b \div d
<1>1. /\ p \in Int /\ q \in Int
      /\ a >= p * d /\ b < q * d + d
  BY DivMod
<1>2. SUFFICES ASSUME p >= q + 1 PROVE FALSE
  BY <1>1
<1>3. p * d >= (q + 1) * d
  BY <1>1, <1>2
<1>4. (q + 1) * d = q * d + d
  BY <1>1
<1> QED
  BY <1>1, <1>3, <1>4

\* Two multiples of d that are not equal are at least d apart.
LEMMA MultiplesApart ==
  ASSUME NEW a \in Int, NEW b \in Int, NEW d \in Nat \ {0},
         a % d = 0, b % d = 0, a < b
  PROVE  a + d <= b
<1> DEFINE p == a \div d
           q == b \div d
<1>1. p \in Int /\ q \in Int /\ a = p * d /\ b = q * d
  BY DivMod
<1>2. SUFFICES ASSUME q <= p PROVE FALSE
  <2>1. CASE q >= p + 1
    <3>1. q * d >= (p + 1) * d /\ (p + 1) * d = p * d + d
      BY <1>1, <2>1
    <3> QED
      BY <1>1, <3>1
  <2> QED
    BY <1>1, <2>1
<1>3. q * d <= p * d
  BY <1>1, <1>2
<1> QED
  BY <1>1, <1>3

\* The sum of two multiples is a multiple.
LEMMA SumOfMultiples ==
  ASSUME NEW a \in Int, NEW b \in Int, NEW d \in Nat \ {0},
         a % d = 0, b % d = 0
  PROVE  (a + b) % d = 0
<1> DEFINE p == a \div d
           q == b \div d
<1>1. p \in Int /\ q \in Int /\ a = p * d /\ b = q * d
  BY DivMod
<1>2. a + b = (p + q) * d + 0 /\ 0 \in 0 .. d - 1
  BY <1>1
<1> HIDE DEF p, q
<1>3. ((p + q) * d + 0) % d = 0
  BY <1>1, <1>2, DivModUnique
<1> QED
  BY <1>2, <1>3

\* A divisor of a divisor divides.
LEMMA MultipleOfMultiple ==
  ASSUME NEW a \in Int, NEW b \in Nat \ {0}, NEW d \in Nat \ {0},
         a % b = 0, b % d = 0
  PROVE  a % d = 0
<1> DEFINE p == a \div b
           q == b \div d
<1>1. p \in Int /\ q \in Int /\ a = p * b /\ b = q * d
  BY DivMod
<1> HIDE DEF p, q
<1>2. a = (p * q) * d + 0 /\ p * q \in Int /\ 0 \in 0 .. d - 1
  <2>1. p * (q * d) = (p * q) * d /\ p * q \in Int
    BY <1>1
  <2> QED
    BY <1>1, <2>1
<1>3. ((p * q) * d + 0) % d = 0
  BY <1>2, DivModUnique, SMTT(30)
<1> QED
  BY <1>2, <1>3

\* Products grow with their factors.
LEMMA TimesMonotone ==
  ASSUME NEW a \in Nat, NEW b \in Nat, NEW c \in Nat, b <= c
  PROVE  a * b <= a * c /\ a * b \in Nat /\ a * c \in Nat
BY SMTT(30)

\* The greater of two numbers.
LEMMA MaxOfTwo ==
  ASSUME NEW a \in Int, NEW b \in Int
  PROVE  Max({a, b}) = IF a >= b THEN a ELSE b
<1> DEFINE m == IF a >= b THEN a ELSE b
<1>1. m \in {a, b} /\ \A y \in {a, b} : m >= y
  OBVIOUS
<1>2. \A x \in {a, b} : (\A y \in {a, b} : x >= y) => x = m
  OBVIOUS
<1> QED
  BY <1>1, <1>2 DEF Max

\* The lesser of two numbers.
LEMMA MinOfTwo ==
  ASSUME NEW a \in Nat, NEW b \in Nat
  PROVE  Min({a, b}) = IF a <= b THEN a ELSE b
<1>1. Min({a, b}) \in {a, b} /\ \A y \in {a, b} : Min({a, b}) <= y
  BY MinOfNat
<1> QED
  BY <1>1

\* An index below the size of n parts of d lies in one of the n.
LEMMA QuotientBelow ==
  ASSUME NEW a \in Nat, NEW d \in Nat \ {0}, NEW n \in Nat
  PROVE  a < d * n <=> a \div d < n
<1> DEFINE q == a \div d
<1>1. q \in Nat /\ a >= q * d /\ a < q * d + d
  BY DivMod
<1> HIDE DEF q
<1>2. CASE q >= n
  <2>1. q * d >= n * d /\ n * d = d * n
    BY <1>1, <1>2
  <2> QED
    BY <1>1, <1>2, <2>1 DEF q
<1>3. CASE q + 1 <= n
  <2>1. (q + 1) * d <= n * d /\ n * d = d * n /\ (q + 1) * d = q * d + d
    BY <1>1, <1>3
  <2> QED
    BY <1>1, <1>3, <2>1 DEF q
<1> QED
  BY <1>1, <1>2, <1>3

-----------------------------------------------------------------------------
(* Induction and recursion.  A property of numbers is the set of those     *)
(* that have it, so that an instance is a set and not an operator.         *)

\* A set with 0 and every successor contains every natural number: the least
\* number outside it would be the successor of one inside.
LEMMA InductionOnNat ==
  ASSUME NEW S, 0 \in S, \A n \in Nat : n \in S => n + 1 \in S
  PROVE  Nat \subseteq S
<1> SUFFICES ASSUME Nat \ S # {} PROVE FALSE
  OBVIOUS
<1> DEFINE m == Min(Nat \ S)
<1>1. m \in Nat \ S /\ \A y \in Nat \ S : m <= y
  BY MinOfNat
<1> HIDE DEF m
<1>2. m # 0
  BY <1>1
<1>3. m - 1 \in S
  BY <1>1, <1>2
<1>4. m \in S
  BY <1>1, <1>2, <1>3
<1> QED
  BY <1>1, <1>4

\* n steps, each a function on S, can be taken one after the other from any
\* first element: the recursive functions of the models exist.
LEMMA Iterate ==
  ASSUME NEW S, NEW first \in S, NEW n \in Nat, NEW step \in [1 .. n -> [S -> S]]
  PROVE  \E h \in [0 .. n -> S] : h[0] = first /\ \A j \in 1 .. n : h[j] = step[j][h[j - 1]]
<1> DEFINE Runs(m) == \E h \in [0 .. m -> S] :
                        h[0] = first /\ \A j \in 1 .. m : h[j] = step[j][h[j - 1]]
           T == {m \in Nat : m <= n => Runs(m)}
<1>1. 0 \in T
  <2> DEFINE h == [j \in 0 .. 0 |-> first]
  <2>1. h \in [0 .. 0 -> S] /\ h[0] = first
    OBVIOUS
  <2> HIDE DEF h
  <2>2. Runs(0)
    BY <2>1
  <2> QED
    BY <2>2
<1>2. ASSUME NEW m \in Nat, m \in T
      PROVE  m + 1 \in T
  <2> SUFFICES ASSUME m + 1 <= n PROVE Runs(m + 1)
    OBVIOUS
  <2>1. PICK h \in [0 .. m -> S] : h[0] = first /\ \A j \in 1 .. m : h[j] = step[j][h[j - 1]]
    BY <1>2
  <2> DEFINE k == [j \in 0 .. m + 1 |-> IF j = m + 1 THEN step[m + 1][h[m]] ELSE h[j]]
  <2>2. step[m + 1] \in [S -> S] /\ h[m] \in S
    BY <2>1
  <2>3. k \in [0 .. m + 1 -> S]
    BY <2>1, <2>2
  <2>4. k[0] = first
    BY <2>1
  <2>5. ASSUME NEW j \in 1 .. m + 1
        PROVE  k[j] = step[j][k[j - 1]]
    <3>1. j - 1 \in 0 .. m /\ k[j - 1] = h[j - 1]
      OBVIOUS
    <3>2. CASE j = m + 1
      BY <3>1, <3>2
    <3>3. CASE j # m + 1
      <4>1. j \in 1 .. m /\ k[j] = h[j]
        BY <3>3
      <4> QED
        BY <2>1, <3>1, <4>1
    <3> QED
      BY <3>2, <3>3
  <2> HIDE DEF k
  <2> QED
    BY <2>3, <2>4, <2>5
<1> HIDE DEF T
<1>3. n \in T
  BY <1>1, <1>2, InductionOnNat
<1> QED
  BY <1>3 DEF T
=============================================================================
