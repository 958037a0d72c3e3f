----------------------------- MODULE Induction -----------------------------
(***************************************************************************)
(* Induction over the natural numbers in the form the proofs use: on a set *)
(* of numbers.  What it gives of finite sets, that they can be sorted: the *)
(* generator sorts annotations, the stores sort items.  And what the       *)
(* proofs use of multiples: snapshots follow the multiples of the interval.*)
(***************************************************************************)
EXTENDS FiniteSetTheorems, TLAPS

(* Induction on sets of numbers, from the well-foundedness of the strict   *)
(* subset ordering: a smallest number outside T would have a predecessor.  *)
LEMMA SetInduction ==
  ASSUME NEW T \in SUBSET Nat, 0 \in T, \A n \in T : n + 1 \in T
  PROVE  T = Nat
<1> DEFINE R == StrictSubsetOrdering(Nat)
           Below == {0..(n - 1) : n \in Nat \ T}
<1>1. SUFFICES ASSUME Nat \ T # {} PROVE FALSE
  OBVIOUS
<1>2. Below \subseteq FiniteSubsetsOf(Nat)
  <2>1. ASSUME NEW n \in Nat PROVE 0..(n - 1) \in FiniteSubsetsOf(Nat)
    <3>1. IsFiniteSet(0..(n - 1))
      BY FS_Interval
    <3>2. 0..(n - 1) \subseteq Nat
      OBVIOUS
    <3>. QED
      BY <3>1, <3>2 DEF FiniteSubsetsOf
  <2>. QED
    BY <2>1
<1>3. Below # {}
  BY <1>1
<1>4. \E s \in Below : \A t \in Below : ~(<<t, s>> \in R)
  <2> HIDE DEF Below, R
  <2>1. IsWellFoundedOn(R, FiniteSubsetsOf(Nat))
    BY FS_StrictSubsetOrderingWellFounded DEF R
  <2>. QED
    BY <1>2, <1>3, <2>1, WFMin
<1>5. PICK x \in Nat \ T : \A n \in Nat \ T : ~(<<0..(n - 1), 0..(x - 1)>> \in R)
  BY <1>4
<1>6. x # 0 /\ x - 1 \in Nat /\ x - 1 \notin T
  OBVIOUS
<1>7. /\ 0..(x - 1 - 1) \subseteq 0..(x - 1)
      /\ 0..(x - 1 - 1) # 0..(x - 1)
  <2>1. x - 1 \in 0..(x - 1) /\ x - 1 \notin 0..(x - 1 - 1)
    BY <1>6
  <2>. QED
    BY <1>6, <2>1
<1>8. <<0..(x - 1 - 1), 0..(x - 1)>> \in R
  BY <1>6, <1>7 DEF StrictSubsetOrdering
<1>. QED
  BY <1>5, <1>6, <1>8

-----------------------------------------------------------------------------
(***************************************************************************)
(* Finite sets can be sorted.  The order is a relation, R: elements may    *)
(* be equal in it.                                                         *)
(***************************************************************************)
Orders(R, S) ==
  /\ \A x, y \in S : <<x, y>> \in R \/ <<y, x>> \in R
  /\ \A x, y, z \in S : <<x, y>> \in R /\ <<y, z>> \in R => <<x, z>> \in R

Enumerates(s, S, n) ==
  s \in [1..n -> S] /\ \A j, k \in 1..n : j # k => s[j] # s[k]

Sorts(s, R, n) == \A j, k \in 1..n : j < k => <<s[j], s[k]>> \in R

LEMMA LastOfOrder ==
  ASSUME NEW R, NEW S, IsFiniteSet(S), S # {}, Orders(R, S)
  PROVE  \E x \in S : \A y \in S : <<y, x>> \in R
<1> DEFINE Has(U) == \E x \in U : \A y \in U : <<y, x>> \in R
           T == {n \in Nat : \A U \in SUBSET S :
                                IsFiniteSet(U) /\ Cardinality(U) = n /\ U # {} => Has(U)}
<1>1. 0 \in T
  BY FS_EmptySet
<1>2. ASSUME NEW n \in T PROVE n + 1 \in T
  <2>1. SUFFICES ASSUME NEW U \in SUBSET S, IsFiniteSet(U), Cardinality(U) = n + 1, U # {}
                 PROVE  Has(U)
    OBVIOUS
  <2>2. PICK x \in U : TRUE
    BY <2>1
  <2> DEFINE V == U \ {x}
  <2>3. V \in SUBSET S /\ IsFiniteSet(V) /\ Cardinality(V) = n
    <3>1. IsFiniteSet(V) /\ Cardinality(V) = (n + 1) - 1
      BY <2>1, <2>2, FS_RemoveElement
    <3>. QED
      BY <3>1
  <2>4. <<x, x>> \in R
    BY <2>2 DEF Orders
  <2>5. CASE V = {}
    BY <2>2, <2>4, <2>5
  <2>6. CASE V # {}
    <3>1. PICK v \in V : \A y \in V : <<y, v>> \in R
      BY <2>3, <2>6
    <3>2. CASE <<v, x>> \in R
      <4>1. \A y \in V : <<y, x>> \in R
        BY <2>2, <2>3, <3>1, <3>2 DEF Orders
      <4>. QED
        BY <2>2, <2>4, <4>1
    <3>3. CASE <<x, v>> \in R
      BY <2>2, <3>1, <3>3
    <3>. QED
      BY <2>2, <2>3, <3>1, <3>2, <3>3 DEF Orders
  <2>. QED
    BY <2>5, <2>6
<1>3. T = Nat
  <2> HIDE DEF T
  <2>1. T \in SUBSET Nat
    BY DEF T
  <2>. QED
    BY <1>1, <1>2, <2>1, SetInduction
<1>. QED
  BY <1>3, FS_CardinalityType

LEMMA SortedExists ==
  ASSUME NEW R, NEW S, IsFiniteSet(S), Orders(R, S)
  PROVE  \E s : Enumerates(s, S, Cardinality(S)) /\ Sorts(s, R, Cardinality(S))
<1> DEFINE T == {n \in Nat : \A U \in SUBSET S :
                   IsFiniteSet(U) /\ Cardinality(U) = n
                     => \E s : Enumerates(s, U, n) /\ Sorts(s, R, n)}
<1>1. 0 \in T
  <2> DEFINE s == [k \in 1..0 |-> {}]
  <2>1. \A U : Enumerates(s, U, 0) /\ Sorts(s, R, 0)
    BY DEF Enumerates, Sorts
  <2>. QED
    BY <2>1
<1>2. ASSUME NEW n \in T PROVE n + 1 \in T
  <2>1. SUFFICES ASSUME NEW U \in SUBSET S, IsFiniteSet(U), Cardinality(U) = n + 1
                 PROVE  \E s : Enumerates(s, U, n + 1) /\ Sorts(s, R, n + 1)
    OBVIOUS
  <2>2. U # {}
    BY <2>1, FS_EmptySet
  <2>3. Orders(R, U)
    BY <2>1 DEF Orders
  <2>4. PICK x \in U : \A y \in U : <<y, x>> \in R
    BY <2>1, <2>2, <2>3, LastOfOrder
  <2>5. PICK s : Enumerates(s, U \ {x}, n) /\ Sorts(s, R, n)
    <3>1. U \ {x} \in SUBSET S /\ IsFiniteSet(U \ {x}) /\ Cardinality(U \ {x}) = n
      BY <2>1, <2>4, FS_RemoveElement
    <3>. QED
      BY <3>1
  <2> DEFINE t == [k \in 1..(n + 1) |-> IF k = n + 1 THEN x ELSE s[k]]
  <2>6. \A k \in 1..n : t[k] = s[k] /\ s[k] \in U \ {x}
    BY <2>5 DEF Enumerates
  <2>7. t[n + 1] = x /\ \A k \in 1..(n + 1) : k = n + 1 \/ k \in 1..n
    OBVIOUS
  <2>8. Enumerates(t, U, n + 1)
    BY <2>4, <2>5, <2>6, <2>7 DEF Enumerates
  <2>9. Sorts(t, R, n + 1)
    <3>1. SUFFICES ASSUME NEW j \in 1..(n + 1), NEW k \in 1..(n + 1), j < k
                   PROVE  <<t[j], t[k]>> \in R
      BY DEF Sorts
    <3>2. j \in 1..n
      BY <3>1
    <3>. QED
      BY <2>4, <2>5, <2>6, <2>7, <3>1, <3>2 DEF Sorts
  <2>. QED
    BY <2>8, <2>9
<1>3. T = Nat
  <2> HIDE DEF T
  <2>1. T \in SUBSET Nat
    BY DEF T
  <2>. QED
    BY <1>1, <1>2, <2>1, SetInduction
<1>. QED
  BY <1>3, FS_CardinalityType

LEMMA EnumerationCovers ==
  ASSUME NEW S, IsFiniteSet(S), NEW s, Enumerates(s, S, Cardinality(S))
  PROVE  \A x \in S : \E k \in 1..Cardinality(S) : s[k] = x
<1> DEFINE n == Cardinality(S)
<1>1. n \in Nat /\ Cardinality(1..n) = n
  BY FS_CardinalityType, FS_Interval
<1>2. s \in Injection(1..n, S)
  BY DEF Enumerates, Injection, IsInjective
<1>3. s \in Surjection(1..n, S)
  BY <1>1, <1>2, FS_Injection
<1>. QED
  BY <1>3 DEF Surjection

-----------------------------------------------------------------------------
(* Multiples of n are at most n apart. *)
LEMMA MultipleInWindow ==
  ASSUME NEW n \in Nat \ {0}, NEW m \in Nat
  PROVE  \E k \in m - n + 1..m : k % n = 0
<1>. DEFINE q == m \div n
<1>1. q \in Nat /\ m = n * q + (m % n) /\ m % n \in 0..n - 1
  OBVIOUS
<1>2. n * q \in m - n + 1..m
  BY <1>1
<1>3. (n * q) % n = 0
  BY <1>1
<1>. QED
  BY <1>2, <1>3

(* Only the multiples of 1 are neighbours. *)
LEMMA NeighboursAreMultiples ==
  ASSUME NEW n \in Nat \ {0}, NEW k \in Nat, k % n = 0, k > 1, (k - 1) % n = 0
  PROVE  n = 1
<1>1. PICK q \in Nat : k = n * q
  <2>1. k = n * (k \div n) + (k % n) /\ k \div n \in Nat
    OBVIOUS
  <2>. QED
    BY <2>1
<1>2. PICK r \in Nat : k - 1 = n * r
  <2>1. k - 1 = n * ((k - 1) \div n) + ((k - 1) % n) /\ (k - 1) \div n \in Nat
    OBVIOUS
  <2>. QED
    BY <2>1
<1>3. n * q = n * r + 1
  BY <1>1, <1>2
<1>4. q > r
  <2>1. SUFFICES ASSUME q <= r PROVE FALSE
    OBVIOUS
  <2>2. PICK d \in Nat : r = q + d
    BY <2>1
  <2>3. n * r = n * q + n * d /\ n * d \in Nat /\ n * q \in Nat
    BY <2>2
  <2>. QED
    BY <1>3, <2>3
<1>5. PICK d \in Nat : q = r + 1 + d
  BY <1>4
<1>6. n * q = n * r + n + n * d /\ n * d \in Nat /\ n * r \in Nat
  BY <1>5
<1>. QED
  BY <1>3, <1>6

=============================================================================
