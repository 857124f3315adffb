----------------------------- MODULE OrderTheorems -----------------------------
(***************************************************************************)
(* Facts about finite sets under a strict total order, given as a set of   *)
(* pairs: where an element stands is the number of elements before it.     *)
(* The sorts of Retention and InMemoryStore are described so, and the      *)
(* filters, as subsequences.                                               *)
(***************************************************************************)
EXTENDS Subsequences, FiniteSetTheorems, TLAPS

StrictTotalOrder(R, S) ==
    /\ \A x \in S : <<x, x>> \notin R
    /\ \A x, y, z \in S : <<x, y>> \in R /\ <<y, z>> \in R => <<x, z>> \in R
    /\ \A x, y \in S : x # y => <<x, y>> \in R \/ <<y, x>> \in R

Below(R, S, x) == { y \in S : <<y, x>> \in R }
Place(R, S, x) == Cardinality(Below(R, S, x))

-----------------------------------------------------------------------------
(* A place is one of 0 to n - 1.                                           *)
LEMMA PlaceType ==
    ASSUME NEW S, IsFiniteSet(S), NEW R, StrictTotalOrder(R, S), NEW x \in S
    PROVE  /\ IsFiniteSet(Below(R, S, x))
           /\ Place(R, S, x) \in 0..(Cardinality(S) - 1)
<1>1. Below(R, S, x) \subseteq S \ {x}
  BY DEF Below, StrictTotalOrder
<1>2. IsFiniteSet(S \ {x}) /\ Cardinality(S \ {x}) = Cardinality(S) - 1
  BY FS_RemoveElement
<1>3. IsFiniteSet(Below(R, S, x)) /\ Cardinality(Below(R, S, x)) <= Cardinality(S \ {x})
  BY <1>1, <1>2, FS_Subset
<1>4. Cardinality(Below(R, S, x)) \in Nat /\ Cardinality(S) \in Nat
  BY <1>3, FS_CardinalityType
<1> QED
  BY <1>2, <1>3, <1>4 DEF Place

(* What comes earlier has a smaller place.                                 *)
LEMMA PlaceGrows ==
    ASSUME NEW S, IsFiniteSet(S), NEW R, StrictTotalOrder(R, S),
           NEW x \in S, NEW y \in S, <<x, y>> \in R
    PROVE  Place(R, S, x) < Place(R, S, y)
<1>1. Below(R, S, x) \subseteq Below(R, S, y)
  BY DEF Below, StrictTotalOrder
<1>2. x \in Below(R, S, y) /\ x \notin Below(R, S, x)
  BY DEF Below, StrictTotalOrder
<1>3. IsFiniteSet(Below(R, S, x)) /\ IsFiniteSet(Below(R, S, y))
  BY PlaceType
<1>4. Cardinality(Below(R, S, x)) <= Cardinality(Below(R, S, y))
  BY <1>1, <1>3, FS_Subset
<1>5. Cardinality(Below(R, S, x)) # Cardinality(Below(R, S, y))
  BY <1>1, <1>2, <1>3, FS_Subset
<1>6. Cardinality(Below(R, S, x)) \in Nat /\ Cardinality(Below(R, S, y)) \in Nat
  BY <1>3, FS_CardinalityType
<1> QED
  BY <1>4, <1>5, <1>6 DEF Place

(* So places order the set, and no two elements share one.                 *)
LEMMA PlacesOrder ==
    ASSUME NEW S, IsFiniteSet(S), NEW R, StrictTotalOrder(R, S),
           NEW x \in S, NEW y \in S
    PROVE  /\ <<x, y>> \in R <=> Place(R, S, x) < Place(R, S, y)
           /\ Place(R, S, x) = Place(R, S, y) => x = y
<1>1. Place(R, S, x) \in Nat /\ Place(R, S, y) \in Nat
  <2>1. Cardinality(S) \in Nat
    BY FS_CardinalityType
  <2> QED
    BY <2>1, PlaceType
<1>2. <<x, y>> \in R => Place(R, S, x) < Place(R, S, y)
  BY PlaceGrows
<1>3. <<y, x>> \in R => Place(R, S, y) < Place(R, S, x)
  BY PlaceGrows
<1>4. x # y => <<x, y>> \in R \/ <<y, x>> \in R
  BY DEF StrictTotalOrder
<1>5. x = y => <<x, y>> \notin R
  BY DEF StrictTotalOrder
<1> QED
  BY <1>1, <1>2, <1>3, <1>4, <1>5

(* Every place is taken.                                                   *)
LEMMA PlacesAreTaken ==
    ASSUME NEW S, IsFiniteSet(S), NEW R, StrictTotalOrder(R, S),
           NEW n \in 0..(Cardinality(S) - 1)
    PROVE  \E x \in S : Place(R, S, x) = n
<1> DEFINE T == 0..(Cardinality(S) - 1)
           f == [x \in S |-> Place(R, S, x)]
<1>1. Cardinality(S) \in Nat
  BY FS_CardinalityType
<1>2. IsFiniteSet(T) /\ Cardinality(T) = Cardinality(S)
  BY <1>1, FS_Interval
<1>3. f \in [S -> T]
  BY PlaceType
<1>4. \A x, y \in S : f[x] = f[y] => x = y
  BY PlacesOrder
<1>5. f \in Injection(S, T)
  BY <1>3, <1>4 DEF Injection, IsInjective
<1>6. f \in Surjection(S, T)
  BY <1>2, <1>5, FS_Injection
<1> QED
  BY <1>6 DEF Surjection

(* The first k of them are k, if there are as many.                        *)
LEMMA FirstPlaces ==
    ASSUME NEW S, IsFiniteSet(S), NEW R, StrictTotalOrder(R, S), NEW k \in Nat
    PROVE  Cardinality({ x \in S : Place(R, S, x) < k })
             = IF k < Cardinality(S) THEN k ELSE Cardinality(S)
<1> DEFINE top == { x \in S : Place(R, S, x) < k }
           size == IF k < Cardinality(S) THEN k ELSE Cardinality(S)
           T == 0..(size - 1)
           f == [x \in top |-> Place(R, S, x)]
<1>1. Cardinality(S) \in Nat
  BY FS_CardinalityType
<1>2. IsFiniteSet(top)
  BY FS_Subset
<1>3. IsFiniteSet(T) /\ Cardinality(T) = size
  <2>1. size \in Nat
    BY <1>1
  <2> HIDE DEF size
  <2> QED
    BY <2>1, FS_Interval
<1>4. f \in [top -> T]
  <2>1. ASSUME NEW x \in top
        PROVE  Place(R, S, x) \in T
    BY <1>1, <2>1, PlaceType
  <2> QED
    BY <2>1
<1>5. \A x, y \in top : f[x] = f[y] => x = y
  BY PlacesOrder
<1>6. f \in Injection(top, T)
  BY <1>4, <1>5 DEF Injection, IsInjective
<1>7. ASSUME NEW n \in T
      PROVE  \E x \in top : f[x] = n
  <2>1. n \in 0..(Cardinality(S) - 1) /\ n < k
    BY <1>1, <1>7
  <2>2. PICK x \in S : Place(R, S, x) = n
    BY <2>1, PlacesAreTaken
  <2> QED
    BY <2>1, <2>2
<1>8. f \in Surjection(top, T)
  BY <1>4, <1>7 DEF Surjection
<1> QED
  BY <1>3, <1>6, <1>8, FS_Injection

(* The places of a subsequence are the set, in order.                      *)
LEMMA PlacesInOrder ==
    ASSUME NEW S, IsFiniteSet(S), NEW R, StrictTotalOrder(R, S),
           \A i, j \in S : <<i, j>> \in R <=> i < j
    PROVE  /\ Cardinality(S) \in Nat
           /\ \A n \in 1..Cardinality(S) : NthPlace(S, n) \in S
           /\ \A m, n \in 1..Cardinality(S) : m < n => NthPlace(S, m) < NthPlace(S, n)
           /\ \A i \in S : \E n \in 1..Cardinality(S) : NthPlace(S, n) = i
<1>1. Cardinality(S) \in Nat
  BY FS_CardinalityType
<1>2. StrictTotalOrder(R, S)
  OBVIOUS
<1>3. \A i \in S : Place(R, S, i) = Cardinality({ j \in S : j < i })
  <2> SUFFICES ASSUME NEW i \in S
               PROVE  Below(R, S, i) = { j \in S : j < i }
    BY DEF Place
  <2> QED
    BY DEF Below
<1>4. ASSUME NEW n \in 1..Cardinality(S)
      PROVE  NthPlace(S, n) \in S /\ Place(R, S, NthPlace(S, n)) = n - 1
  <2>1. PICK x \in S : Place(R, S, x) = n - 1
    <3>1. n - 1 \in 0..(Cardinality(S) - 1)
      BY <1>1
    <3>2. \A p \in 0..(Cardinality(S) - 1) : \E x \in S : Place(R, S, x) = p
      BY <1>1, <1>2, PlacesAreTaken
    <3> QED
      BY <3>1, <3>2
  <2>2. /\ NthPlace(S, n) \in S
        /\ Cardinality({ j \in S : j < NthPlace(S, n) }) = n - 1
    BY <1>3, <2>1 DEF NthPlace
  <2> QED
    BY <1>3, <2>2
<1>5. ASSUME NEW m \in 1..Cardinality(S), NEW n \in 1..Cardinality(S), m < n
      PROVE  NthPlace(S, m) < NthPlace(S, n)
  <2>1. Place(R, S, NthPlace(S, m)) < Place(R, S, NthPlace(S, n))
    BY <1>1, <1>4, <1>5
  <2>2. <<NthPlace(S, m), NthPlace(S, n)>> \in R
    BY <1>2, <1>4, <2>1, PlacesOrder
  <2> QED
    BY <1>4, <2>2
<1>6. ASSUME NEW i \in S
      PROVE  \E n \in 1..Cardinality(S) : NthPlace(S, n) = i
  <2> DEFINE n == Place(R, S, i) + 1
  <2>1. Place(R, S, i) \in 0..(Cardinality(S) - 1)
    BY <1>2, PlaceType
  <2>2. n \in 1..Cardinality(S) /\ n - 1 = Place(R, S, i)
    BY <1>1, <2>1
  <2>3. NthPlace(S, n) \in S /\ Place(R, S, NthPlace(S, n)) = Place(R, S, i)
    BY <1>4, <2>2
  <2>4. NthPlace(S, n) = i
    BY <1>2, <2>3, PlacesOrder
  <2> QED
    BY <2>2, <2>4
<1> QED
  BY <1>1, <1>4, <1>5, <1>6

(* So for numbers.                                                         *)
LEMMA NthPlaces ==
    ASSUME NEW S, S \subseteq Nat, IsFiniteSet(S)
    PROVE  /\ Cardinality(S) \in Nat
           /\ \A n \in 1..Cardinality(S) : NthPlace(S, n) \in S
           /\ \A m, n \in 1..Cardinality(S) : m < n => NthPlace(S, m) < NthPlace(S, n)
           /\ \A i \in S : \E n \in 1..Cardinality(S) : NthPlace(S, n) = i
<1> DEFINE R == { p \in S \X S : p[1] < p[2] }
<1>1. StrictTotalOrder(R, S) /\ \A i, j \in S : <<i, j>> \in R <=> i < j
  BY DEF StrictTotalOrder
<1> HIDE DEF R
<1> QED
  BY <1>1, PlacesInOrder

(* The places of all elements are themselves: nothing is left out.         *)
LEMMA AllPlaces ==
    ASSUME NEW n \in Nat, NEW i \in 1..n
    PROVE  NthPlace(1..n, i) = i
<1>1. \A x \in 1..n : Cardinality({ j \in 1..n : j < x }) = x - 1
  <2> SUFFICES ASSUME NEW x \in 1..n
               PROVE  Cardinality({ j \in 1..n : j < x }) = x - 1
    OBVIOUS
  <2>1. { j \in 1..n : j < x } = 1..(x - 1)
    OBVIOUS
  <2>2. Cardinality(1..(x - 1)) = x - 1
    BY FS_Interval
  <2> QED
    BY <2>1, <2>2
<1> DEFINE count == [x \in 1..n |-> Cardinality({ j \in 1..n : j < x })]
<1>2. /\ \A x \in 1..n : count[x] = x - 1
      /\ NthPlace(1..n, i) = CHOOSE x \in 1..n : count[x] = i - 1
  BY <1>1 DEF NthPlace
<1> HIDE DEF count
<1> QED
  BY <1>2

-----------------------------------------------------------------------------
(* Induction, for a set of natural numbers.                                *)
LEMMA NatSetInduction ==
    ASSUME NEW P \in SUBSET Nat, 0 \in P, \A n \in P : n + 1 \in P
    PROVE  P = Nat
<1> SUFFICES ASSUME Nat \ P # {}
             PROVE  FALSE
  OBVIOUS
<1>1. PICK n \in Nat \ P : \A m \in Nat \ P : <<m, n>> \notin OpToRel(<, Nat)
  BY WFMin, NatLessThanWellFounded
<1>2. n - 1 \in Nat \ P
  OBVIOUS
<1>3. <<n - 1, n>> \in OpToRel(<, Nat)
  BY <1>2 DEF OpToRel
<1> QED
  BY <1>1, <1>2, <1>3
=============================================================================
