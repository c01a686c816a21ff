---------------------------- MODULE TotalsProofs ----------------------------
(***************************************************************************)
(* Total is a sum: it is zero for no parts, grows by the size of the next  *)
(* part, never shrinks, and a place belongs to one part.                   *)
(***************************************************************************)
EXTENDS Totals, FiniteSetTheorems, TLAPS

\* A part has as many places as its size says.
LEMMA PartPlaces ==
  ASSUME NEW l, NEW s \in Nat
  PROVE  IsFiniteSet({l} \X (1 .. s)) /\ Cardinality({l} \X (1 .. s)) = s
  <1>1. IsFiniteSet({l}) /\ Cardinality({l}) = 1
    BY FS_Singleton
  <1>2. IsFiniteSet(1 .. s) /\ Cardinality(1 .. s) = s
    BY FS_Interval
  <1>3. /\ IsFiniteSet({l} \X (1 .. s))
        /\ Cardinality({l} \X (1 .. s)) = Cardinality({l}) * Cardinality(1 .. s)
    BY <1>1, <1>2, FS_Product
  <1> QED
    BY <1>1, <1>2, <1>3

\* There are finitely many places.
LEMMA PlacesFinite ==
  ASSUME NEW c \in Nat, NEW size, \A l \in 1 .. c : size[l] \in Nat
  PROVE  IsFiniteSet(PlacesOf(size, c))
  <1> DEFINE P(l) == {l} \X (1 .. size[l])
             S == {P(l) : l \in 1 .. c}
             f == [l \in 1 .. c |-> P(l)]
  <1>1. IsFiniteSet(1 .. c)
    BY FS_Interval
  <1>2. f \in Surjection(1 .. c, S)
    BY DEF Surjection
  <1>3. IsFiniteSet(S)
    BY <1>1, <1>2, FS_Surjection
  <1>4. \A T \in S : IsFiniteSet(T)
    <2>1. \A l \in 1 .. c : IsFiniteSet(P(l))
      BY PartPlaces
    <2> HIDE DEF P
    <2> QED
      BY <2>1, Zenon
  <1>5. IsFiniteSet(UNION S)
    BY <1>3, <1>4, FS_UNION
  <1> QED
    BY <1>5 DEF PlacesOf

\* A sum over no parts, and over one part more.
LEMMA TotalStep ==
  ASSUME NEW c \in Nat, NEW size, \A l \in 1 .. c + 1 : size[l] \in Nat
  PROVE  /\ Total(size, 0) = 0
         /\ Total(size, c) \in Nat
         /\ Total(size, c + 1) = Total(size, c) + size[c + 1]
  <1> DEFINE new == {c + 1} \X (1 .. size[c + 1])
             old == PlacesOf(size, c)
  <1>1. Total(size, 0) = 0
    <2>1. PlacesOf(size, 0) = {}
      BY DEF PlacesOf
    <2> QED
      BY <2>1, FS_EmptySet DEF Total
  <1>2. IsFiniteSet(old)
    BY PlacesFinite
  <1>0. size[c + 1] \in Nat
    OBVIOUS
  <1>3. IsFiniteSet(new) /\ Cardinality(new) = size[c + 1]
    BY <1>0, PartPlaces
  <1>4. PlacesOf(size, c + 1) = old \cup new
    <2>1. 1 .. c + 1 = (1 .. c) \cup {c + 1}
      OBVIOUS
    <2> QED
      BY <2>1, Zenon DEF PlacesOf
  <1>5. old \cap new = {}
    BY DEF PlacesOf
  <1>6. Cardinality(old) \in Nat
    BY <1>2, FS_CardinalityType
  <1>7. Cardinality(old \cup new) = Cardinality(old) + Cardinality(new) - Cardinality(old \cap new)
    BY <1>2, <1>3, FS_Union
  <1>8. Cardinality(old \cap new) = 0
    BY <1>5, FS_EmptySet
  <1> HIDE DEF old, new
  <1>9. Cardinality(old \cup new) = Cardinality(old) + size[c + 1]
    BY <1>0, <1>3, <1>6, <1>7, <1>8
  <1> QED
    BY <1>1, <1>4, <1>6, <1>9 DEF Total, old

\* More parts, no smaller sum.
LEMMA TotalGrows ==
  ASSUME NEW a \in Nat, NEW b \in Nat, a <= b, NEW size, \A l \in 1 .. b : size[l] \in Nat
  PROVE  Total(size, a) \in Nat /\ Total(size, b) \in Nat /\ Total(size, a) <= Total(size, b)
  <1>1. IsFiniteSet(PlacesOf(size, b))
    BY PlacesFinite
  <1>2. PlacesOf(size, a) \in SUBSET PlacesOf(size, b)
    BY DEF PlacesOf
  <1>3. /\ IsFiniteSet(PlacesOf(size, a))
        /\ Cardinality(PlacesOf(size, a)) <= Cardinality(PlacesOf(size, b))
    BY <1>1, <1>2, FS_Subset
  <1> QED
    BY <1>1, <1>3, FS_CardinalityType DEF Total

\* The totals before and after part j of n parts.
LEMMA PartTotals ==
  ASSUME NEW n \in Nat, NEW size, \A l \in 1 .. n : size[l] \in Nat, NEW j \in 1 .. n
  PROVE  /\ Total(size, 0) = 0 /\ Total(size, j - 1) \in Nat /\ Total(size, j) \in Nat
         /\ Total(size, j) = Total(size, j - 1) + size[j]
         /\ Total(size, n) \in Nat /\ Total(size, j) <= Total(size, n)
  <1> DEFINE c == j - 1
  <1>1. c \in Nat /\ c + 1 = j /\ j \in Nat /\ j <= n
    OBVIOUS
  <1>2. \A l \in 1 .. c + 1 : size[l] \in Nat
    BY <1>1
  <1> HIDE DEF c
  <1>3. Total(size, 0) = 0 /\ Total(size, c) \in Nat /\ Total(size, c + 1) = Total(size, c) + size[c + 1]
    BY <1>1, <1>2, TotalStep
  <1>4. Total(size, j) \in Nat /\ Total(size, n) \in Nat /\ Total(size, j) <= Total(size, n)
    BY <1>1, TotalGrows
  <1> QED
    BY <1>1, <1>3, <1>4 DEF c

\* A place belongs to one part.
LEMMA OnePart ==
  ASSUME NEW n \in Nat, NEW size, \A l \in 1 .. n : size[l] \in Nat,
         NEW j \in 1 .. n, NEW q \in 1 .. n, NEW i \in 1 .. size[j],
         Total(size, q - 1) < Total(size, j - 1) + i,
         Total(size, j - 1) + i <= Total(size, q)
  PROVE  j = q
  <1>1. /\ Total(size, j - 1) \in Nat /\ Total(size, j) = Total(size, j - 1) + size[j]
        /\ Total(size, j) \in Nat /\ Total(size, q) \in Nat /\ Total(size, q - 1) \in Nat
    BY PartTotals
  <1>2. size[j] \in Nat /\ i \in Nat /\ 1 <= i /\ i <= size[j]
    OBVIOUS
  <1>3. \A x, y \in Nat : x <= y /\ y <= n => Total(size, x) <= Total(size, y)
    BY TotalGrows
  <1>4. j \in Nat /\ q \in Nat /\ j - 1 \in Nat /\ q - 1 \in Nat /\ j <= n /\ q <= n
    OBVIOUS
  <1>5. ASSUME j < q PROVE FALSE
    <2>1. j <= q - 1 /\ q - 1 <= n
      BY <1>4, <1>5
    <2>2. Total(size, j) <= Total(size, q - 1)
      BY <1>3, <1>4, <2>1
    <2> QED
      BY <1>1, <1>2, <2>2
  <1>6. ASSUME q < j PROVE FALSE
    <2>1. q <= j - 1 /\ j - 1 <= n
      BY <1>4, <1>6
    <2>2. Total(size, q) <= Total(size, j - 1)
      BY <1>3, <1>4, <2>1
    <2> QED
      BY <1>1, <1>2, <2>2
  <1> QED
    BY <1>4, <1>5, <1>6
=============================================================================
