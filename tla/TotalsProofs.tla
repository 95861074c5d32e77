---------------------------- MODULE TotalsProofs ----------------------------
(* Lemmas that several proofs need: totals, and greatest elements. *)
EXTENDS Totals, FiniteSetTheorems, TLAPS

LEMMA UnitsMember ==
  ASSUME NEW S, NEW f \in [S -> Nat]
  PROVE  \A u : u \in Units(f) <=> \E x \in S, n \in Nat : u = <<x, n>> /\ 1 <= n /\ n <= f[x]
BY DEF Units, UnitsAt

(* What is all zero amounts to nothing. *)
LEMMA TotalZero ==
  ASSUME NEW S
  PROVE  IsFiniteSet(Units([x \in S |-> 0])) /\ Total([x \in S |-> 0]) = 0
<1> DEFINE f == [x \in S |-> 0]
<1>1. Units(f) = {}
  BY DEF Units, UnitsAt
<1> QED
  BY <1>1, FS_EmptySet DEF Total

(* So many units more at one place are as many more in all. *)
LEMMA TotalAdd ==
  ASSUME NEW S, NEW f \in [S -> Nat], IsFiniteSet(Units(f)),
         NEW g \in [S -> Nat], NEW x \in S, NEW k \in Nat, g[x] = f[x] + k,
         \A y \in S \ {x} : g[y] = f[y]
  PROVE  /\ IsFiniteSet(Units(g))
         /\ Total(f) \in Nat /\ Total(g) = Total(f) + k
<1> DEFINE More == {x} \X (f[x] + 1 .. f[x] + k)
<1>0. f[x] \in Nat
  OBVIOUS
<1>1. \A u : u \in Units(f) <=> \E y \in S, n \in Nat : u = <<y, n>> /\ 1 <= n /\ n <= f[y]
  BY UnitsMember
<1>2. \A u : u \in Units(g) <=> \E y \in S, n \in Nat : u = <<y, n>> /\ 1 <= n /\ n <= g[y]
  BY UnitsMember
<1>3. \A u : u \in More <=> \E n \in Nat : u = <<x, n>> /\ f[x] + 1 <= n /\ n <= f[x] + k
  BY <1>0
<1> HIDE DEF More
<1>4. Units(g) = Units(f) \cup More
  <2>1. ASSUME NEW u \in Units(g)
        PROVE  u \in Units(f) \cup More
    <3>1. PICK y \in S, n \in Nat : u = <<y, n>> /\ 1 <= n /\ n <= g[y]
      BY <2>1, <1>2
    <3>2. CASE n <= f[y]
      BY <3>1, <3>2, <1>1
    <3>3. CASE ~(n <= f[y])
      <4>1. y = x /\ f[x] + 1 <= n /\ n <= f[x] + k
        BY <3>1, <3>3
      <4> QED
        BY <3>1, <4>1, <1>3
    <3> QED
      BY <3>2, <3>3
  <2>2. ASSUME NEW u \in Units(f)
        PROVE  u \in Units(g)
    <3>1. PICK y \in S, n \in Nat : u = <<y, n>> /\ 1 <= n /\ n <= f[y]
      BY <2>2, <1>1
    <3>2. n <= g[y]
      BY <3>1
    <3> QED
      BY <3>1, <3>2, <1>2
  <2>3. ASSUME NEW u \in More
        PROVE  u \in Units(g)
    <3>1. PICK n \in Nat : u = <<x, n>> /\ f[x] + 1 <= n /\ n <= f[x] + k
      BY <2>3, <1>3
    <3>2. 1 <= n /\ n <= g[x]
      BY <3>1, <1>0
    <3> QED
      BY <3>1, <3>2, <1>2
  <2> QED
    BY <2>1, <2>2, <2>3
<1>5. Units(f) \cap More = {}
  <2> SUFFICES ASSUME NEW u \in Units(f), u \in More
               PROVE  FALSE
    OBVIOUS
  <2>1. PICK y \in S, n \in Nat : u = <<y, n>> /\ 1 <= n /\ n <= f[y]
    BY <1>1
  <2>2. PICK m \in Nat : u = <<x, m>> /\ f[x] + 1 <= m /\ m <= f[x] + k
    BY <1>3
  <2> QED
    BY <2>1, <2>2
<1>6. IsFiniteSet(More) /\ Cardinality(More) = k
  <2>1. IsFiniteSet({x}) /\ Cardinality({x}) = 1
    BY FS_Singleton
  <2>2. /\ IsFiniteSet(f[x] + 1 .. f[x] + k)
        /\ Cardinality(f[x] + 1 .. f[x] + k) = k
    <3>1. f[x] + 1 \in Int /\ f[x] + k \in Int
      BY <1>0
    <3>2. /\ IsFiniteSet(f[x] + 1 .. f[x] + k)
          /\ Cardinality(f[x] + 1 .. f[x] + k) =
               IF f[x] + 1 > f[x] + k THEN 0 ELSE (f[x] + k) - (f[x] + 1) + 1
      BY <3>1, FS_Interval
    <3> QED
      BY <3>2, <1>0
  <2>3. /\ IsFiniteSet(More)
        /\ Cardinality(More) = Cardinality({x}) * Cardinality(f[x] + 1 .. f[x] + k)
    BY <2>1, <2>2, FS_Product DEF More
  <2> QED
    BY <2>1, <2>2, <2>3
<1>7. /\ IsFiniteSet(Units(f) \cup More)
      /\ Cardinality(Units(f) \cup More) =
           Cardinality(Units(f)) + Cardinality(More) - Cardinality({})
  BY <1>5, <1>6, FS_Union
<1>8. Cardinality(Units(f)) \in Nat /\ Cardinality({}) = 0
  BY FS_CardinalityType, FS_EmptySet
<1>9. Cardinality(Units(g)) = Cardinality(Units(f)) + k
  <2> DEFINE a == Cardinality(Units(f))
             b == Cardinality(More)
             e == Cardinality({})
  <2>1. a \in Nat /\ b = k /\ e = 0 /\ Cardinality(Units(g)) = a + b - e
    BY <1>4, <1>6, <1>7, <1>8, Zenon
  <2> HIDE DEF a, b, e
  <2>2. Cardinality(Units(g)) = a + k
    BY <2>1
  <2> QED
    BY <2>2 DEF a
<1>10. IsFiniteSet(Units(g))
  BY <1>4, <1>7
<1> QED
  BY <1>8, <1>9, <1>10 DEF Total

(* A finite total is a number. *)
LEMMA TotalType ==
  ASSUME NEW f, IsFiniteSet(Units(f))
  PROVE  Total(f) \in Nat
BY FS_CardinalityType DEF Total

(* Finitely many numbers have a finite total. *)
LEMMA TotalFinite ==
  ASSUME NEW S, IsFiniteSet(S), NEW f \in [S -> Nat]
  PROVE  IsFiniteSet(Units(f))
<1> DEFINE At == [x \in S |-> UnitsAt(f, x)]
           Sets == {UnitsAt(f, x) : x \in S}
<1>1. \A x \in S : IsFiniteSet(UnitsAt(f, x))
  <2> TAKE x \in S
  <2>1. IsFiniteSet({x})
    BY FS_Singleton
  <2>2. IsFiniteSet(1 .. f[x])
    BY FS_Interval
  <2> QED
    BY <2>1, <2>2, FS_Product DEF UnitsAt
<1>2. At \in Surjection(S, Sets)
  BY DEF Surjection
<1>3. IsFiniteSet(Sets)
  BY <1>2, FS_Surjection
<1>4. IsFiniteSet(UNION Sets)
  BY <1>1, <1>3, FS_UNION
<1> QED
  BY <1>4 DEF Units

(* Changing one number changes the total by as much.                       *)
LEMMA TotalChange ==
  ASSUME NEW S, IsFiniteSet(S), NEW f \in [S -> Nat], NEW g \in [S -> Nat],
         NEW x \in S, \A y \in S \ {x} : g[y] = f[y]
  PROVE  /\ Total(f) \in Nat /\ Total(g) \in Nat
         /\ Total(g) + f[x] = Total(f) + g[x]
<1> DEFINE Rest == UNION {UnitsAt(f, y) : y \in S \ {x}}
<1>1. ASSUME NEW k \in [S -> Nat], \A y \in S \ {x} : k[y] = f[y]
      PROVE  /\ IsFiniteSet(Units(k)) /\ IsFiniteSet(Rest)
             /\ Total(k) = Cardinality(Rest) + k[x]
  <2>1. IsFiniteSet(Units(k))
    BY TotalFinite
  <2>2. \A y \in S \ {x} : UnitsAt(k, y) = UnitsAt(f, y)
    BY <1>1 DEF UnitsAt
  <2>3. Units(k) = Rest \cup UnitsAt(k, x)
    BY <2>2 DEF Units
  <2>4. Rest \cap UnitsAt(k, x) = {}
    BY DEF UnitsAt
  <2>5. IsFiniteSet(Rest) /\ IsFiniteSet(UnitsAt(k, x))
    <3>1. Rest \subseteq Units(k) /\ UnitsAt(k, x) \subseteq Units(k)
      BY <2>3
    <3> QED
      BY <2>1, <3>1, FS_Subset
  <2>6. Cardinality(UnitsAt(k, x)) = k[x]
    <3>1. IsFiniteSet({x}) /\ Cardinality({x}) = 1
      BY FS_Singleton
    <3>2. k[x] \in Nat /\ IsFiniteSet(1 .. k[x]) /\ Cardinality(1 .. k[x]) = k[x]
      BY FS_Interval
    <3>3. Cardinality({x} \X (1 .. k[x])) = Cardinality({x}) * Cardinality(1 .. k[x])
      BY <3>1, <3>2, FS_Product
    <3>4. Cardinality(UnitsAt(k, x)) = 1 * k[x]
      BY <3>1, <3>2, <3>3 DEF UnitsAt
    <3> QED
      BY <3>2, <3>4
  <2>7. Cardinality(Units(k)) = Cardinality(Rest) + Cardinality(UnitsAt(k, x)) - 0
    BY <2>3, <2>4, <2>5, FS_Union, FS_EmptySet
  <2> QED
    BY <2>1, <2>5, <2>6, <2>7, FS_CardinalityType DEF Total
<1> HIDE DEF Rest
<1>2. /\ IsFiniteSet(Rest) /\ Cardinality(Rest) \in Nat
      /\ Total(f) = Cardinality(Rest) + f[x]
      /\ Total(g) = Cardinality(Rest) + g[x]
  BY <1>1, FS_CardinalityType
<1> QED
  BY <1>2

(* Lower numbers, a lower total.                                           *)
LEMMA TotalLower ==
  ASSUME NEW S, IsFiniteSet(S), NEW f \in [S -> Nat], NEW g \in [S -> Nat],
         \A x \in S : g[x] <= f[x]
  PROVE  Total(f) \in Nat /\ Total(g) \in Nat /\ Total(g) <= Total(f)
<1>1. IsFiniteSet(Units(f))
  BY TotalFinite
<1>2. Units(g) \subseteq Units(f)
  <2>1. ASSUME NEW u \in Units(g)
        PROVE  u \in Units(f)
    <3>1. PICK x \in S, n \in Nat : u = <<x, n>> /\ 1 <= n /\ n <= g[x]
      BY <2>1, UnitsMember
    <3>2. n <= f[x]
      BY <3>1
    <3> QED
      BY <3>1, <3>2, UnitsMember
  <2> QED
    BY <2>1
<1>3. IsFiniteSet(Units(g))
  BY <1>1, <1>2, FS_Subset
<1> QED
  BY <1>1, <1>2, <1>3, FS_Subset, FS_CardinalityType DEF Total

(* Numbers have a least element, and bounded ones a greatest.              *)
LEMMA LeastExists ==
  ASSUME NEW T \in SUBSET Nat, T # {}
  PROVE  \E m \in T : \A n \in T : m <= n
<1> DEFINE Less == OpToRel(<, Nat)
<1>1. IsWellFoundedOn(Less, Nat)
  BY NatLessThanWellFounded
<1>2. \A x, y \in Nat : x < y => <<x, y>> \in Less
  BY DEF OpToRel
<1> HIDE DEF Less
<1>3. PICK m \in T : \A n \in T : ~(<<n, m>> \in Less)
  BY <1>1, WFMin
<1>4. ASSUME NEW n \in T
      PROVE  m <= n
  <2>1. ~(n < m)
    BY <1>2, <1>3
  <2> QED
    BY <2>1
<1> QED
  BY <1>4

LEMMA GreatestExists ==
  ASSUME NEW N \in Nat, NEW T \in SUBSET (1 .. N), T # {}
  PROVE  \E m \in T : \A n \in T : n <= m
<1> DEFINE U == {d \in Nat : \E n \in T : d = N - n}
<1>1. U \in SUBSET Nat
  OBVIOUS
<1>2. U # {}
  <2>1. PICK n \in T : TRUE
    OBVIOUS
  <2>2. N - n \in Nat
    BY <2>1
  <2> QED
    BY <2>2
<1>3. PICK u \in U : \A v \in U : u <= v
  BY <1>1, <1>2, LeastExists
<1>4. PICK m \in T : u = N - m
  OBVIOUS
<1>5. ASSUME NEW n \in T
      PROVE  n <= m
  <2>1. N - n \in U
    OBVIOUS
  <2>2. N - m <= N - n
    BY <1>3, <1>4, <2>1
  <2> QED
    BY <2>2
<1> QED
  BY <1>5

(* How many a set loses or gains.                                          *)
LEMMA NoMore ==
  ASSUME NEW S, IsFiniteSet(S), NEW T \in SUBSET S
  PROVE  /\ Cardinality(S) \in Nat /\ Cardinality(T) \in Nat
         /\ Cardinality(T) <= Cardinality(S)
BY FS_Subset, FS_CardinalityType

LEMMA OneMore ==
  ASSUME NEW S, IsFiniteSet(S), NEW x, NEW T \in SUBSET (S \cup {x})
  PROVE  /\ Cardinality(S) \in Nat /\ Cardinality(T) \in Nat
         /\ Cardinality(T) <= Cardinality(S) + 1
<1>1. /\ IsFiniteSet(S \cup {x})
      /\ \/ Cardinality(S \cup {x}) = Cardinality(S)
         \/ Cardinality(S \cup {x}) = Cardinality(S) + 1
  BY FS_AddElement
<1>2. /\ Cardinality(S) \in Nat /\ Cardinality(T) \in Nat
      /\ Cardinality(T) <= Cardinality(S \cup {x})
  BY <1>1, NoMore, FS_CardinalityType
<1> QED
  BY <1>1, <1>2

LEMMA OneLess ==
  ASSUME NEW S, IsFiniteSet(S), NEW x \in S, NEW T \in SUBSET (S \ {x})
  PROVE  /\ Cardinality(S) \in Nat /\ Cardinality(T) \in Nat
         /\ Cardinality(T) + 1 <= Cardinality(S)
<1>1. /\ IsFiniteSet(S \ {x})
      /\ Cardinality(S \ {x}) = Cardinality(S) - 1
  BY FS_RemoveElement
<1>2. /\ Cardinality(S) \in Nat /\ Cardinality(T) \in Nat
      /\ Cardinality(T) <= Cardinality(S \ {x})
  BY <1>1, NoMore, FS_CardinalityType
<1> QED
  BY <1>1, <1>2
=============================================================================
