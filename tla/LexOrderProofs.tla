--------------------------- MODULE LexOrderProofs ---------------------------
(***************************************************************************)
(* The order of keys is total, finite sets have a least element by it, and *)
(* a sorted set is a sequence of its elements.                             *)
(***************************************************************************)
EXTENDS LexOrder, FiniteSetTheorems, WellFoundedInduction, TLAPS

\* A set of numbers that is not empty has a least one.
LEMMA LeastNumber ==
  ASSUME NEW T \in SUBSET Nat, T # {}
  PROVE  \E x \in T : \A y \in T : ~(y < x)
<1> DEFINE Less == {ss \in Nat \X Nat : ss[1] < ss[2]}
<1>1. IsWellFoundedOn(Less, Nat)
  BY NatLessThanWellFounded DEF OpToRel
<1>2. \E x \in T : \A y \in T : ~(<<y, x>> \in Less)
  <2> HIDE DEF Less
  <2> QED
    BY <1>1, WFMin
<1> QED
  BY <1>2

\* No key comes before itself.
LEMMA LexIrreflexive ==
  ASSUME NEW n \in Nat, NEW k \in [1 .. n -> Int] PROVE ~LexLess(k, k)
BY DEF LexLess

\* What comes before a key comes before those after it.
LEMMA LexTransitive ==
  ASSUME NEW n \in Nat, NEW k \in [1 .. n -> Int], NEW l \in [1 .. n -> Int],
         NEW m \in [1 .. n -> Int], LexLess(k, l), LexLess(l, m)
  PROVE  LexLess(k, m)
<1>1. PICK a \in 1 .. n : k[a] < l[a] /\ \A c \in 1 .. a - 1 : k[c] = l[c]
  BY DEF LexLess
<1>2. PICK b \in 1 .. n : l[b] < m[b] /\ \A c \in 1 .. b - 1 : l[c] = m[c]
  BY DEF LexLess
<1>3. CASE a < b
  <2>1. k[a] < m[a] /\ \A c \in 1 .. a - 1 : k[c] = m[c]
    BY <1>1, <1>2, <1>3
  <2> QED
    BY <2>1 DEF LexLess
<1>4. CASE a = b
  <2>1. k[a] < m[a] /\ \A c \in 1 .. a - 1 : k[c] = m[c]
    BY <1>1, <1>2, <1>4
  <2> QED
    BY <2>1 DEF LexLess
<1>5. CASE b < a
  <2>1. k[b] < m[b] /\ \A c \in 1 .. b - 1 : k[c] = m[c]
    BY <1>1, <1>2, <1>5
  <2> QED
    BY <2>1 DEF LexLess
<1> QED
  BY <1>3, <1>4, <1>5

\* Of two different keys one comes first.
LEMMA LexTotal ==
  ASSUME NEW n \in Nat, NEW k \in [1 .. n -> Int], NEW l \in [1 .. n -> Int], k # l
  PROVE  LexLess(k, l) \/ LexLess(l, k)
<1> DEFINE D == {c \in 1 .. n : k[c] # l[c]}
<1>1. D \in SUBSET Nat /\ D # {}
  OBVIOUS
<1>2. PICK a \in D : \A c \in D : ~(c < a)
  <2> HIDE DEF D
  <2> QED
    BY <1>1, LeastNumber
<1>3. \A c \in 1 .. a - 1 : k[c] = l[c]
  BY <1>2
<1>4. k[a] < l[a] \/ l[a] < k[a]
  BY <1>2
<1> QED
  BY <1>2, <1>3, <1>4 DEF LexLess

\* What comes before an element of a set by its key.
Below(S, key, x) == {y \in S : LexLess(key[y], key[x])}

\* A part of a finite set comes before each element, and more before what
\* comes later.
LEMMA FiniteBelow ==
  ASSUME NEW n \in Nat, NEW S, IsFiniteSet(S), NEW key \in [S -> [1 .. n -> Int]],
         NEW x \in S
  PROVE  /\ Cardinality(Below(S, key, x)) \in 0 .. Cardinality(S) - 1
         /\ \A z \in S : LexLess(key[z], key[x]) =>
              Cardinality(Below(S, key, z)) < Cardinality(Below(S, key, x))
<1>1. ASSUME NEW z \in S
      PROVE  /\ IsFiniteSet(Below(S, key, z)) /\ Cardinality(Below(S, key, z)) \in Nat
             /\ z \notin Below(S, key, z) /\ Below(S, key, z) \in SUBSET S
  <2>1. Below(S, key, z) \in SUBSET S
    BY DEF Below
  <2>2. IsFiniteSet(Below(S, key, z)) /\ Cardinality(Below(S, key, z)) \in Nat
    BY <2>1, FS_Subset, FS_CardinalityType
  <2>3. key[z] \in [1 .. n -> Int]
    OBVIOUS
  <2>4. ~LexLess(key[z], key[z])
    BY <2>3, LexIrreflexive
  <2> QED
    BY <2>1, <2>2, <2>4 DEF Below
<1>2. Cardinality(S) \in Nat /\ Cardinality(Below(S, key, x)) < Cardinality(S)
  BY <1>1, FS_Subset, FS_CardinalityType
<1>3. ASSUME NEW z \in S, LexLess(key[z], key[x])
      PROVE  Cardinality(Below(S, key, z)) < Cardinality(Below(S, key, x))
  <2>1. ASSUME NEW y \in Below(S, key, z) PROVE y \in Below(S, key, x)
    <3>1. /\ key[x] \in [1 .. n -> Int] /\ key[y] \in [1 .. n -> Int]
          /\ key[z] \in [1 .. n -> Int] /\ LexLess(key[y], key[z]) /\ y \in S
      BY DEF Below
    <3> QED
      BY <1>3, <3>1, LexTransitive DEF Below
  <2>2. z \in Below(S, key, x) /\ z \notin Below(S, key, z)
    BY <1>1, <1>3 DEF Below
  <2>3. Below(S, key, z) \in SUBSET Below(S, key, x) /\ Below(S, key, z) # Below(S, key, x)
    BY <2>1, <2>2
  <2>4. /\ IsFiniteSet(Below(S, key, x)) /\ Cardinality(Below(S, key, x)) \in Nat
        /\ Cardinality(Below(S, key, z)) \in Nat
    BY <1>1
  <2>5. /\ Cardinality(Below(S, key, z)) <= Cardinality(Below(S, key, x))
        /\ Cardinality(Below(S, key, x)) # Cardinality(Below(S, key, z))
    BY <2>3, <2>4, FS_Subset
  <2> QED
    BY <2>4, <2>5
<1> QED
  BY <1>1, <1>2, <1>3

\* A finite set has a least element.
LEMMA FiniteLeast ==
  ASSUME NEW n \in Nat, NEW S, IsFiniteSet(S), S # {}, NEW key \in [S -> [1 .. n -> Int]]
  PROVE  \E x \in S : \A y \in S : ~LexLess(key[y], key[x])
<1> DEFINE Sizes == {Cardinality(Below(S, key, x)) : x \in S}
<1>1. Sizes \in SUBSET Nat /\ Sizes # {}
  <2>1. ASSUME NEW x \in S PROVE Cardinality(Below(S, key, x)) \in Nat
    <3>1. Cardinality(S) \in Nat
      BY FS_CardinalityType
    <3> QED
      BY <3>1, FiniteBelow
  <2> QED
    BY <2>1
<1>2. PICK m \in Sizes : \A k \in Sizes : ~(k < m)
  <2> HIDE DEF Sizes
  <2> QED
    BY <1>1, LeastNumber
<1>3. PICK x \in S : m = Cardinality(Below(S, key, x))
  OBVIOUS
<1>4. ASSUME NEW y \in S, LexLess(key[y], key[x]) PROVE FALSE
  <2>1. Cardinality(Below(S, key, y)) < Cardinality(Below(S, key, x))
    BY <1>4, FiniteBelow
  <2> QED
    BY <1>2, <1>3, <2>1
<1> QED
  BY <1>4

\* No two elements have the same key.
Distinguishes(S, key) == \A x, y \in S : key[x] = key[y] => x = y

\* If no two keys are the same then any number is that of the elements before
\* one element.
LEMMA FiniteRanks ==
  ASSUME NEW n \in Nat, NEW S, IsFiniteSet(S), NEW key \in [S -> [1 .. n -> Int]],
         Distinguishes(S, key)
  PROVE  /\ \A m \in 0 .. Cardinality(S) - 1 :
              \E x \in S : Cardinality(Below(S, key, x)) = m
         /\ \A x, y \in S :
              Cardinality(Below(S, key, x)) = Cardinality(Below(S, key, y)) => x = y
<1> DEFINE rank == [x \in S |-> Cardinality(Below(S, key, x))]
           T == 0 .. Cardinality(S) - 1
<1>1. Cardinality(S) \in Nat
  BY FS_CardinalityType
<1>2. \A x \in S : Cardinality(Below(S, key, x)) \in T
  <2> SUFFICES ASSUME NEW x \in S PROVE Cardinality(Below(S, key, x)) \in T
    OBVIOUS
  <2> QED
    BY FiniteBelow
<1>3. \A x, y \in S : Cardinality(Below(S, key, x)) = Cardinality(Below(S, key, y)) => x = y
  <2> SUFFICES ASSUME NEW x \in S, NEW y \in S, x # y
               PROVE  Cardinality(Below(S, key, x)) # Cardinality(Below(S, key, y))
    OBVIOUS
  <2>1. LexLess(key[x], key[y]) \/ LexLess(key[y], key[x])
    <3>1. key[x] \in [1 .. n -> Int] /\ key[y] \in [1 .. n -> Int] /\ key[x] # key[y]
      BY DEF Distinguishes
    <3> QED
      BY <3>1, LexTotal
  <2>2. \/ Cardinality(Below(S, key, x)) < Cardinality(Below(S, key, y))
        \/ Cardinality(Below(S, key, y)) < Cardinality(Below(S, key, x))
    <3>1. CASE LexLess(key[x], key[y])
      BY <3>1, FiniteBelow
    <3>2. CASE LexLess(key[y], key[x])
      BY <3>2, FiniteBelow
    <3> QED
      BY <2>1, <3>1, <3>2
  <2>3. Cardinality(Below(S, key, x)) \in Nat /\ Cardinality(Below(S, key, y)) \in Nat
    BY <1>1, <1>2
  <2> QED
    BY <2>2, <2>3
<1>4. rank \in Injection(S, T)
  <2> HIDE DEF T
  <2>1. rank \in [S -> T]
    BY <1>2
  <2>2. \A x, y \in S : rank[x] = rank[y] => x = y
    BY <1>3
  <2> HIDE DEF rank
  <2> QED
    BY <2>1, <2>2 DEF Injection, IsInjective
<1>5. IsFiniteSet(T) /\ Cardinality(T) = Cardinality(S)
  BY SMTT(30), <1>1, FS_Interval
<1>6. rank \in Surjection(S, T)
  <2> HIDE DEF rank, T
  <2> QED
    BY <1>4, <1>5, FS_Injection
<1>7. ASSUME NEW m \in T PROVE \E x \in S : Cardinality(Below(S, key, x)) = m
  <2>1. PICK x \in S : rank[x] = m
    <3> HIDE DEF rank
    <3> QED
      BY <1>6 DEF Surjection
  <2> QED
    BY <2>1
<1> QED
  BY <1>3, <1>7

\* The order of keys of three numbers.
LEMMA LexTriple ==
  ASSUME NEW a \in Int, NEW b \in Int, NEW c \in Int,
         NEW d \in Int, NEW e \in Int, NEW f \in Int
  PROVE  LexLess(<<a, b, c>>, <<d, e, f>>)
           <=> \/ a < d
               \/ a = d /\ b < e
               \/ a = d /\ b = e /\ c < f
<1> DEFINE k == <<a, b, c>>
           l == <<d, e, f>>
<1>1. /\ DOMAIN k = 1 .. 3 /\ k[1] = a /\ k[2] = b /\ k[3] = c
      /\ l[1] = d /\ l[2] = e /\ l[3] = f
  OBVIOUS
<1> HIDE DEF k, l
<1>2. LexLess(k, l) <=>
        \/ k[1] < l[1] /\ \A m \in 1 .. 0 : k[m] = l[m]
        \/ k[2] < l[2] /\ \A m \in 1 .. 1 : k[m] = l[m]
        \/ k[3] < l[3] /\ \A m \in 1 .. 2 : k[m] = l[m]
  <2>1. 1 .. 3 = {1, 2, 3} /\ 1 - 1 = 0 /\ 2 - 1 = 1 /\ 3 - 1 = 2
    OBVIOUS
  <2> QED
    BY <1>1, <2>1 DEF LexLess
<1>3. 1 .. 0 = {} /\ 1 .. 1 = {1} /\ 1 .. 2 = {1, 2}
  OBVIOUS
<1>4. LexLess(k, l) <=> \/ a < d
                        \/ a = d /\ b < e
                        \/ a = d /\ b = e /\ c < f
  BY <1>1, <1>2, <1>3
<1> QED
  BY <1>4 DEF k, l

\* The order of keys of two numbers.
LEMMA LexPair ==
  ASSUME NEW a \in Int, NEW b \in Int, NEW c \in Int, NEW d \in Int
  PROVE  LexLess(<<a, b>>, <<c, d>>) <=> a < c \/ (a = c /\ b < d)
<1> DEFINE k == <<a, b>>
           l == <<c, d>>
<1>1. DOMAIN k = 1 .. 2 /\ k[1] = a /\ k[2] = b /\ l[1] = c /\ l[2] = d
  OBVIOUS
<1> HIDE DEF k, l
<1>2. LexLess(k, l) <=>
        \/ k[1] < l[1] /\ \A m \in 1 .. 0 : k[m] = l[m]
        \/ k[2] < l[2] /\ \A m \in 1 .. 1 : k[m] = l[m]
  <2>1. 1 .. 2 = {1, 2} /\ 1 - 1 = 0 /\ 2 - 1 = 1
    OBVIOUS
  <2> QED
    BY <1>1, <2>1 DEF LexLess
<1>3. 1 .. 0 = {} /\ 1 .. 1 = {1}
  OBVIOUS
<1>4. LexLess(k, l) <=> a < c \/ (a = c /\ b < d)
  BY <1>1, <1>2, <1>3
<1> QED
  BY <1>4 DEF k, l

\* A sorted set is a sequence of its elements, each once.
LEMMA SortedIs ==
  ASSUME NEW n \in Nat, NEW S \in SUBSET [1 .. n -> Int], IsFiniteSet(S)
  PROVE  /\ Cardinality(S) \in Nat
         /\ Sorted(S) \in [1 .. Cardinality(S) -> S]
         /\ \A x \in S : \E k \in 1 .. Cardinality(S) : Sorted(S)[k] = x
         /\ \A i, j \in 1 .. Cardinality(S) : i < j => LexLess(Sorted(S)[i], Sorted(S)[j])
<1> DEFINE key == [x \in S |-> x]
           c == Cardinality(S)
           size(x) == Cardinality(Below(S, key, x))
<1>0. c \in Nat
  BY FS_CardinalityType
<1>1. key \in [S -> [1 .. n -> Int]] /\ Distinguishes(S, key) /\ \A x \in S : key[x] = x
  BY DEF Distinguishes
<1>2. \A x \in S : {y \in S : LexLess(y, x)} = Below(S, key, x)
  BY DEF Below
<1>3. /\ \A m \in 0 .. c - 1 : \E x \in S : size(x) = m
      /\ \A x, y \in S : size(x) = size(y) => x = y
  <2> HIDE DEF key
  <2> QED
    BY <1>1, FiniteRanks
<1>4. \A x \in S : /\ size(x) \in 0 .. c - 1
                   /\ \A z \in S : LexLess(key[z], key[x]) => size(z) < size(x)
  <2> HIDE DEF key
  <2> QED
    BY <1>1, FiniteBelow
<1>5. Sorted(S) = [k \in 1 .. c |-> CHOOSE x \in S : Cardinality({y \in S : LexLess(y, x)}) = k - 1]
  BY DEF Sorted
<1>6. \A x \in S : Cardinality({y \in S : LexLess(y, x)}) = size(x)
  BY <1>2
<1> HIDE DEF key, size, c
<1>7. ASSUME NEW k \in 1 .. c
      PROVE  Sorted(S)[k] \in S /\ size(Sorted(S)[k]) = k - 1
  <2>1. k - 1 \in 0 .. c - 1
    BY <1>0
  <2>2. PICK x \in S : size(x) = k - 1
    BY <1>3, <2>1
  <2>3. Cardinality({y \in S : LexLess(y, x)}) = k - 1
    BY <1>6, <2>2
  <2>4. Sorted(S)[k] = CHOOSE z \in S : Cardinality({y \in S : LexLess(y, z)}) = k - 1
    BY <1>5
  <2>5. Sorted(S)[k] \in S /\ Cardinality({y \in S : LexLess(y, Sorted(S)[k])}) = k - 1
    BY <2>3, <2>4
  <2> QED
    BY <1>6, <2>5
<1>8. Sorted(S) \in [1 .. c -> S]
  BY <1>5, <1>7
<1>9. ASSUME NEW x \in S PROVE \E k \in 1 .. c : Sorted(S)[k] = x
  <2>1. size(x) \in 0 .. c - 1
    BY <1>4
  <2>2. size(x) + 1 \in 1 .. c /\ (size(x) + 1) - 1 = size(x)
    BY <1>0, <2>1
  <2>3. Sorted(S)[size(x) + 1] \in S /\ size(Sorted(S)[size(x) + 1]) = size(x)
    BY <1>7, <2>2
  <2> QED
    BY <1>3, <2>2, <2>3
<1>10. ASSUME NEW i \in 1 .. c, NEW j \in 1 .. c, i < j
       PROVE  LexLess(Sorted(S)[i], Sorted(S)[j])
  <2> DEFINE x == Sorted(S)[i]
             y == Sorted(S)[j]
  <2>1. x \in S /\ y \in S /\ size(x) = i - 1 /\ size(y) = j - 1
    BY <1>7
  <2> HIDE DEF x, y
  <2>2. size(x) < size(y)
    BY <1>0, <1>10, <2>1
  <2>3. size(x) \in 0 .. c - 1 /\ size(y) \in 0 .. c - 1
    BY <1>4, <2>1
  <2>4. x # y
    BY <2>2, <2>3
  <2>5. ~LexLess(y, x)
    <3>1. SUFFICES ASSUME LexLess(y, x) PROVE FALSE
      OBVIOUS
    <3>2. LexLess(key[y], key[x])
      BY <1>1, <2>1, <3>1
    <3>3. size(y) < size(x)
      BY <1>4, <2>1, <3>2
    <3> QED
      BY <2>2, <2>3, <3>3
  <2>6. LexLess(x, y)
    BY <2>1, <2>4, <2>5, LexTotal
  <2> QED
    BY <2>6 DEF x, y
<1> QED
  BY <1>0, <1>8, <1>9, <1>10 DEF c

\* No element comes twice, and the order of places is that of the elements.
LEMMA SortedPlaces ==
  ASSUME NEW n \in Nat, NEW S \in SUBSET [1 .. n -> Int], IsFiniteSet(S),
         NEW i \in 1 .. Cardinality(S), NEW j \in 1 .. Cardinality(S)
  PROVE  /\ Sorted(S)[i] = Sorted(S)[j] => i = j
         /\ LexLess(Sorted(S)[i], Sorted(S)[j]) => i < j
<1>1. /\ Cardinality(S) \in Nat
      /\ Sorted(S)[i] \in [1 .. n -> Int] /\ Sorted(S)[j] \in [1 .. n -> Int]
      /\ i < j => LexLess(Sorted(S)[i], Sorted(S)[j])
      /\ j < i => LexLess(Sorted(S)[j], Sorted(S)[i])
  BY ZenonT(30), SortedIs
<1>2. ASSUME LexLess(Sorted(S)[i], Sorted(S)[j]) PROVE i < j
  <2>1. ~(i = j)
    BY <1>1, <1>2, LexIrreflexive
  <2>2. ~(j < i)
    <3>1. SUFFICES ASSUME j < i PROVE FALSE
      OBVIOUS
    <3>2. LexLess(Sorted(S)[i], Sorted(S)[i])
      BY <1>1, <1>2, <3>1, LexTransitive
    <3> QED
      BY <1>1, <3>2, LexIrreflexive
  <2> QED
    BY <1>1, <2>1, <2>2
<1>3. ASSUME Sorted(S)[i] = Sorted(S)[j] PROVE i = j
  <2>1. ~LexLess(Sorted(S)[i], Sorted(S)[j]) /\ ~LexLess(Sorted(S)[j], Sorted(S)[i])
    BY <1>1, <1>3, LexIrreflexive
  <2> QED
    BY <1>1, <2>1
<1> QED
  BY <1>2, <1>3

\* What comes right before an element in the order is at the place before it.
LEMMA SortedNext ==
  ASSUME NEW n \in Nat, NEW S \in SUBSET [1 .. n -> Int], IsFiniteSet(S),
         NEW i \in 1 .. Cardinality(S), NEW x \in S, LexLess(x, Sorted(S)[i]),
         \A y \in S : ~(LexLess(x, y) /\ LexLess(y, Sorted(S)[i]))
  PROVE  i - 1 \in 1 .. Cardinality(S) /\ Sorted(S)[i - 1] = x
<1>1. PICK j \in 1 .. Cardinality(S) : Sorted(S)[j] = x
  BY SortedIs
<1>2. j < i
  BY <1>1, SortedPlaces
<1>3. Cardinality(S) \in Nat
  BY SortedIs
<1>4. i - 1 \in 1 .. Cardinality(S) /\ i - 1 < i
  BY <1>2, <1>3
<1>5. ~(j < i - 1)
  <2>1. SUFFICES ASSUME j < i - 1 PROVE FALSE
    OBVIOUS
  <2>2. /\ Sorted(S)[i - 1] \in S /\ LexLess(Sorted(S)[j], Sorted(S)[i - 1])
        /\ LexLess(Sorted(S)[i - 1], Sorted(S)[i])
    BY <1>4, <2>1, SortedIs
  <2> QED
    BY <1>1, <2>2
<1>6. j = i - 1
  BY <1>2, <1>3, <1>5
<1> QED
  BY <1>1, <1>4, <1>6

=============================================================================
