------------------------- MODULE KeywordGraphProofs -------------------------
(***************************************************************************)
(* Proofs about the runtime facade, for every snapshot that the builder    *)
(* can make and every request: what the thresholds of a companion admit,   *)
(* that the help a recall answer offers is real, shown and the best, and   *)
(* that a query plan keeps and accounts for what it was asked.             *)
(***************************************************************************)
EXTENDS KeywordGraph, LexOrderProofs, SequenceTheorems

-----------------------------------------------------------------------------
(* Edges.                                                                  *)

\* A number that is multiplied by more exceeds one multiplied by less.
LEMMA CancelFactor ==
  ASSUME NEW c \in Nat \ {0}, NEW x \in Nat, NEW y \in Nat, c * x =< c * y
  PROVE  x =< y
<1>1. SUFFICES ASSUME y < x PROVE FALSE
  OBVIOUS
<1>2. PICK d \in Nat \ {0} : x = y + d
  <2>1. x - y \in Nat \ {0} /\ x = y + (x - y)
    BY <1>1
  <2>2. QED
    BY <2>1
<1>3. c * x = c * y + c * d
  BY <1>2
<1>4. c * d > 0
  BY SMT
<1>5. QED
  BY <1>3, <1>4

\* A pair that passes _is_strong_cooccurrence shares exactly half of the
\* windows, and neither surface occurs in the other half: two surfaces of
\* which one also occurs alone, or that share more than half of the windows,
\* are never companions, whatever the JDs (support 0.5 and pmi 1.0 in
\* runtime/surface_selector.py, computed by builder/cooccurrence.py).
THEOREM StrongIsHalf ==
  ASSUME NEW e \in EdgeTypes, EdgeCounted(e)
  PROVE  IsStrong(e) <=> HalfOfTheWindows(e)
<1> DEFINE n == e.windows  l == e.ofA  r == e.ofB  c == e.together
<1>1. /\ n \in Nat /\ l \in Nat /\ r \in Nat /\ c \in Nat \ {0}
      /\ c =< l /\ c =< r /\ l + r - c =< n
  BY DEF EdgeTypes, EdgeCounted
<1>2. ASSUME IsStrong(e) PROVE HalfOfTheWindows(e)
  <2>1. 2 * c >= n /\ c * n >= 2 * l * r
    BY <1>2 DEF IsStrong
  <2>2. l * c =< l * r
    BY <1>1
  <2>3. c * (2 * l) =< c * n
    BY <1>1, <2>1, <2>2
  <2>4. 2 * l =< n
    <3>1. 2 * l \in Nat
      BY <1>1
    <3>2. QED
      BY <1>1, <2>3, <3>1, CancelFactor
  <2>5. r * c =< l * r
    BY <1>1
  <2>6. c * (2 * r) =< c * n
    BY <1>1, <2>1, <2>5
  <2>7. 2 * r =< n
    <3>1. 2 * r \in Nat
      BY <1>1
    <3>2. QED
      BY <1>1, <2>6, <3>1, CancelFactor
  <2>8. QED
    BY <1>1, <2>1, <2>4, <2>7 DEF HalfOfTheWindows
<1>3. ASSUME HalfOfTheWindows(e) PROVE IsStrong(e)
  BY <1>1, <1>3 DEF HalfOfTheWindows, IsStrong
<1>4. QED
  BY <1>2, <1>3

-----------------------------------------------------------------------------
(* Snapshots.                                                              *)

\* What a snapshot consists of.
LEMMA SnapshotTyped ==
  ASSUME graph \in Snapshots
  PROVE  /\ graph.active \in SUBSET Surfaces /\ graph.unsafe \in SUBSET Surfaces
         /\ graph.bucket \in [Surfaces -> Buckets \union {"none"}]
         /\ graph.base \in [Surfaces -> Surfaces \union {0}]
         /\ graph.alias \in Surfaces \union {0}
         /\ graph.versioned \in SUBSET Surfaces
         /\ graph.edges \in SUBSET EdgeTypes
         /\ Surfaces \in SUBSET Nat /\ 0 \notin Surfaces
         /\ \A s \in Surfaces : graph.base[s] # s
         /\ graph.alias # 0 =>
              /\ graph.base[graph.alias] # 0
              /\ graph.alias \notin graph.unsafe /\ graph.base[graph.alias] \notin graph.unsafe
         /\ \A e \in graph.edges :
              EdgeCounted(e) /\ e.a \in graph.active /\ e.b \in graph.active
         /\ graph.blocked \intersect Surfaces \subseteq graph.unsafe
BY GraphAssumption DEF SnapshotTypes, Null

\* Surfaces have places of their own in the orders of a snapshot.
LEMMA PlacesDistinct ==
  ASSUME graph \in Snapshots
  PROVE  /\ graph.order \in [Surfaces -> Nat]
         /\ graph.labels \in [BundleTypes -> [Surfaces -> Nat]]
         /\ \A s, t \in Surfaces : graph.order[s] = graph.order[t] => s = t
         /\ \A type \in BundleTypes, s, t \in Surfaces :
              graph.labels[type][s] = graph.labels[type][t] => s = t
BY GraphAssumption DEF SnapshotTypes

\* A surface is in the group of what it is based on, however the chains of
\* bases go.
LEMMA RootOfBase ==
  ASSUME graph \in Snapshots, NEW s \in Surfaces, graph.base[s] # 0
  PROVE  Root[s] = Root[graph.base[s]]
<1> DEFINE closed(X) == \A x \in X : graph.base[x] # 0 => graph.base[x] \in X
           ends(x) == {r \in Surfaces : /\ graph.base[r] = 0
                                        /\ \A X \in SUBSET Surfaces :
                                             x \in X /\ closed(X) => r \in X}
           f == [x \in Surfaces |-> CHOOSE r : r \in ends(x)]
<1>0. graph.base \in [Surfaces -> Surfaces \union {0}]
  BY SnapshotTyped
<1>1. ASSUME NEW x \in Surfaces, graph.base[x] = 0 PROVE ends(x) = {x}
  <2>1. {x} \in SUBSET Surfaces /\ closed({x})
    BY <1>1
  <2> QED
    BY <1>1, <2>1
<1>2. ASSUME NEW x \in Surfaces, graph.base[x] # 0 PROVE ends(x) = ends(graph.base[x])
  <2>1. ASSUME NEW r \in ends(x), NEW X \in SUBSET Surfaces, graph.base[x] \in X, closed(X)
        PROVE  r \in X
    <3>1. X \union {x} \in SUBSET Surfaces /\ closed(X \union {x}) /\ x \in X \union {x}
      BY <2>1
    <3>2. r \in X \union {x}
      BY <3>1
    <3>3. r # x
      BY <1>2
    <3> QED
      BY <3>2, <3>3
  <2>2. ASSUME NEW r \in ends(graph.base[x]), NEW X \in SUBSET Surfaces, x \in X, closed(X)
        PROVE  r \in X
    BY <1>2, <2>2
  <2> QED
    BY <2>1, <2>2
<1>3. ASSUME NEW x \in Surfaces
      PROVE  f[x] = IF graph.base[x] = 0 THEN x ELSE f[graph.base[x]]
  <2> HIDE DEF ends
  <2> QED
    BY <1>0, <1>1, <1>2
<1>4. f = [x \in Surfaces |-> IF graph.base[x] = 0 THEN x ELSE f[graph.base[x]]]
  <2>1. f = [x \in Surfaces |-> f[x]]
    OBVIOUS
  <2> HIDE DEF f
  <2> QED
    BY <1>3, <2>1
<1>5. Root = [x \in Surfaces |-> IF graph.base[x] = 0 THEN x ELSE Root[graph.base[x]]]
  <2> HIDE DEF f
  <2> QED
    BY <1>4 DEF Root, Null
<1> QED
  BY <1>5

\* A concept has one primary surface.
LEMMA PrimaryUnique ==
  ASSUME graph \in Snapshots, NEW s, NEW p \in PrimarySurface(s), NEW q \in PrimarySurface(s)
  PROVE  p = q
<1>1. p \in Surfaces /\ q \in Surfaces /\ graph.order[p] \in Nat /\ graph.order[q] \in Nat
  BY SnapshotTyped, PlacesDistinct DEF PrimarySurface, Group
<1>2. PrimaryRank(p) \in 0 .. 2 /\ PrimaryRank(q) \in 0 .. 2
  BY DEF PrimaryRank
<1>3. /\ PrimaryRank(p) < PrimaryRank(q)
           \/ (PrimaryRank(p) = PrimaryRank(q) /\ graph.order[p] =< graph.order[q])
      /\ PrimaryRank(q) < PrimaryRank(p)
           \/ (PrimaryRank(q) = PrimaryRank(p) /\ graph.order[q] =< graph.order[p])
  BY DEF PrimarySurface
<1>4. graph.order[p] = graph.order[q]
  BY <1>1, <1>2, <1>3
<1> QED
  BY <1>1, <1>4, PlacesDistinct

\* The members of a group have the same group and primary surface.
LEMMA SameGroup ==
  ASSUME NEW s, NEW t \in Group(s)
  PROVE  Group(t) = Group(s) /\ PrimarySurface(t) = PrimarySurface(s)
BY DEF Group, PrimarySurface

\* A surface and what it is related to are two members of one group.
LEMMA RelatedInGroup ==
  ASSUME graph \in Snapshots, NEW s \in graph.active, NEW t \in RelatedTo(s)
  PROVE  t \in Group(s) /\ t # s
<1>1. /\ t \in graph.active /\ s \in Surfaces /\ t \in Surfaces
      /\ graph.base[s] = t \/ graph.base[t] = s
  BY SnapshotTyped DEF RelatedTo
<1>2. graph.base[s] # s /\ s # 0 /\ t # 0
  BY <1>1, SnapshotTyped
<1>3. Root[t] = Root[s]
  BY <1>1, <1>2, RootOfBase
<1> QED
  BY <1>1, <1>2, <1>3 DEF Group

\* The support of an edge is a percentage.
LEMMA SupportTyped ==
  ASSUME NEW e \in EdgeTypes, EdgeCounted(e)
  PROVE  Support(e) \in 0 .. 100
<1> DEFINE w == e.windows
           t == e.together
           q == (100 * t) \div w
<1>1. w \in Nat \ {0} /\ t \in Nat /\ t =< w
  BY DEF EdgeTypes, EdgeCounted
<1>2. q \in Nat /\ w * q =< 100 * t
  BY <1>1
<1>3. w * q =< w * 100
  BY <1>1, <1>2
<1>4. q =< 100
  <2> HIDE DEF q, w
  <2> QED
    BY <1>1, <1>2, <1>3, CancelFactor
<1> QED
  BY <1>2, <1>4 DEF Support

-----------------------------------------------------------------------------
(* Alternatives.                                                           *)

Kinds == {"alias", "version_variant", "equivalent", "cooccurrence"}

AlternativeTypes ==
  [source : Surfaces, target : Surfaces, kind : Kinds, confidence : 0 .. 100]

\* Every alternative of a surface is another active surface, and a relation or
\* an equivalent one is of its group.
LEMMA AlternativesTyped ==
  ASSUME graph \in Snapshots, NEW s \in graph.active, NEW a \in Alternatives(s)
  PROVE  /\ a \in AlternativeTypes
         /\ a.source = s /\ a.target \in graph.active /\ a.target # s
         /\ a.kind # "cooccurrence" => a.target \in Group(s)
<1>0. s \in Surfaces /\ graph.active \in SUBSET Surfaces
  BY SnapshotTyped
<1>1. ASSUME a \in Related(s)
      PROVE  /\ a.target \in graph.active /\ a.target # s /\ a.target \in Group(s)
             /\ a = [source |-> s, target |-> a.target, kind |-> a.kind,
                     confidence |-> a.confidence]
             /\ a.kind \in {"alias", "version_variant"} /\ a.confidence \in {90, 95}
  <2>1. PICK t \in RelatedTo(s) :
          a = Alternative(s, t, IF IsAliasPair(s, t) THEN "alias" ELSE "version_variant",
                          RelationConfidence(s, t))
    BY <1>1 DEF Related
  <2>2. t \in Group(s) /\ t # s /\ t \in graph.active
    BY RelatedInGroup DEF RelatedTo
  <2>3. RelationConfidence(s, t) \in {90, 95}
    BY DEF RelationConfidence
  <2> QED
    BY <2>1, <2>2, <2>3 DEF Alternative
<1>2. ASSUME a \in SameConcept(s)
      PROVE  /\ a.target \in graph.active /\ a.target # s /\ a.target \in Group(s)
             /\ a = [source |-> s, target |-> a.target, kind |-> a.kind,
                     confidence |-> a.confidence]
             /\ a.kind = "equivalent" /\ a.confidence \in {90, 100}
  <2>1. PICK t \in Group(s) \ {s} : a = Alternative(s, t, "equivalent", LinkConfidence(t))
    BY <1>2 DEF SameConcept
  <2>2. LinkConfidence(t) \in {90, 100} /\ t \in graph.active
    BY DEF LinkConfidence, Group
  <2> QED
    BY <2>1, <2>2 DEF Alternative
<1>3. ASSUME a \in Cooccurring(s)
      PROVE  /\ a.target \in graph.active /\ a.target # s
             /\ a = [source |-> s, target |-> a.target, kind |-> a.kind,
                     confidence |-> a.confidence]
             /\ a.kind = "cooccurrence" /\ a.confidence \in 0 .. 100
  <2>1. PICK e \in EdgesOf(s) :
          a = Alternative(s, OtherEnd(e, s), "cooccurrence", Support(e))
    BY <1>3 DEF Cooccurring
  <2>2. e \in EdgeTypes /\ EdgeCounted(e) /\ s \in {e.a, e.b}
        /\ e.a \in graph.active /\ e.b \in graph.active
    BY SnapshotTyped DEF EdgesOf
  <2>3. Support(e) \in 0 .. 100
    BY <2>2, SupportTyped
  <2>4. OtherEnd(e, s) \in graph.active /\ OtherEnd(e, s) # s
    <3>1. e.a \in Nat /\ e.b \in Nat /\ e.a < e.b
      BY <2>2, SnapshotTyped DEF EdgeCounted
    <3>2. e.a # e.b
      BY <3>1
    <3> QED
      BY <2>2, <3>2 DEF OtherEnd
  <2> QED
    BY <2>1, <2>3, <2>4 DEF Alternative
<1>4. a.target \in graph.active => a.target \in Surfaces
  BY <1>0
<1> QED
  BY <1>0, <1>1, <1>2, <1>3, <1>4 DEF Alternatives, AlternativeTypes, Kinds

\* The source, target and kind tell the alternatives of a surface apart.
LEMMA AlternativesDiffer ==
  ASSUME graph \in Snapshots, NEW s \in graph.active,
         NEW a \in Alternatives(s), NEW b \in Alternatives(s),
         a.target = b.target, KindRank(a.kind) = KindRank(b.kind),
         a.confidence = b.confidence
  PROVE  a = b
<1>1. /\ a = [source |-> s, target |-> a.target, kind |-> a.kind, confidence |-> a.confidence]
      /\ b = [source |-> s, target |-> b.target, kind |-> b.kind, confidence |-> b.confidence]
      /\ a.kind \in Kinds /\ b.kind \in Kinds
  BY AlternativesTyped DEF AlternativeTypes
<1>2. ASSUME NEW x \in Alternatives(s), x.kind \in {"alias", "version_variant"}
      PROVE  x.kind = IF IsAliasPair(s, x.target) THEN "alias" ELSE "version_variant"
  <2>1. x \notin SameConcept(s) /\ x \notin Cooccurring(s)
    BY <1>2 DEF SameConcept, Cooccurring, Alternative
  <2> QED
    BY <2>1 DEF Alternatives, Related, Alternative
<1>3. a.kind = b.kind
  BY <1>1, <1>2 DEF KindRank, Kinds
<1> QED
  BY <1>1, <1>3

\* There are finitely many alternatives.
LEMMA AlternativesFinite == IsFiniteSet(AlternativeTypes)
<1> DEFINE P == ((Surfaces \X Surfaces) \X Kinds) \X (0 .. 100)
           f == [x \in P |-> [source |-> x[1][1][1], target |-> x[1][1][2],
                              kind |-> x[1][2], confidence |-> x[2]]]
<1>1. IsFiniteSet(Kinds)
  <2>1. IsFiniteSet({"alias"} \union {"version_variant"})
    BY FS_Singleton, FS_Union
  <2>2. IsFiniteSet({"equivalent"} \union {"cooccurrence"})
    BY FS_Singleton, FS_Union
  <2>3. Kinds = ({"alias"} \union {"version_variant"}) \union ({"equivalent"} \union {"cooccurrence"})
    BY DEF Kinds
  <2> QED
    BY <2>1, <2>2, <2>3, FS_Union
<1>2. IsFiniteSet(0 .. 100)
  <2>1. 0 \in Int /\ 100 \in Int
    OBVIOUS
  <2> QED
    BY <2>1, FS_Interval
<1>3. IsFiniteSet(Surfaces \X Surfaces)
  BY GraphAssumption, FS_Product
<1>4. IsFiniteSet(P)
  <2>1. IsFiniteSet((Surfaces \X Surfaces) \X Kinds)
    BY <1>1, <1>3, FS_Product
  <2> QED
    BY <1>2, <2>1, FS_Product
<1>5. f \in Surjection(P, AlternativeTypes)
  <2>1. f \in [P -> AlternativeTypes]
    BY DEF AlternativeTypes
  <2>2. ASSUME NEW a \in AlternativeTypes PROVE \E x \in P : f[x] = a
    <3> DEFINE x == <<<<<<a.source, a.target>>, a.kind>>, a.confidence>>
    <3>1. x \in P
      BY DEF AlternativeTypes
    <3>2. f[x] = a
      BY <3>1 DEF AlternativeTypes
    <3> QED
      BY <3>1, <3>2
  <2> HIDE DEF f, P
  <2> QED
    BY <2>1, <2>2 DEF Surjection
<1> QED
  <2> HIDE DEF f, P
  <2> QED
    BY <1>4, <1>5, FS_Surjection

\* What alternatives are sorted by are numbers.
LEMMA AlternativeKeyTyped ==
  ASSUME graph \in Snapshots, NEW a \in AlternativeTypes
  PROVE  /\ BucketRank(Bucket(a.target)) \in 0 .. 5 /\ KindRank(a.kind) \in 0 .. 2
         /\ a.target \in Nat /\ a.confidence \in 0 .. 100
         /\ graph.bucket[a.target] = "healthy" => BucketRank(Bucket(a.target)) = 0
<1>1. /\ a.target \in Surfaces /\ a.kind \in Kinds /\ a.confidence \in 0 .. 100
      /\ a.target \in Nat
  BY SnapshotTyped DEF AlternativeTypes
<1>2. Bucket(a.target) \in Buckets
  BY <1>1, SnapshotTyped DEF Bucket, Buckets
<1>3. BucketRank(Bucket(a.target)) \in 0 .. 5
  BY <1>2 DEF BucketRank, Buckets
<1>4. KindRank(a.kind) \in 0 .. 2
  BY <1>1 DEF KindRank, Kinds
<1>5. graph.bucket[a.target] = "healthy" => BucketRank(Bucket(a.target)) = 0
  BY DEF Bucket, BucketRank
<1> QED
  BY <1>1, <1>3, <1>4, <1>5

\* The order of the keys of two alternatives.
LEMMA KeyOrder ==
  ASSUME graph \in Snapshots, NEW a \in AlternativeTypes, NEW b \in AlternativeTypes
  PROVE  LexLess(SortKey(a), SortKey(b))
           <=> \/ BucketRank(Bucket(a.target)) < BucketRank(Bucket(b.target))
               \/ /\ BucketRank(Bucket(a.target)) = BucketRank(Bucket(b.target))
                  /\ b.confidence < a.confidence
               \/ /\ BucketRank(Bucket(a.target)) = BucketRank(Bucket(b.target))
                  /\ b.confidence = a.confidence
                  /\ a.target < b.target
<1> DEFINE r1 == BucketRank(Bucket(a.target))
           r2 == BucketRank(Bucket(b.target))
           c1 == -a.confidence
           c2 == -b.confidence
<1>1. /\ r1 \in 0 .. 5 /\ a.target \in Nat /\ a.confidence \in 0 .. 100
      /\ r2 \in 0 .. 5 /\ b.target \in Nat /\ b.confidence \in 0 .. 100
  BY AlternativeKeyTyped
<1>2. /\ r1 \in Int /\ c1 \in Int /\ a.target \in Int
      /\ r2 \in Int /\ c2 \in Int /\ b.target \in Int
  BY <1>1
<1>3. (c1 < c2 <=> b.confidence < a.confidence) /\ (c1 = c2 <=> b.confidence = a.confidence)
  <2>1. \A x, y \in 0 .. 100 : (-x < -y <=> y < x) /\ (-x = -y <=> y = x)
    OBVIOUS
  <2>2. a.confidence \in 0 .. 100 /\ b.confidence \in 0 .. 100
    BY <1>1
  <2> QED
    BY <2>1, <2>2, Zenon
<1>4. SortKey(a) = <<r1, c1, a.target>> /\ SortKey(b) = <<r2, c2, b.target>>
  BY DEF SortKey
<1> HIDE DEF r1, r2, c1, c2
<1>5. LexLess(SortKey(a), SortKey(b))
        <=> \/ r1 < r2
            \/ r1 = r2 /\ c1 < c2
            \/ r1 = r2 /\ c1 = c2 /\ a.target < b.target
  BY <1>2, <1>4, LexTriple
<1> QED
  BY <1>3, <1>5 DEF r1, r2

\* No alternative comes before itself.
LEMMA BeforeIrreflexive ==
  ASSUME graph \in Snapshots, NEW a \in AlternativeTypes PROVE ~Before(a, a)
<1>1. /\ BucketRank(Bucket(a.target)) \in 0 .. 5 /\ a.confidence \in 0 .. 100
      /\ a.target \in Nat /\ KindRank(a.kind) \in 0 .. 2
  BY AlternativeKeyTyped
<1>2. ~LexLess(SortKey(a), SortKey(a))
  <2>1. \A x \in Int : ~(x < x)
    OBVIOUS
  <2> QED
    BY <1>1, <2>1, KeyOrder
<1>3. ~(KindRank(a.kind) < KindRank(a.kind))
  BY <1>1
<1>4. \A i \in DOMAIN Raw : i \in Nat /\ i >= 1
  BY DEF Raw
<1> QED
  BY <1>2, <1>3, <1>4 DEF Before, InsertedBefore

\* Of some alternatives of one surface there is a first.
LEMMA FirstExists ==
  ASSUME graph \in Snapshots, NEW s \in graph.active,
         NEW S \in SUBSET Alternatives(s), S # {}
  PROVE  First(S) # {}
<1> DEFINE key == [a \in S |-> <<BucketRank(Bucket(a.target)), -a.confidence, a.target,
                                 KindRank(a.kind)>>]
<1>0. ASSUME NEW a \in S
      PROVE  /\ a \in AlternativeTypes /\ a.source = s
             /\ BucketRank(Bucket(a.target)) \in Int /\ KindRank(a.kind) \in Int
             /\ a.target \in Int /\ a.confidence \in Int
  BY AlternativesTyped, AlternativeKeyTyped
<1>1. key \in [S -> [1 .. 4 -> Int]]
  BY <1>0
<1>2. IsFiniteSet(S)
  BY <1>0, AlternativesFinite, FS_Subset
<1>3. PICK x \in S : \A y \in S : ~LexLess(key[y], key[x])
  <2> HIDE DEF key
  <2> QED
    BY <1>1, <1>2, FiniteLeast
<1>4. ASSUME NEW y \in S \ {x} PROVE Before(x, y)
  <2>1. key[x] # key[y]
    <3>1. SUFFICES ASSUME key[x] = key[y] PROVE FALSE
      OBVIOUS
    <3>2. /\ x.target = y.target /\ KindRank(x.kind) = KindRank(y.kind)
          /\ x.confidence = y.confidence
      BY <1>0, <3>1
    <3> QED
      BY <3>2, AlternativesDiffer
  <2>2. LexLess(key[x], key[y])
    <3>1. key[x] \in [1 .. 4 -> Int] /\ key[y] \in [1 .. 4 -> Int]
      BY <1>1
    <3> HIDE DEF key
    <3> QED
      BY <1>3, <2>1, <3>1, LexTotal
  <2>3. PICK n \in 1 .. 4 : key[x][n] < key[y][n] /\ \A m \in 1 .. n - 1 : key[x][m] = key[y][m]
    BY <2>2 DEF LexLess
  <2>4. /\ key[x][1] = BucketRank(Bucket(x.target)) /\ key[y][1] = BucketRank(Bucket(y.target))
        /\ key[x][2] = -x.confidence /\ key[y][2] = -y.confidence
        /\ key[x][3] = x.target /\ key[y][3] = y.target
        /\ key[x][4] = KindRank(x.kind) /\ key[y][4] = KindRank(y.kind)
    OBVIOUS
  <2>5. CASE n = 4
    <3>1. key[x][1] = key[y][1] /\ key[x][2] = key[y][2] /\ key[x][3] = key[y][3]
      BY <2>3, <2>5
    <3>2. SortKey(x) = SortKey(y) /\ KindRank(x.kind) < KindRank(y.kind)
      BY <2>3, <2>4, <2>5, <3>1 DEF SortKey
    <3> QED
      BY <1>0, <3>2 DEF Before, InsertedBefore
  <2>6. CASE n \in 1 .. 3
    <3> HIDE DEF key
    <3>1. \/ key[x][1] < key[y][1]
          \/ key[x][1] = key[y][1] /\ key[x][2] < key[y][2]
          \/ key[x][1] = key[y][1] /\ key[x][2] = key[y][2] /\ key[x][3] < key[y][3]
      BY <2>3, <2>6
    <3>2. LexLess(SortKey(x), SortKey(y))
      <4>1. /\ x \in AlternativeTypes /\ y \in AlternativeTypes
            /\ x.confidence \in Int /\ y.confidence \in Int
        BY <1>0
      <4>2. /\ -x.confidence < -y.confidence <=> y.confidence < x.confidence
            /\ -x.confidence = -y.confidence <=> y.confidence = x.confidence
        BY <4>1
      <4> QED
        BY <2>4, <3>1, <4>1, <4>2, KeyOrder
    <3> QED
      BY <3>2 DEF Before
  <2> QED
    BY <2>5, <2>6
<1> QED
  BY <1>4 DEF First

\* If there is an alternative then a best one is found, and no other is better.
LEMMA FirstIsBest ==
  ASSUME graph \in Snapshots, NEW S, S \subseteq AlternativeTypes, NEW a \in First(S), NEW b \in S,
         graph.bucket[a.target] = "healthy", graph.bucket[b.target] = "healthy",
         a.source = b.source, a # b
  PROVE  /\ a.confidence >= b.confidence
         /\ a.confidence = b.confidence => a.target =< b.target
<1>1. Before(a, b) /\ a \in S
  BY DEF First
<1>2. /\ BucketRank(Bucket(a.target)) = 0 /\ BucketRank(Bucket(b.target)) = 0
      /\ a.target \in Nat /\ b.target \in Nat
      /\ a.confidence \in 0 .. 100 /\ b.confidence \in 0 .. 100
  BY <1>1, AlternativeKeyTyped
<1>3. CASE LexLess(SortKey(a), SortKey(b))
  <2>1. a \in AlternativeTypes /\ b \in AlternativeTypes
    BY <1>1
  <2>2. \/ b.confidence < a.confidence
        \/ b.confidence = a.confidence /\ a.target < b.target
    BY <1>2, <1>3, <2>1, KeyOrder
  <2> QED
    BY SMTT(30), <1>2, <2>2
<1>4. CASE SortKey(a) = SortKey(b)
  BY SMTT(30), <1>2, <1>4 DEF SortKey
<1> QED
  BY <1>1, <1>3, <1>4 DEF Before

-----------------------------------------------------------------------------
(* Recall.                                                                 *)

\* Of alternatives of one surface at most one is first.
LEMMA FirstUnique ==
  ASSUME graph \in Snapshots, NEW s \in graph.active, NEW S \in SUBSET Alternatives(s),
         NEW a \in First(S), NEW b \in First(S)
  PROVE  a = b
<1>1. SUFFICES ASSUME a # b PROVE FALSE
  OBVIOUS
<1>2. /\ a \in AlternativeTypes /\ a.source = s
      /\ b \in AlternativeTypes /\ b.source = s
  BY AlternativesTyped DEF First
<1>3. Before(a, b) /\ Before(b, a)
  BY <1>1 DEF First
<1>4. /\ BucketRank(Bucket(a.target)) \in 0 .. 5 /\ a.confidence \in 0 .. 100
      /\ a.target \in Nat /\ KindRank(a.kind) \in 0 .. 2
      /\ BucketRank(Bucket(b.target)) \in 0 .. 5 /\ b.confidence \in 0 .. 100
      /\ b.target \in Nat /\ KindRank(b.kind) \in 0 .. 2
  BY <1>2, AlternativeKeyTyped
<1>5. ~LexLess(SortKey(a), SortKey(b)) \/ ~LexLess(SortKey(b), SortKey(a))
  BY SMTT(30), <1>2, <1>4, KeyOrder
<1>6. ASSUME SortKey(a) = SortKey(b) PROVE ~LexLess(SortKey(a), SortKey(b))
  BY <1>2, <1>6, BeforeIrreflexive DEF Before
<1>7. SortKey(a) = SortKey(b) /\ InsertedBefore(a, b) /\ InsertedBefore(b, a)
  BY <1>3, <1>5, <1>6 DEF Before
<1>8. \A i \in DOMAIN Raw : i \in Nat /\ i >= 1
  BY DEF Raw
<1>9. KindRank(a.kind) < KindRank(b.kind) /\ KindRank(b.kind) < KindRank(a.kind)
  <2>1. \A i \in DOMAIN Raw : i \in 1 .. i
    BY <1>8
  <2> QED
    BY <1>2, <1>7, <2>1 DEF InsertedBefore
<1> QED
  BY <1>4, <1>9

\* The alternatives by which a surface may be replaced.
Replacements(s) ==
  {a \in Alternatives(s) : a.kind # "cooccurrence" /\ graph.bucket[a.target] = "healthy"}

\* Those with which a surface may be combined.
Combinations(s) ==
  {a \in Alternatives(s) : /\ request.companions > 0
                           /\ a.kind = "cooccurrence"
                           /\ graph.bucket[a.target] = "healthy"}

\* What advice about a term offers.
LEMMA AdviceOffers ==
  ASSUME NEW s, NEW typed
  PROVE  LET r == Advice(s, typed)
         IN /\ r.source = s
            /\ \/ r.offered = {}
               \/ r.offered = Targets(First(Replacements(s)))
               \/ r.offered = Targets(First(Combinations(s)))
            /\ Bucket(s) \in {"zero", "too_narrow", "stale"} =>
                 r.offered = Targets(First(Replacements(s)))
            /\ r.action = "add_alias_probe" =>
                 /\ r.offered = Targets(First(Replacements(s)))
                 /\ \E a \in First(Replacements(s)) : a.kind = "alias"
<1> DEFINE bucket == Bucket(s)
           replacement == BestReplacement(Alternatives(s))
           companion == BestCompanion(Alternatives(s))
           probe == /\ typed /\ bucket \in {"zero", "too_narrow"}
                    /\ \E a \in replacement : a.kind = "alias"
           advice ==
             CASE bucket = "healthy" -> Recommendation(s, "keep", {}, replacement)
               [] bucket = "too_wide" /\ companion # {} ->
                    Recommendation(s, "add_precision_companion", companion, companion)
               [] bucket = "too_wide" /\ companion = {} ->
                    Recommendation(s, "downrank", {}, replacement)
               [] probe -> Recommendation(s, "add_alias_probe", replacement, replacement)
               [] bucket \in {"zero", "too_narrow", "stale"} /\ replacement # {} /\ ~probe ->
                    Recommendation(s, "replace", replacement, replacement)
               [] OTHER -> Recommendation(s, "score_only", {}, replacement)
<1>1. Advice(s, typed) = advice
  BY DEF Advice
<1>2. replacement = First(Replacements(s)) /\ companion = First(Combinations(s))
  BY DEF BestReplacement, BestCompanion, Replacements, Combinations
<1>3. Targets({}) = {}
  BY DEF Targets
<1>4. \A action, offered, cited :
        LET r == Recommendation(s, action, offered, cited)
        IN r.source = s /\ r.action = action /\ r.offered = Targets(offered)
  BY DEF Recommendation
<1> HIDE DEF bucket, replacement, companion
<1>5. CASE bucket = "healthy"
  <2>1. advice = Recommendation(s, "keep", {}, replacement)
    BY <1>5
  <2> QED
    BY <1>1, <1>3, <1>4, <1>5, <2>1 DEF bucket
<1>6. CASE bucket = "too_wide" /\ companion # {}
  <2>1. advice = Recommendation(s, "add_precision_companion", companion, companion)
    BY <1>6
  <2> QED
    BY <1>1, <1>2, <1>4, <1>6, <2>1 DEF bucket
<1>7. CASE bucket = "too_wide" /\ companion = {}
  <2>1. advice = Recommendation(s, "downrank", {}, replacement)
    BY <1>7
  <2> QED
    BY <1>1, <1>3, <1>4, <1>7, <2>1 DEF bucket
<1>8. CASE bucket \notin {"healthy", "too_wide"} /\ probe
  <2>1. advice = Recommendation(s, "add_alias_probe", replacement, replacement)
    BY <1>8
  <2> QED
    BY <1>1, <1>2, <1>4, <1>8, <2>1
<1>9. CASE bucket \in {"zero", "too_narrow", "stale"} /\ replacement # {} /\ ~probe
  <2>1. advice = Recommendation(s, "replace", replacement, replacement)
    BY <1>9
  <2> QED
    BY <1>1, <1>2, <1>4, <1>9, <2>1
<1>10. CASE /\ bucket \notin {"healthy", "too_wide"} /\ ~probe
            /\ ~(bucket \in {"zero", "too_narrow", "stale"} /\ replacement # {})
  <2>1. advice = Recommendation(s, "score_only", {}, replacement)
    BY <1>10
  <2> QED
    BY <1>1, <1>2, <1>3, <1>4, <1>10, <2>1 DEF bucket
<1> QED
  BY <1>5, <1>6, <1>7, <1>8, <1>9, <1>10

\* Everything that replaces or is combined with a surface is another healthy one.
LEMMA OffersAreHealthy ==
  ASSUME graph \in Snapshots, NEW s \in graph.active, NEW typed,
         NEW t \in Advice(s, typed).offered
  PROVE  \E a \in Alternatives(s) :
           /\ a.target = t /\ Advice(s, typed).offered = {t}
           /\ t \in graph.active /\ t # s /\ graph.bucket[t] = "healthy"
<1> DEFINE offered == Advice(s, typed).offered
<1>1. PICK S \in SUBSET Alternatives(s) :
        /\ offered = Targets(First(S))
        /\ \A a \in S : graph.bucket[a.target] = "healthy"
  <2>1. /\ Replacements(s) \in SUBSET Alternatives(s)
        /\ Combinations(s) \in SUBSET Alternatives(s)
        /\ \A a \in Replacements(s) \union Combinations(s) : graph.bucket[a.target] = "healthy"
    BY DEF Replacements, Combinations
  <2>2. offered = Targets(First(Replacements(s))) \/ offered = Targets(First(Combinations(s)))
    BY AdviceOffers
  <2> QED
    BY <2>1, <2>2
<1>2. PICK a \in First(S) : a.target = t
  BY <1>1 DEF Targets
<1>3. First(S) = {a}
  BY FirstUnique
<1>4. offered = {t}
  BY <1>1, <1>2, <1>3 DEF Targets
<1>5. a \in S /\ a \in Alternatives(s)
  BY <1>1 DEF First
<1> QED
  BY <1>1, <1>2, <1>4, <1>5, AlternativesTyped

\* What recommendations there are: advice about active surfaces, and the terms
\* that are none.
LEMMA RecommendationsKnown ==
  ASSUME NEW r \in Recommendations
  PROVE  \/ \E s \in graph.active, typed \in {Raw[i].typed : i \in Matched} :
              s \in MatchedSurfaces /\ r = Advice(s, typed)
         \/ /\ r.source \notin graph.active /\ r.offered = {} /\ r.action = "fallback"
            /\ r.evidence = {}
<1>1. CASE \E i \in Matched : r = Advice(Raw[i].term, Raw[i].typed)
  <2>1. \A i \in Matched : Raw[i].term \in graph.active /\ Raw[i].term \in MatchedSurfaces
    BY DEF Matched, MatchedSurfaces
  <2> QED
    BY <1>1, <2>1
<1>2. CASE \E i \in InputTerms \ Matched :
             r = [source |-> Raw[i].term, action |-> "fallback", offered |-> {}, evidence |-> {}]
  <2>1. \A i \in InputTerms \ Matched : Raw[i].term \notin graph.active
    BY DEF Matched
  <2> QED
    BY <1>2, <2>1
<1> QED
  BY <1>1, <1>2 DEF Recommendations

\* The alternatives of all the terms, by the term.
LEMMA AlternativesBySource ==
  ASSUME graph \in Snapshots, NEW a
  PROVE  a \in AllAlternatives <=> a.source \in MatchedSurfaces /\ a \in Alternatives(a.source)
<1>1. MatchedSurfaces \subseteq graph.active
  BY DEF MatchedSurfaces, Matched
<1>2. \A s \in MatchedSurfaces : \A b \in Alternatives(s) : b.source = s
  BY <1>1, AlternativesTyped
<1> QED
  BY <1>2 DEF AllAlternatives

\* An answer of a kind that is not an error is the response.
LEMMA AnswerIsResponse ==
  /\ RecallAnswer.kind \in {"recall", "unsupported_provider", "validation_error"}
  /\ RecallAnswer.kind = "recall" => RecallAnswer = Response
  /\ RecallAnswer.kind = "validation_error" => ~Valid(Response)
<1>1. Response.kind = "recall"
  BY DEF Response
<1>2. CASE ~request.supported
  <2>1. RecallAnswer = [kind |-> "unsupported_provider"]
    BY <1>2 DEF RecallAnswer
  <2> QED
    BY <2>1
<1>3. CASE request.supported /\ Valid(Response)
  <2>1. RecallAnswer = Response
    BY <1>3 DEF RecallAnswer
  <2> QED
    BY <1>1, <1>3, <2>1
<1>4. CASE request.supported /\ ~Valid(Response)
  <2>1. RecallAnswer = [kind |-> "validation_error"]
    BY <1>4 DEF RecallAnswer
  <2> QED
    BY <1>4, <2>1
<1> QED
  BY <1>2, <1>3, <1>4

\* What the response consists of.
LEMMA ResponseParts ==
  /\ Response.recommendations = Recommendations
  /\ Response.inputs = {s \in MatchedSurfaces : Observed(s)}
  /\ Response.alternatives = ResponseAlternatives(AllAlternatives, Recommendations)
  /\ Response.optimized = UNION {OptimizedTerms(AllAlternatives, r) : r \in Recommendations}
BY DEF Response

\* What a recommendation offers is among the alternatives of the response,
\* however many of them there are.
LEMMA OffersAreShown ==
  ASSUME graph \in Snapshots, NEW r \in Recommendations, NEW t \in r.offered
  PROVE  /\ t \in graph.active /\ graph.bucket[t] = "healthy" /\ t # r.source
         /\ \E a \in Response.alternatives : a.source = r.source /\ a.target = t
<1>1. PICK s \in graph.active, typed \in {Raw[i].typed : i \in Matched} :
        s \in MatchedSurfaces /\ r = Advice(s, typed)
  BY RecommendationsKnown
<1>2. PICK a \in Alternatives(s) :
        /\ a.target = t /\ Advice(s, typed).offered = {t}
        /\ t \in graph.active /\ t # s /\ graph.bucket[t] = "healthy"
  BY <1>1, OffersAreHealthy
<1>3. r.source = s /\ r.offered = {t}
  BY <1>1, <1>2, AdviceOffers
<1> DEFINE S == {b \in AllAlternatives : b.source = r.source /\ b.target \in r.offered}
<1>4. S \in SUBSET Alternatives(s)
  BY <1>3, AlternativesBySource
<1>5. a \in S
  <2>1. a.source = s
    BY AlternativesTyped
  <2> QED
    BY <1>1, <1>2, <1>3, <2>1, AlternativesBySource
<1>6. PICK b : b \in First(S)
  <2> HIDE DEF S
  <2> QED
    BY <1>4, <1>5, FirstExists
<1>7. b \in Required(AllAlternatives, Recommendations)
  BY <1>6 DEF Required
<1>8. b \in Response.alternatives
  BY <1>7, ResponseParts DEF ResponseAlternatives
<1>9. b.source = r.source /\ b.target = t
  <2>1. b \in S
    BY <1>6 DEF First
  <2> QED
    BY <1>3, <2>1
<1> QED
  BY <1>2, <1>3, <1>8, <1>9

\* The primary surface of a concept, if it is another than s and healthy, is
\* what s is replaced by.
LEMMA PrimaryReplaces ==
  ASSUME graph \in Snapshots, NEW s \in graph.active, HasConcept(s),
         NEW p \in PrimarySurface(s), p # s, graph.bucket[p] = "healthy",
         NEW a \in First(Replacements(s))
  PROVE  a.target = p /\ a.confidence = 100
<1> DEFINE b == Alternative(s, p, "equivalent", LinkConfidence(p))
<1>1. p \in Group(s) \ {s}
  BY DEF PrimarySurface
<1>2. p \in PrimarySurface(p)
  BY <1>1, SameGroup
<1>3. b \in SameConcept(s) /\ b.confidence = 100 /\ b.target = p /\ b.kind = "equivalent"
      /\ b.source = s
  BY <1>1, <1>2 DEF SameConcept, LinkConfidence, Alternative
<1>4. b \in Replacements(s)
  BY <1>3 DEF Replacements, Alternatives
<1> HIDE DEF b
<1>5. Replacements(s) \subseteq AlternativeTypes /\ \A c \in Replacements(s) : c.source = s
  BY AlternativesTyped DEF Replacements
<1>6. /\ a \in Replacements(s) /\ a \in Alternatives(s) /\ a.kind # "cooccurrence"
      /\ graph.bucket[a.target] = "healthy"
      /\ a.target \in Group(s) /\ a.confidence \in 0 .. 100
  BY <1>5, AlternativesTyped DEF First, Replacements, AlternativeTypes
<1>7. ASSUME a # b PROVE a.confidence = 100
  <2>1. a.confidence >= b.confidence
    <3>1. a.source = b.source /\ graph.bucket[b.target] = "healthy"
      BY <1>3, <1>5, <1>6
    <3> QED
      BY <1>4, <1>5, <1>6, <1>7, <3>1, FirstIsBest
  <2> QED
    BY <1>3, <1>6, <2>1
<1>8. a.confidence = 100
  BY <1>3, <1>7
<1>9. a \in SameConcept(s)
  <2>1. a \notin Cooccurring(s)
    BY <1>6 DEF Cooccurring, Alternative
  <2>2. a \notin Related(s)
    BY <1>8 DEF Related, Alternative, RelationConfidence
  <2> QED
    BY <1>6, <2>1, <2>2 DEF Alternatives
<1>10. a.target \in PrimarySurface(a.target)
  BY <1>8, <1>9 DEF SameConcept, Alternative, LinkConfidence
<1>11. a.target \in PrimarySurface(s)
  BY <1>6, <1>10, SameGroup
<1> QED
  BY <1>8, <1>11, PrimaryUnique

\* A weak term is offered what helps it, and the best of that.
LEMMA HelpIsFound ==
  ASSUME graph \in Snapshots, NEW r \in Recommendations, HasConcept(r.source),
         Bucket(r.source) \in {"zero", "too_narrow", "stale"}
  PROVE  LET s == r.source
             help == {t \in Group(s) \ {s} : graph.bucket[t] = "healthy"}
         IN /\ r.offered = {} <=> help = {}
            /\ PrimarySurface(s) \intersect help # {} => r.offered = PrimarySurface(s)
<1> DEFINE s == r.source
           help == {t \in Group(s) \ {s} : graph.bucket[t] = "healthy"}
<1>1. s \in graph.active
  BY DEF HasConcept
<1>2. r.offered = Targets(First(Replacements(s)))
  BY <1>1, RecommendationsKnown, AdviceOffers
<1>3. Replacements(s) \in SUBSET Alternatives(s)
  BY DEF Replacements
<1> HIDE DEF s
<1>4. ASSUME NEW t \in help PROVE Replacements(s) # {}
  <2>1. Alternative(s, t, "equivalent", LinkConfidence(t)) \in SameConcept(s)
    BY <1>4 DEF SameConcept, s
  <2>2. Alternative(s, t, "equivalent", LinkConfidence(t)) \in Replacements(s)
    BY <1>4, <2>1 DEF Replacements, Alternatives, Alternative
  <2> QED
    BY <2>2
<1>5. ASSUME NEW a \in First(Replacements(s)) PROVE a.target \in help
  <2>1. a \in Replacements(s)
    BY DEF First
  <2> QED
    BY <1>1, <2>1, AlternativesTyped DEF Replacements
<1>6. r.offered = {} <=> help = {}
  <2>1. Replacements(s) # {} => First(Replacements(s)) # {}
    BY <1>1, <1>3, FirstExists
  <2>2. r.offered = {} <=> First(Replacements(s)) = {}
    BY <1>2 DEF Targets
  <2> HIDE DEF help
  <2>3. help # {} => Replacements(s) # {}
    BY <1>4
  <2>4. First(Replacements(s)) # {} => help # {}
    BY <1>5
  <2> QED
    BY <2>1, <2>2, <2>3, <2>4
<1>7. ASSUME NEW p \in PrimarySurface(s) \intersect help PROVE r.offered = PrimarySurface(s)
  <2>1. PrimarySurface(s) = {p}
    BY PrimaryUnique
  <2>2. PICK a : a \in First(Replacements(s))
    BY <1>1, <1>3, <1>4, FirstExists
  <2>3. First(Replacements(s)) = {a}
    BY <1>1, <1>3, <2>2, FirstUnique
  <2>4. a.target = p
    <3>1. p # s /\ graph.bucket[p] = "healthy" /\ HasConcept(s) /\ p \in PrimarySurface(s)
      BY DEF s
    <3> QED
      BY <1>1, <2>2, <3>1, PrimaryReplaces
  <2> QED
    BY <1>2, <2>1, <2>3, <2>4 DEF Targets
<1> QED
  BY <1>6, <1>7 DEF s

\* The canonical of the seed alias is the primary surface of its concept.
LEMMA CanonicalIsPrimary ==
  ASSUME graph \in Snapshots, graph.alias # 0,
         NEW s \in graph.active, graph.base[graph.alias] \in Group(s)
  PROVE  graph.base[graph.alias] \in PrimarySurface(s)
<1> DEFINE c == graph.base[graph.alias]
<1>1. c \in Group(s) \ graph.unsafe
  BY SnapshotTyped
<1>2. PrimaryRank(c) = 0
  BY DEF PrimaryRank, Null
<1>3. ASSUME NEW u PROVE u = c \/ PrimaryRank(u) \in {1, 2}
  BY DEF PrimaryRank
<1>4. graph.order[c] \in Nat
  BY <1>1, SnapshotTyped, PlacesDistinct DEF Group
<1> HIDE DEF c
<1>5. ASSUME NEW u \in Group(s) \ graph.unsafe
      PROVE  \/ PrimaryRank(c) < PrimaryRank(u)
             \/ PrimaryRank(c) = PrimaryRank(u) /\ graph.order[c] =< graph.order[u]
  BY <1>2, <1>3, <1>4
<1>6. c \in PrimarySurface(s)
  BY <1>1, <1>5 DEF PrimarySurface
<1> QED
  BY <1>6 DEF c

\* Only the canonical is advised to probe an alias.
LEMMA ProbeIsOfAlias ==
  ASSUME graph \in Snapshots, NEW r \in Recommendations, r.action = "add_alias_probe"
  PROVE  r.offered = {graph.alias} /\ r.source = graph.base[graph.alias]
<1>1. PICK s \in graph.active, typed \in {Raw[i].typed : i \in Matched} : r = Advice(s, typed)
  BY RecommendationsKnown
<1>2. /\ r.source = s /\ r.offered = Targets(First(Replacements(s)))
      /\ \E a \in First(Replacements(s)) : a.kind = "alias"
  BY <1>1, AdviceOffers
<1>3. PICK a \in First(Replacements(s)) : a.kind = "alias"
  BY <1>2
<1>4. Replacements(s) \in SUBSET Alternatives(s)
  BY DEF Replacements
<1>5. First(Replacements(s)) = {a} /\ a \in Replacements(s)
  BY <1>3, <1>4, FirstUnique DEF First
<1>6. /\ a \in Alternatives(s) /\ graph.bucket[a.target] = "healthy"
      /\ a.target \in Group(s) /\ a.target # s /\ a.target \in graph.active
  BY <1>4, <1>5, <1>3, AlternativesTyped DEF Replacements
<1>7. IsAliasPair(s, a.target) /\ a.confidence = 95
  <2>1. a \in Related(s)
    BY <1>3, <1>6 DEF Alternatives, SameConcept, Cooccurring, Alternative
  <2> QED
    BY <1>3, <2>1 DEF Related, Alternative, RelationConfidence
<1>8. s \in Surfaces /\ a.target \in Surfaces /\ graph.alias # 0
  <2>1. s \in Surfaces /\ a.target \in Surfaces /\ 0 \notin Surfaces
    BY <1>6, SnapshotTyped
  <2> QED
    BY <1>7, <2>1 DEF IsAliasPair
<1>9. graph.base[graph.alias] # graph.alias
  BY <1>8, SnapshotTyped
<1>10. a.target # graph.base[graph.alias]
  <2>1. SUFFICES ASSUME a.target = graph.base[graph.alias] PROVE FALSE
    OBVIOUS
  <2>2. a.target \in PrimarySurface(s)
    BY <1>6, <1>8, <2>1, CanonicalIsPrimary
  <2>3. HasConcept(s)
    BY <2>2 DEF HasConcept
  <2>4. a.confidence = 100
    BY <1>3, <1>6, <2>2, <2>3, PrimaryReplaces
  <2> QED
    BY <1>7, <2>4
<1>11. s = graph.base[graph.alias] /\ a.target = graph.alias
  BY <1>6, <1>7, <1>9, <1>10 DEF IsAliasPair
<1> QED
  BY <1>2, <1>5, <1>11 DEF Targets

\* An optimized term has the bucket of what it asks.
LEMMA OptimizedIsTrue ==
  ASSUME graph \in Snapshots, NEW r \in Recommendations,
         NEW t \in OptimizedTerms(AllAlternatives, r)
  PROVE  t.bucket = IF t.text \in graph.active THEN Bucket(t.text) ELSE "unknown"
<1>1. CASE r.source \notin graph.active
  <2>1. r.offered = {} /\ r.action = "fallback"
    BY <1>1, RecommendationsKnown, AdviceOffers
  <2>2. t = [source |-> r.source, text |-> r.source, action |-> r.action,
             bucket |-> OptimizedBucket(AllAlternatives, r.source, r.source)]
    BY <2>1 DEF OptimizedTerms
  <2>3. r.source \notin MatchedSurfaces
    BY <1>1 DEF MatchedSurfaces, Matched
  <2>4. OptimizedBucket(AllAlternatives, r.source, r.source) = "unknown"
    BY <2>3, AlternativesBySource DEF OptimizedBucket
  <2> QED
    BY <1>1, <2>2, <2>4
<1>2. CASE r.source \in graph.active
  <2>1. PICK typed \in {Raw[i].typed : i \in Matched} :
          r.source \in MatchedSurfaces /\ r = Advice(r.source, typed)
    BY <1>2, RecommendationsKnown, AdviceOffers
  <2>2. CASE t.text = r.source /\ t.bucket = Bucket(r.source)
    BY <1>2, <2>2
  <2>3. CASE r.offered = {} /\ t.text = r.source
             /\ t.bucket = OptimizedBucket(AllAlternatives, r.source, r.source)
    <3>1. \A a \in AllAlternatives : a.source = r.source => a.target # r.source
      BY <1>2, AlternativesBySource, AlternativesTyped
    <3>2. t.bucket = Bucket(r.source)
      BY <2>1, <2>3, <3>1 DEF OptimizedBucket
    <3> QED
      BY <2>2, <2>3, <3>2
  <2>4. CASE t.text \in r.offered
             /\ t.bucket = OptimizedBucket(AllAlternatives, r.source, t.text)
    <3>1. PICK a \in Alternatives(r.source) :
            /\ a.target = t.text /\ t.text \in graph.active
            /\ graph.bucket[t.text] = "healthy"
      BY <1>2, <2>1, <2>4, OffersAreHealthy
    <3>2. a.source = r.source
      BY <1>2, <3>1, AlternativesTyped
    <3>3. a \in AllAlternatives
      BY <2>1, <3>1, <3>2, AlternativesBySource
    <3>4. t.bucket = graph.bucket[t.text]
      BY <2>4, <3>1, <3>2, <3>3 DEF OptimizedBucket, Observed
    <3> QED
      BY <3>1, <3>4 DEF Bucket
  <2> QED
    BY <2>2, <2>3, <2>4 DEF OptimizedTerms
<1> QED
  BY <1>1, <1>2

-----------------------------------------------------------------------------
(* Sessions.  What depends on the snapshot, the request and the planner    *)
(* stays as it is as long as these do.                                     *)

\* What a step that keeps the snapshot leaves as it is.
LEMMA SurfacesUnchanged ==
  ASSUME UNCHANGED graph
  PROVE  \A s : /\ Group(s)' = Group(s) /\ PrimarySurface(s)' = PrimarySurface(s)
                /\ (HasConcept(s)' <=> HasConcept(s)) /\ Bucket(s)' = Bucket(s)
                /\ (Observed(s)' <=> Observed(s)) /\ Alternatives(s)' = Alternatives(s)
BY DEF Alternatives, Related, SameConcept, Cooccurring, RelatedTo, HasConcept,
       PrimarySurface, Group, Root, Bucket, EdgesOf, OtherEnd, Support, LinkConfidence,
       RelationConfidence, Alternative, IsAliasPair, PrimaryRank, Observed

\* The terms of the request, and the order of alternatives.
LEMMA TermsUnchanged ==
  ASSUME UNCHANGED <<graph, request>>
  PROVE  /\ Raw' = Raw /\ Matched' = Matched /\ InputTerms' = InputTerms
         /\ MatchedSurfaces' = MatchedSurfaces
         /\ \A S : First(S)' = First(S)
         /\ \A a, b : Before(a, b)' <=> Before(a, b)
<1>1. Raw' = Raw
  BY DEF Raw
<1>2. Matched' = Matched /\ InputTerms' = InputTerms /\ MatchedSurfaces' = MatchedSurfaces
  BY <1>1 DEF Matched, InputTerms, MatchedSurfaces
<1>3. \A a, b : Before(a, b)' <=> Before(a, b)
  BY <1>1 DEF Before, InsertedBefore, SortKey, BucketRank, KindRank, LexLess, Bucket
<1>4. \A S : First(S)' = First(S)
  BY <1>1 DEF First, Before, InsertedBefore, SortKey, BucketRank, KindRank, LexLess, Bucket
<1> QED
  BY <1>1, <1>2, <1>3, <1>4

\* The alternatives, and the advice about a term.
LEMMA AdviceUnchanged ==
  ASSUME UNCHANGED <<graph, request>>
  PROVE  /\ \A s, typed : Advice(s, typed)' = Advice(s, typed)
         /\ AllAlternatives' = AllAlternatives
<1>1. ASSUME NEW s, NEW typed PROVE Advice(s, typed)' = Advice(s, typed)
  <2>1. Alternatives(s)' = Alternatives(s) /\ Bucket(s)' = Bucket(s)
    BY SurfacesUnchanged
  <2>2. \A A : BestReplacement(A)' = BestReplacement(A)
    BY DEF BestReplacement, First, Before, InsertedBefore, SortKey, BucketRank, KindRank,
           LexLess, Bucket, Raw
  <2>3. \A A : BestCompanion(A)' = BestCompanion(A)
    BY DEF BestCompanion, First, Before, InsertedBefore, SortKey, BucketRank, KindRank,
           LexLess, Bucket, Raw
  <2>4. \A action, o, c :
          Recommendation(s, action, o, c)' = Recommendation(s, action, o, c)
    BY DEF Recommendation, Targets, Observed
  <2>5. /\ BestReplacement(Alternatives(s))' = BestReplacement(Alternatives(s))
        /\ BestCompanion(Alternatives(s))' = BestCompanion(Alternatives(s))
    BY <2>1, <2>2, <2>3
  <2> QED
    BY <2>1, <2>4, <2>5 DEF Advice
<1>2. AllAlternatives' = AllAlternatives
  <2>1. MatchedSurfaces' = MatchedSurfaces /\ \A s : Alternatives(s)' = Alternatives(s)
    BY SurfacesUnchanged, TermsUnchanged
  <2>2. \A x : x \in AllAlternatives <=> \E s \in MatchedSurfaces : x \in Alternatives(s)
    BY DEF AllAlternatives
  <2>3. \A x : x \in AllAlternatives' <=> \E s \in MatchedSurfaces' : x \in Alternatives(s)'
    BY DEF AllAlternatives
  <2> QED
    BY <2>1, <2>2, <2>3
<1> QED
  BY <1>1, <1>2

\* The recommendations.
LEMMA RecommendationsUnchanged ==
  ASSUME UNCHANGED <<graph, request>>
  PROVE  Recommendations' = Recommendations
<1>1. \A x : x \in Recommendations <=>
               \/ \E i \in Matched : x = Advice(Raw[i].term, Raw[i].typed)
               \/ \E i \in InputTerms \ Matched :
                    x = [source |-> Raw[i].term, action |-> "fallback",
                         offered |-> {}, evidence |-> {}]
  BY DEF Recommendations
<1>2. \A x : x \in Recommendations' <=>
               \/ \E i \in Matched' : x = Advice(Raw[i].term, Raw[i].typed)'
               \/ \E i \in InputTerms' \ Matched' :
                    x = [source |-> Raw'[i].term, action |-> "fallback",
                         offered |-> {}, evidence |-> {}]
  BY DEF Recommendations
<1>3. \A i : Advice(Raw[i].term, Raw[i].typed)' = Advice(Raw[i].term, Raw[i].typed)
  <2> SUFFICES ASSUME NEW i
               PROVE  Advice(Raw[i].term, Raw[i].typed)' = Advice(Raw[i].term, Raw[i].typed)
    OBVIOUS
  <2>1. Raw' = Raw
    BY TermsUnchanged
  <2> QED
    BY <2>1, AdviceUnchanged
<1>4. Matched' = Matched /\ InputTerms' = InputTerms /\ Raw' = Raw
  BY TermsUnchanged
<1>5. \A x : x \in Recommendations' <=> x \in Recommendations
  BY <1>1, <1>2, <1>3, <1>4
<1> QED
  BY <1>5

\* The answer to a recall request.
LEMMA AnswerUnchanged ==
  ASSUME UNCHANGED <<graph, request>>
  PROVE  RecallAnswer' = RecallAnswer
<1>1. /\ MatchedSurfaces' = MatchedSurfaces /\ AllAlternatives' = AllAlternatives
      /\ Recommendations' = Recommendations
  BY TermsUnchanged, AdviceUnchanged, RecommendationsUnchanged
<1>2. Warnings' = Warnings
  BY TermsUnchanged, SurfacesUnchanged DEF Warnings
<1>3. ResponseAlternatives(AllAlternatives, Recommendations)'
        = ResponseAlternatives(AllAlternatives, Recommendations)
  <2>1. \A A, R : ResponseAlternatives(A, R)' = ResponseAlternatives(A, R)
    BY DEF ResponseAlternatives, Required, First, Before, InsertedBefore, SortKey, BucketRank,
           KindRank, LexLess, Bucket, Raw
  <2> QED
    BY <1>1, <2>1
<1>4. {s \in MatchedSurfaces : Observed(s)}' = {s \in MatchedSurfaces : Observed(s)}
  BY <1>1, SurfacesUnchanged
<1>5. (UNION {OptimizedTerms(AllAlternatives, r) : r \in Recommendations})'
        = UNION {OptimizedTerms(AllAlternatives, r) : r \in Recommendations}
  <2>1. \A A, r : OptimizedTerms(A, r)' = OptimizedTerms(A, r)
    BY DEF OptimizedTerms, OptimizedBucket, Observed, Bucket, MatchedSurfaces, Matched,
           InputTerms, Raw
  <2> QED
    BY <1>1, <2>1
<1>6. Response' = Response
  BY <1>1, <1>2, <1>3, <1>4, <1>5 DEF Response
<1>7. Valid(Response)' <=> Valid(Response)
  BY <1>6 DEF Valid, Targets
<1> QED
  BY <1>6, <1>7 DEF RecallAnswer
\* What the terms are resolved to.
LEMMA ResolutionUnchanged ==
  ASSUME UNCHANGED <<graph, request>>
  PROVE  Resolution(Candidates)' = Resolution(Candidates)
BY DEF Resolution, Candidates, Distinct, HasConcept, PrimarySurface, Group, Root, PrimaryRank

\* What is selected for each of them.
LEMMA SelectionUnchanged ==
  ASSUME UNCHANGED <<graph, request>>, planner'.resolution = planner.resolution
  PROVE  MatchedTerms' = MatchedTerms /\ \A i : Selection(i)' = Selection(i)
BY DEF Selection, Companions, Aliases, MatchedTerms, Text, Healthy, HasConcept,
       PrimarySurface, Group, Root, PrimaryRank, Bucket, EdgesOf, OtherEnd, IsStrong,
       LinkConfidence, RelationConfidence, IsAliasPair, RelatedTo

\* The parts of a bundle.
LEMMA SelectedUnchanged ==
  ASSUME UNCHANGED <<graph, request, planner>>
  PROVE  /\ Selected' = Selected /\ NoMatch' = NoMatch /\ MatchedTerms' = MatchedTerms
         /\ \A i : /\ Text(i)' = Text(i) /\ Strength(i)' = Strength(i) /\ Route(i)' = Route(i)
                   /\ Helpers(i)' = Helpers(i) /\ Query(i)' = Query(i)
                   /\ Bundle(i)' = Bundle(i)
                   /\ BundleSortKey(i)' = BundleSortKey(i)
<1>1. Selected' = Selected /\ NoMatch' = NoMatch /\ MatchedTerms' = MatchedTerms
  BY DEF Selected, NoMatch, MatchedTerms, Route
<1>2. \A i : /\ Text(i)' = Text(i) /\ Strength(i)' = Strength(i) /\ Route(i)' = Route(i)
                   /\ Helpers(i)' = Helpers(i) /\ Query(i)' = Query(i)
  BY DEF Text, Strength, Route, Helpers, Query, Best, LexLess
<1>3. \A i : BundleSortKey(i)' = BundleSortKey(i)
  BY DEF BundleSortKey, TypeRank, StrengthRank, Strength, Route, LabelOwner, Text, Selected, Beginnings, MatchedTerms
<1>4. \A i : Bundle(i)' = Bundle(i)
  BY DEF Bundle, Text, Strength, Route, Helpers, Query, Best, LexLess
<1> QED
  BY <1>1, <1>2, <1>3, <1>4

\* The bundles.
LEMMA BundlesUnchanged ==
  ASSUME UNCHANGED <<graph, request, planner>>
  PROVE  /\ Bundles' = Bundles /\ Fallback' = Fallback
<1>1. Bundles' = Bundles
  <2>1. FirstOfQuery' = FirstOfQuery
    BY DEF FirstOfQuery, Precedes, BundleSortKey, TypeRank, StrengthRank, Strength, Route,
           LabelOwner, Text, Selected, Beginnings, MatchedTerms, Query, Best,
           LexLess, Helpers
  <2>2. \A S : InOrder(S)' = InOrder(S)
    BY DEF InOrder, Precedes, BundleSortKey, TypeRank, StrengthRank, Strength, Route,
           LabelOwner, Text, Selected, Beginnings, MatchedTerms, LexLess
  <2>3. InOrder(FirstOfQuery)' = InOrder(FirstOfQuery)
    BY <2>1, <2>2
  <2>4. \A i : Bundle(i)' = Bundle(i)
    BY DEF Bundle, Text, Route, Helpers, Query, Best, LexLess
  <2> QED
    BY <2>3, <2>4 DEF Bundles
<1>2. Fallback' = Fallback
  BY DEF Fallback, FallbackTerms, FallbackBundle, Text, NoMatch, MatchedTerms
<1> QED BY <1>1, <1>2

\* The answer to a plan request.
LEMMA PlanUnchanged ==
  ASSUME UNCHANGED <<graph, request, planner>>
  PROVE  PlanAnswer' = PlanAnswer
<1>1. Rejections' = Rejections
  BY DEF Rejections, Text, Route, MatchedTerms, Selected
<1>2. {SheetRow(i) : i \in Selected}' = {SheetRow(i) : i \in Selected}
  BY DEF SheetRow, Text, Bucket, Helpers, Selected, MatchedTerms, Route
<1>3. \A b : PlanWarnings(b)' = PlanWarnings(b)
  BY DEF PlanWarnings, Text, Bucket, NoMatch, Selected, MatchedTerms, Route
<1>4. Selected' = Selected
  BY SelectedUnchanged
<1> QED
  BY <1>1, <1>2, <1>3, <1>4, BundlesUnchanged DEF PlanAnswer

\* An answer is that to the request that was asked, and what a planner has at
\* hand is made of the same request and snapshot: nothing of one call is left
\* over in the next (QueryRecallOptimizer and QueryPlanner keep no state).
THEOREM SessionInvariant == Spec => []SessionInv
<1>1. Init => SessionInv
  BY DEF Init, SessionInv, PlannerInv
<1>2. ASSUME SessionInv, [Next]_vars PROVE SessionInv'
  <2>0. /\ graph \in Snapshots
        /\ request \in RecallRequests \union PlanRequests \union {NoRequest}
        /\ request = NoRequest => answer = NoAnswer /\ planner = NoPlan
        /\ answer # NoAnswer =>
             \/ request.kind = "recall" /\ answer = RecallAnswer
             \/ request.kind = "plan" /\ planner.stage = "selected" /\ answer = PlanAnswer
        /\ PlannerInv
    BY <1>2 DEF SessionInv
  <2>1. ASSUME NEW q \in RecallRequests \union PlanRequests, Ask(q) PROVE SessionInv'
    BY <2>0, <2>1 DEF Ask, SessionInv, PlannerInv
  <2>2. CASE AnalyzeQueryRecall
    <3>1. UNCHANGED <<graph, request, planner>> /\ request.kind = "recall"
          /\ answer' = RecallAnswer /\ planner = NoPlan /\ request # NoRequest
      BY <2>0, <2>2 DEF AnalyzeQueryRecall, PlannerInv, NoRequest
    <3>2. RecallAnswer' = RecallAnswer
      BY <3>1, AnswerUnchanged
    <3>3. PlannerInv'
      BY <3>1 DEF PlannerInv
    <3> QED
      BY <2>0, <3>1, <3>2, <3>3 DEF SessionInv
  <2>3. CASE ResolveConcepts
    <3>1. /\ UNCHANGED <<graph, request, answer>> /\ request.kind = "plan" /\ planner = NoPlan
          /\ planner' = [stage |-> "resolved", resolution |-> Resolution(Candidates)]
          /\ request # NoRequest
      BY <2>3 DEF ResolveConcepts, NoRequest
    <3>2. Resolution(Candidates)' = Resolution(Candidates)
      BY <3>1, ResolutionUnchanged
    <3>3. PlannerInv'
      BY <3>1, <3>2 DEF PlannerInv
    <3>4. answer = NoAnswer
      BY <2>0, <3>1 DEF NoPlan
    <3> QED
      BY <2>0, <3>1, <3>3, <3>4 DEF SessionInv
  <2>4. CASE SelectSurfaces
    <3>1. /\ UNCHANGED <<graph, request, answer>> /\ planner.stage = "resolved"
          /\ planner' = [stage |-> "selected", resolution |-> planner.resolution,
                         selection |-> [i \in MatchedTerms |-> Selection(i)]]
      BY <2>4 DEF SelectSurfaces
    <3>2. /\ request.kind = "plan" /\ planner.resolution = Resolution(Candidates)
      BY <2>0, <3>1 DEF PlannerInv, NoPlan
    <3>3. /\ Resolution(Candidates)' = Resolution(Candidates) /\ MatchedTerms' = MatchedTerms
          /\ \A i : Selection(i)' = Selection(i)
      BY <3>1, ResolutionUnchanged, SelectionUnchanged
    <3>4. PlannerInv'
      BY <3>1, <3>2, <3>3 DEF PlannerInv
    <3>5. answer = NoAnswer /\ request # NoRequest
      BY <2>0, <3>1, <3>2 DEF NoRequest
    <3> QED
      BY <2>0, <3>1, <3>4, <3>5 DEF SessionInv
  <2>5. CASE BuildBundles
    <3>1. /\ UNCHANGED <<graph, request, planner>> /\ planner.stage = "selected"
          /\ answer' = PlanAnswer
      BY <2>5 DEF BuildBundles
    <3>2. request.kind = "plan" /\ request # NoRequest
      BY <2>0, <3>1 DEF PlannerInv, NoPlan, NoRequest
    <3>3. /\ Resolution(Candidates)' = Resolution(Candidates) /\ MatchedTerms' = MatchedTerms
          /\ \A i : Selection(i)' = Selection(i)
      BY <3>1, ResolutionUnchanged, SelectionUnchanged
    <3>4. PlannerInv'
      BY <2>0, <3>1, <3>3 DEF PlannerInv
    <3>5. PlanAnswer' = PlanAnswer
      BY <3>1, PlanUnchanged
    <3> QED
      BY <2>0, <3>1, <3>2, <3>4, <3>5 DEF SessionInv
  <2>6. CASE Return
    BY <2>0, <2>6 DEF Return, SessionInv, PlannerInv
  <2>7. CASE UNCHANGED vars
    <3>1. UNCHANGED <<graph, request, answer, planner>>
      BY <2>7 DEF vars
    <3>2. /\ Resolution(Candidates)' = Resolution(Candidates) /\ MatchedTerms' = MatchedTerms
          /\ \A i : Selection(i)' = Selection(i)
      BY <3>1, ResolutionUnchanged, SelectionUnchanged
    <3>3. PlannerInv'
      BY <2>0, <3>1, <3>2 DEF PlannerInv
    <3>4. PlanAnswer' = PlanAnswer /\ RecallAnswer' = RecallAnswer
      BY <3>1, PlanUnchanged, AnswerUnchanged
    <3> QED
      BY <2>0, <3>1, <3>3, <3>4 DEF SessionInv
  <2> QED
    BY <1>2, <2>1, <2>2, <2>3, <2>4, <2>5, <2>6, <2>7 DEF Next, BuildQueryPlan
<1> QED
  BY <1>1, <1>2, PTL DEF Spec

-----------------------------------------------------------------------------
(* What recall answers.                                                    *)

\* Advice about a surface cites it, if it was observed, and what there is
\* among its alternatives.
LEMMA AdviceEvidence ==
  ASSUME NEW s, NEW typed, NEW t \in Advice(s, typed).evidence
  PROVE  (t = s /\ Observed(s)) \/ t \in Targets(Alternatives(s))
<1> DEFINE replacement == BestReplacement(Alternatives(s))
           companion == BestCompanion(Alternatives(s))
<1>1. /\ replacement \subseteq Alternatives(s) /\ companion \subseteq Alternatives(s)
  BY DEF BestReplacement, BestCompanion, First
<1>2. \E cited \in {replacement, companion} : \E action, offered :
        Advice(s, typed) = Recommendation(s, action, offered, cited)
  <2> DEFINE bucket == Bucket(s)
             probe == /\ typed /\ bucket \in {"zero", "too_narrow"}
                      /\ \E a \in replacement : a.kind = "alias"
             rec(x) == \E cited \in {replacement, companion} : \E action, offered :
                         x = Recommendation(s, action, offered, cited)
             advice ==
               CASE bucket = "healthy" -> Recommendation(s, "keep", {}, replacement)
                 [] bucket = "too_wide" /\ companion # {} ->
                      Recommendation(s, "add_precision_companion", companion, companion)
                 [] bucket = "too_wide" /\ companion = {} ->
                      Recommendation(s, "downrank", {}, replacement)
                 [] probe -> Recommendation(s, "add_alias_probe", replacement, replacement)
                 [] bucket \in {"zero", "too_narrow", "stale"} /\ replacement # {} /\ ~probe ->
                      Recommendation(s, "replace", replacement, replacement)
                 [] OTHER -> Recommendation(s, "score_only", {}, replacement)
  <2>1. Advice(s, typed) = advice
    BY DEF Advice
  <2> HIDE DEF bucket, replacement, companion, probe
  <2>2. rec(advice)
    <3>1. CASE bucket = "healthy"
      <4>1. advice = Recommendation(s, "keep", {}, replacement)
        BY <3>1 DEF probe
      <4> QED
        BY <4>1
    <3>2. CASE bucket = "too_wide" /\ companion # {}
      <4>1. advice = Recommendation(s, "add_precision_companion", companion, companion)
        BY <3>2 DEF probe
      <4> QED
        BY <4>1
    <3>3. CASE bucket = "too_wide" /\ companion = {}
      <4>1. advice = Recommendation(s, "downrank", {}, replacement)
        BY <3>3 DEF probe
      <4> QED
        BY <4>1
    <3>4. CASE bucket \notin {"healthy", "too_wide"} /\ probe
      <4>1. advice = Recommendation(s, "add_alias_probe", replacement, replacement)
        BY <3>4
      <4> QED
        BY <4>1
    <3>5. CASE bucket \in {"zero", "too_narrow", "stale"} /\ replacement # {} /\ ~probe
      <4>1. advice = Recommendation(s, "replace", replacement, replacement)
        BY <3>5
      <4> QED
        BY <4>1
    <3>6. CASE /\ bucket \notin {"healthy", "too_wide"} /\ ~probe
               /\ ~(bucket \in {"zero", "too_narrow", "stale"} /\ replacement # {})
      <4>1. advice = Recommendation(s, "score_only", {}, replacement)
        BY <3>6
      <4> QED
        BY <4>1
    <3> QED
      BY <3>1, <3>2, <3>3, <3>4, <3>5, <3>6
  <2> QED
    BY <2>1, <2>2
<1>3. PICK cited \in {replacement, companion} : \E action, offered :
        Advice(s, typed) = Recommendation(s, action, offered, cited)
  BY <1>2
<1>4. t \in {s} \union Targets(cited) /\ Observed(t)
  BY <1>3 DEF Recommendation
<1>5. cited \subseteq Alternatives(s)
  BY <1>1
<1> QED
  BY <1>4, <1>5 DEF Targets

\* If there is room for all alternatives then all are in the response.
LEMMA AllAreShown ==
  ASSUME graph \in Snapshots, request.max \in Nat, Cardinality(AllAlternatives) =< request.max
  PROVE  AllAlternatives \subseteq Response.alternatives
<1> DEFINE required == Required(AllAlternatives, Recommendations)
           rest == AllAlternatives \ required
           before(a) == {b \in rest : Before(b, a)}
<1>1. required \subseteq AllAlternatives
  BY DEF Required, First
<1>2. AllAlternatives \subseteq AlternativeTypes
  <2>1. MatchedSurfaces \subseteq graph.active
    BY DEF MatchedSurfaces, Matched
  <2> QED
    BY <2>1, AlternativesBySource, AlternativesTyped
<1>3. IsFiniteSet(AllAlternatives) /\ Cardinality(AllAlternatives) \in Nat
  BY <1>2, AlternativesFinite, FS_Subset, FS_CardinalityType
<1>4. Response.alternatives =
        required \union {a \in rest : Cardinality(required) + Cardinality(before(a)) < request.max}
  BY ResponseParts DEF ResponseAlternatives
<1>5. ASSUME NEW a \in rest
      PROVE  Cardinality(required) + Cardinality(before(a)) < request.max
  <2>0. ~Before(a, a)
    BY <1>2, BeforeIrreflexive
  <2> DEFINE B == before(a)
  <2>1. /\ B \subseteq AllAlternatives /\ required \intersect B = {}
        /\ a \notin required \union B /\ a \in AllAlternatives
    BY <2>0
  <2> HIDE DEF required, rest, before, B
  <2>2. IsFiniteSet(required) /\ IsFiniteSet(B)
    BY <1>1, <1>3, <2>1, FS_Subset
  <2>3. /\ Cardinality(required) \in Nat /\ Cardinality(B) \in Nat
        /\ IsFiniteSet(required \union B) /\ Cardinality(required \intersect B) = 0
    BY <2>1, <2>2, FS_CardinalityType, FS_Union, FS_EmptySet
  <2>4. Cardinality(required \union B) = Cardinality(required) + Cardinality(B)
    <3>1. Cardinality(required \union B)
            = Cardinality(required) + Cardinality(B) - Cardinality(required \intersect B)
      BY <2>2, FS_Union
    <3> QED
      BY <2>3, <3>1
  <2>5. required \union B \subseteq AllAlternatives /\ required \union B # AllAlternatives
    BY <1>1, <2>1
  <2>6. /\ Cardinality(required \union B) <= Cardinality(AllAlternatives)
        /\ Cardinality(AllAlternatives) # Cardinality(required \union B)
    BY <1>3, <2>5, FS_Subset
  <2>7. Cardinality(required) + Cardinality(B) < request.max
    BY <1>3, <2>3, <2>4, <2>6
  <2> QED
    BY <2>7 DEF B
<1> HIDE DEF before
<1> QED
  BY <1>4, <1>5

\* A response with all alternatives is valid.
LEMMA CompleteIsValid ==
  ASSUME graph \in Snapshots, AllAlternatives \subseteq Response.alternatives
  PROVE  Valid(Response)
<1> SUFFICES ASSUME NEW r \in Recommendations, NEW t \in r.evidence
             PROVE  t \in Response.inputs \union Targets(Response.alternatives)
  BY ResponseParts DEF Valid
<1>1. PICK s \in graph.active, typed \in {Raw[i].typed : i \in Matched} :
        s \in MatchedSurfaces /\ r = Advice(s, typed)
  BY RecommendationsKnown
<1>2. (t = s /\ Observed(s)) \/ t \in Targets(Alternatives(s))
  BY <1>1, AdviceEvidence
<1>3. Alternatives(s) \subseteq Response.alternatives
  BY <1>1 DEF AllAlternatives
<1> QED
  BY <1>1, <1>2, <1>3, ResponseParts DEF Targets

\* Every recommended query is a healthy surface that may be asked, and among
\* the alternatives of the answer, however many are cut
\* (_response_alternatives in runtime/query_recall.py).
THEOREM HelpAlwaysShown == Spec => []HelpIsShown
<1>1. SessionInv => HelpIsShown
  <2> SUFFICES ASSUME SessionInv, answer.kind = "recall",
                      NEW r \in answer.recommendations, NEW t \in r.offered
               PROVE  /\ t \in graph.active /\ graph.bucket[t] = "healthy" /\ t # r.source
                      /\ \E a \in answer.alternatives : a.source = r.source /\ a.target = t
    BY DEF HelpIsShown
  <2>1. graph \in Snapshots /\ answer = Response
    BY AnswerIsResponse DEF SessionInv, NoAnswer, PlanAnswer
  <2> QED
    BY <2>1, ResponseParts, OffersAreShown
<1> QED
  BY <1>1, SessionInvariant, PTL

\* A response is refused for its evidence only if alternatives were cut.
THEOREM CompleteAnswersAreValid == Spec => []ValidUnlessCut
<1>1. SessionInv => ValidUnlessCut
  <2> SUFFICES ASSUME SessionInv, answer.kind = "validation_error"
               PROVE  Cardinality(AllAlternatives) > request.max
    BY DEF ValidUnlessCut
  <2>1. graph \in Snapshots /\ request \in RecallRequests /\ answer = RecallAnswer
    BY RecallAssumption, PlanAssumption
       DEF SessionInv, NoAnswer, PlanAnswer, PlanRequestTypes, NoRequest
  <2>2. request.max \in Nat
    <3>1. request \in RecallRequestTypes
      BY <2>1, RecallAssumption
    <3>2. request.max \in 0 .. 50
      BY <3>1 DEF RecallRequestTypes
    <3> QED
      BY <3>2
  <2>3. ~Valid(Response)
    BY <2>1, AnswerIsResponse
  <2>4. ~(Cardinality(AllAlternatives) =< request.max)
    BY <2>1, <2>2, <2>3, AllAreShown, CompleteIsValid
  <2>5. Cardinality(AllAlternatives) \in Nat
    <3>1. MatchedSurfaces \subseteq graph.active
      BY DEF MatchedSurfaces, Matched
    <3>2. AllAlternatives \subseteq AlternativeTypes
      BY <2>1, <3>1, AlternativesBySource, AlternativesTyped
    <3> QED
      BY <3>2, AlternativesFinite, FS_Subset, FS_CardinalityType
  <2> QED
    BY <2>2, <2>4, <2>5
<1> QED
  BY <1>1, SessionInvariant, PTL

\* A weak term of a concept is helped exactly if the concept has a healthy
\* member, and then by the primary surface if that is one.
THEOREM WeakTermsAlwaysHelped == Spec => []WeakTermsAreHelped
<1>1. SessionInv => WeakTermsAreHelped
  <2> SUFFICES ASSUME SessionInv, answer.kind = "recall", NEW r \in answer.recommendations,
                      HasConcept(r.source), Bucket(r.source) \in {"zero", "too_narrow", "stale"}
               PROVE  LET s == r.source
                          help == {t \in Group(s) \ {s} : graph.bucket[t] = "healthy"}
                      IN /\ r.offered = {} <=> help = {}
                         /\ PrimarySurface(s) \intersect help # {} =>
                              r.offered = PrimarySurface(s)
    BY DEF WeakTermsAreHelped
  <2>1. graph \in Snapshots /\ answer = Response
    BY AnswerIsResponse DEF SessionInv, NoAnswer, PlanAnswer
  <2>2. r \in Recommendations
    BY <2>1, ResponseParts
  <2> QED
    BY <2>1, <2>2, HelpIsFound
<1> QED
  BY <1>1, SessionInvariant, PTL

\* Only the canonical of the seed alias is ever advised to probe the alias.
THEOREM ProbesAlwaysGoToTheAlias == Spec => []ProbesGoToTheAlias
<1>1. SessionInv => ProbesGoToTheAlias
  <2> SUFFICES ASSUME SessionInv, answer.kind = "recall", NEW r \in answer.recommendations,
                      r.action = "add_alias_probe"
               PROVE  r.offered = {graph.alias} /\ r.source = graph.base[graph.alias]
    BY DEF ProbesGoToTheAlias
  <2>1. graph \in Snapshots /\ answer = Response
    BY AnswerIsResponse DEF SessionInv, NoAnswer, PlanAnswer
  <2> QED
    BY <2>1, ResponseParts, ProbeIsOfAlias
<1> QED
  BY <1>1, SessionInvariant, PTL

\* An optimized term has the bucket of the query that it contains.
THEOREM OptimizedAlwaysTrue == Spec => []OptimizedTellsTheTruth
<1>1. SessionInv => OptimizedTellsTheTruth
  <2> SUFFICES ASSUME SessionInv, answer.kind = "recall", NEW t \in answer.optimized
               PROVE  t.bucket = IF t.text \in graph.active THEN Bucket(t.text) ELSE "unknown"
    BY DEF OptimizedTellsTheTruth
  <2>1. graph \in Snapshots /\ answer = Response
    BY AnswerIsResponse DEF SessionInv, NoAnswer, PlanAnswer
  <2>2. PICK r \in Recommendations : t \in OptimizedTerms(AllAlternatives, r)
    BY <2>1, ResponseParts
  <2> QED
    BY <2>1, <2>2, OptimizedIsTrue
<1> QED
  BY <1>1, SessionInvariant, PTL

-----------------------------------------------------------------------------
(* Plans.                                                                  *)

Routes == BundleTypes \union
  {"too_wide_without_companion", "zero_recall", "stale_observation", "policy_blocked"}

\* While a plan is returned.
Planned == SessionInv /\ answer.kind = "plan"

\* The terms of a plan that is returned.
LEMMA TermsOfPlan ==
  ASSUME Planned
  PROVE  /\ graph \in Snapshots /\ request \in PlanRequestTypes
         /\ answer = PlanAnswer
         /\ planner.resolution = Resolution(Candidates)
         /\ planner.selection = [i \in MatchedTerms |-> Selection(i)]
<1>1. /\ graph \in Snapshots /\ PlannerInv /\ answer # NoAnswer
      /\ request \in RecallRequests \union PlanRequests \union {NoRequest}
      /\ \/ request.kind = "recall" /\ answer = RecallAnswer
         \/ request.kind = "plan" /\ planner.stage = "selected" /\ answer = PlanAnswer
  BY DEF Planned, SessionInv, NoAnswer
<1>2. request.kind = "plan" /\ planner.stage = "selected" /\ answer = PlanAnswer
  BY <1>1, AnswerIsResponse DEF Planned
<1>3. request \in PlanRequestTypes
  BY <1>1, <1>2, RecallAssumption, PlanAssumption DEF RecallRequestTypes, NoRequest
<1>4. /\ planner.resolution = Resolution(Candidates)
      /\ planner.selection = [i \in MatchedTerms |-> Selection(i)]
  BY <1>1, <1>2 DEF PlannerInv, NoPlan
<1> QED
  BY <1>1, <1>2, <1>3, <1>4

\* Candidates have numbers, texts and strengths.
LEMMA CandidatesTyped ==
  ASSUME request \in PlanRequestTypes, graph \in Snapshots
  PROVE  /\ DOMAIN Candidates \in SUBSET (Nat \ {0}) /\ IsFiniteSet(DOMAIN Candidates)
         /\ \A i \in DOMAIN Candidates :
              /\ Candidates[i].text \in Surfaces \union Strangers
              /\ Candidates[i].strength \in Strengths
<1> DEFINE terms == request.terms
           mentioned == [n \in DOMAIN request.mentions |->
                           [text |-> request.mentions[n], strength |-> "preferred"]]
           found == terms \o mentioned
<1>1. terms \in Seq(TermTypes) /\ request.mentions \in Seq(Surfaces)
  BY DEF PlanRequestTypes
<1>2. mentioned \in Seq(TermTypes)
  <2> DEFINE l == Len(request.mentions)
  <2>1. /\ l \in Nat /\ DOMAIN request.mentions = 1 .. l
        /\ \A n \in 1 .. l : request.mentions[n] \in Surfaces
    BY <1>1
  <2>2. mentioned \in [1 .. l -> TermTypes]
    BY <2>1 DEF TermTypes, Strengths
  <2> HIDE DEF mentioned, l
  <2> QED
    BY <2>1, <2>2, SeqDef
<1>3. found \in Seq(TermTypes)
  BY <1>1, <1>2
<1>4. Candidates = [i \in {j \in DOMAIN found :
                             j =< Len(request.terms) \/ found[j].text \in graph.active} |-> found[i]]
  BY DEF Candidates
<1> HIDE DEF found
<1>5. DOMAIN Candidates \in SUBSET DOMAIN found /\ \A i \in DOMAIN Candidates : Candidates[i] = found[i]
  BY <1>4
<1>6. DOMAIN found = 1 .. Len(found) /\ Len(found) \in Nat
  BY <1>3
<1>7. IsFiniteSet(DOMAIN found)
  <2>1. 1 \in Int /\ Len(found) \in Int
    BY <1>6
  <2> QED
    BY <1>6, <2>1, FS_Interval
<1>8. \A i \in DOMAIN found : found[i] \in TermTypes
  BY <1>3
<1>9. IsFiniteSet(DOMAIN Candidates)
  BY <1>5, <1>7, FS_Subset
<1> QED
  BY <1>5, <1>6, <1>8, <1>9 DEF TermTypes

\* The terms of a resolution are distinct and fall apart into three sets.
LEMMA TermsResolved ==
  ASSUME Planned
  PROVE  LET distinct == Distinct(Candidates)
             rejected == planner.resolution.rejected
         IN /\ planner.resolution.candidates = Candidates
            /\ \A i : Text(i) = Candidates[i].text /\ Strength(i) = Candidates[i].strength
            /\ NoMatch \union MatchedTerms \union rejected = distinct
            /\ NoMatch \intersect MatchedTerms = {}
            /\ (NoMatch \union MatchedTerms) \intersect rejected = {}
            /\ \A i \in MatchedTerms : HasConcept(Text(i))
            /\ \A i \in rejected : Text(i) \in graph.blocked \/ ~HasConcept(Text(i))
<1>1. planner.resolution = Resolution(Candidates)
  BY TermsOfPlan
<1>2. \A s : HasConcept(s) => s \in graph.active
  BY DEF HasConcept
<1> QED
  BY <1>1, <1>2 DEF Resolution, Text, Strength, NoMatch, MatchedTerms, Distinct

\* Each candidate has the text of one term.
LEMMA TextsDistinct ==
  ASSUME Planned
  PROVE  /\ \A i, j \in Distinct(Candidates) : Text(i) = Text(j) => i = j
         /\ \A i \in DOMAIN Candidates : \E j \in Distinct(Candidates) : Text(j) = Text(i)
<1>1. /\ graph \in Snapshots /\ request \in PlanRequestTypes
      /\ DOMAIN Candidates \in SUBSET (Nat \ {0})
  BY TermsOfPlan, CandidatesTyped
<1>2. \A i : Text(i) = Candidates[i].text
  BY TermsResolved
<1>3. ASSUME NEW i \in Distinct(Candidates), NEW j \in Distinct(Candidates), Text(i) = Text(j)
      PROVE  i = j
  <2>1. i \in Nat /\ j \in Nat /\ i \in DOMAIN Candidates /\ j \in DOMAIN Candidates
    BY <1>1 DEF Distinct
  <2>2. ~(i < j) /\ ~(j < i)
    BY <1>2, <1>3, <2>1 DEF Distinct
  <2> QED
    BY <2>1, <2>2
<1>4. ASSUME NEW i \in DOMAIN Candidates
      PROVE  \E j \in Distinct(Candidates) : Text(j) = Text(i)
  <2> DEFINE T == {j \in DOMAIN Candidates : Text(j) = Text(i)}
  <2>1. T \in SUBSET Nat /\ T # {}
    BY <1>1
  <2>2. PICK j \in T : \A k \in T : ~(k < j)
    <3> HIDE DEF T
    <3> QED
      BY <2>1, LeastNumber
  <2>3. j \in Distinct(Candidates)
    BY <1>2, <2>2 DEF Distinct
  <2> QED
    BY <2>3
<1> QED
  BY <1>3, <1>4

\* How a matched term is routed.
LEMMA TermsRouted ==
  ASSUME Planned, NEW i \in MatchedTerms
  PROVE  /\ i \in Nat /\ i \in Distinct(Candidates) /\ Text(i) \in Surfaces
         /\ Text(i) \in graph.active
         /\ Strength(i) \in Strengths
         /\ Route(i) \in Routes
         /\ Route(i) = "precision" => Helpers(i) = Companions(i) /\ Helpers(i) # {}
         /\ Route(i) = "alias_probe" => Helpers(i) = Aliases(Text(i)) /\ Helpers(i) # {}
         /\ Helpers(i) \in {{}, Companions(i), Aliases(Text(i))}
<1>1. /\ i \in Distinct(Candidates) /\ HasConcept(Text(i))
      /\ Text(i) = Candidates[i].text /\ Strength(i) = Candidates[i].strength
  BY TermsResolved
<1>2. i \in DOMAIN Candidates
  BY <1>1 DEF Distinct
<1>3. i \in Nat /\ Strength(i) \in Strengths
  BY <1>1, <1>2, TermsOfPlan, CandidatesTyped
<1>4. Text(i) \in graph.active /\ Text(i) \in Surfaces
  BY <1>1, TermsOfPlan, SnapshotTyped DEF HasConcept
<1>5. Route(i) = Selection(i).route /\ Helpers(i) = Selection(i).helpers
  BY TermsOfPlan DEF Route, Helpers
<1> DEFINE companions == Companions(i)
           aliases == Aliases(Text(i))
           bucket == Bucket(Text(i))
<1>6. bucket \in Buckets
  BY <1>4, TermsOfPlan, SnapshotTyped DEF Bucket, Buckets
<1> DEFINE Choice(route, helpers) == [route |-> route, helpers |-> helpers]
           choice ==
             CASE bucket = "healthy" -> Choice("anchor", {})
               [] bucket = "too_wide" ->
                    Choice(IF companions # {} THEN "precision" ELSE "too_wide_without_companion",
                           companions)
               [] bucket \in {"zero", "too_narrow"} ->
                    Choice(IF aliases # {} THEN "alias_probe" ELSE "zero_recall", aliases)
               [] bucket = "stale" ->
                    Choice(IF aliases # {} THEN "alias_probe" ELSE "stale_observation", aliases)
               [] bucket = "unknown" ->
                    Choice(IF request.exploration THEN "exploration" ELSE "policy_blocked", {})
<1>7. Selection(i) = choice
  BY DEF Selection
<1> HIDE DEF companions, aliases, bucket
<1>8. /\ choice.route \in Routes
      /\ choice.route = "precision" => choice.helpers = companions /\ companions # {}
      /\ choice.route = "alias_probe" => choice.helpers = aliases /\ aliases # {}
      /\ choice.helpers \in {{}, companions, aliases}
  <2>1. CASE bucket = "healthy"
    BY <2>1 DEF Routes, BundleTypes
  <2>2. CASE bucket = "too_wide"
    BY <2>2 DEF Routes, BundleTypes
  <2>3. CASE bucket \in {"zero", "too_narrow"}
    BY <2>3 DEF Routes, BundleTypes
  <2>4. CASE bucket = "stale"
    BY <2>4 DEF Routes, BundleTypes
  <2>5. CASE bucket = "unknown"
    BY <2>5 DEF Routes, BundleTypes
  <2> QED
    BY <1>6, <2>1, <2>2, <2>3, <2>4, <2>5 DEF Buckets
<1> HIDE DEF choice
<1> QED
  BY <1>1, <1>3, <1>4, <1>5, <1>7, <1>8 DEF companions, aliases

\* A companion is another surface, by an edge that is strong.
LEMMA CompanionsTyped ==
  ASSUME Planned, NEW i \in MatchedTerms, NEW x \in Companions(i)
  PROVE  /\ x.surface \in Surfaces /\ x.key \in [1 .. 3 -> Int] /\ x.key[3] = x.surface
         /\ \E e \in graph.edges : IsStrong(e) /\ {e.a, e.b} = {Text(i), x.surface}
         /\ \A y \in Companions(i) : y.surface = x.surface => y = x
<1> DEFINE strong == {OtherEnd(e, Text(i)) : e \in {f \in EdgesOf(Text(i)) : IsStrong(f)}}
           order(t) == IF \E j \in MatchedTerms : Text(j) = t
                         THEN CHOOSE j \in MatchedTerms : Text(j) = t
                         ELSE i
           known == {u \in strong : Healthy(u) /\ HasConcept(u)}
           entry(t) == [surface |-> t, key |-> <<-LinkConfidence(t), order(t), t>>]
<1>0. Companions(i) = {entry(t) : t \in known}
  BY DEF Companions
<1> HIDE DEF order
<1>1. ASSUME NEW y \in Companions(i)
      PROVE  \E t \in known : y = entry(t)
  BY <1>0
<1>2. PICK t \in known : x = entry(t)
  BY <1>1
<1>3. x.surface = t /\ \A y \in Companions(i) : y.surface = t => y = x
  BY <1>1, <1>2
<1>4. t \in Surfaces
  <2>1. t \in graph.active
    BY DEF Healthy
  <2> QED
    BY <2>1, TermsOfPlan, SnapshotTyped
<1>5. order(t) \in Int
  <2>1. \A j \in MatchedTerms : j \in Int
    BY TermsRouted
  <2>2. order(t) \in MatchedTerms
    BY DEF order
  <2> QED
    BY <2>1, <2>2
<1>6. x.key \in [1 .. 3 -> Int] /\ x.key[3] = t
  <2>1. -LinkConfidence(t) \in Int
    BY DEF LinkConfidence
  <2>2. t \in Int
    BY <1>4, TermsOfPlan, SnapshotTyped
  <2>3. x.key = <<-LinkConfidence(t), order(t), t>>
    BY <1>2
  <2> QED
    BY <1>5, <2>1, <2>2, <2>3
<1>7. PICK e \in EdgesOf(Text(i)) : IsStrong(e) /\ t = OtherEnd(e, Text(i))
  OBVIOUS
<1>8. e \in graph.edges /\ {e.a, e.b} = {Text(i), t}
  BY <1>7 DEF EdgesOf, OtherEnd
<1> QED
  BY <1>3, <1>4, <1>6, <1>7, <1>8

\* An alias is a surface.
LEMMA AliasesTyped ==
  ASSUME graph \in Snapshots, NEW s, NEW x \in Aliases(s)
  PROVE  /\ x.surface \in Surfaces /\ x.key \in [1 .. 2 -> Int] /\ x.key[2] = x.surface
         /\ \A y \in Aliases(s) : y.surface = x.surface => y = x
<1> DEFINE entry(t) == [surface |-> t, key |-> <<-RelationConfidence(s, t), t>>]
<1>1. \A y \in Aliases(s) : \E t \in RelatedTo(s) : y = entry(t)
  BY DEF Aliases
<1>2. PICK t \in RelatedTo(s) : x = entry(t)
  BY <1>1
<1>3. x.surface = t /\ \A y \in Aliases(s) : y.surface = t => y = x
  BY <1>1, <1>2
<1>4. t \in Surfaces /\ t \in Int
  BY SnapshotTyped DEF RelatedTo
<1>5. -RelationConfidence(s, t) \in Int
  BY DEF RelationConfidence
<1>6. x.key = <<-RelationConfidence(s, t), t>>
  BY <1>2
<1> QED
  BY <1>3, <1>4, <1>5, <1>6

\* Of helpers with different keys there is a best one.
LEMMA BestExists ==
  ASSUME NEW n \in Nat, NEW helpers, helpers # {}, IsFiniteSet(helpers),
         \A x \in helpers : x.key \in [1 .. n -> Int],
         \A x, y \in helpers : x.key = y.key => x = y
  PROVE  Best(helpers) \in helpers
<1> DEFINE key == [x \in helpers |-> x.key]
<1>1. key \in [helpers -> [1 .. n -> Int]]
  OBVIOUS
<1>2. PICK x \in helpers : \A y \in helpers : ~LexLess(key[y], key[x])
  <2> HIDE DEF key
  <2> QED
    BY <1>1, FiniteLeast
<1>3. ASSUME NEW y \in helpers \ {x} PROVE LexLess(x.key, y.key)
  <2>1. /\ x.key \in [1 .. n -> Int] /\ y.key \in [1 .. n -> Int] /\ x.key # y.key
        /\ ~LexLess(y.key, x.key)
    BY <1>2
  <2> QED
    BY <2>1, LexTotal
<1> QED
  BY <1>3 DEF Best

\* Helpers that carry a surface each are finitely many.
LEMMA HelpersFinite ==
  ASSUME NEW helpers, \A x \in helpers : x.surface \in Surfaces,
         \A x, y \in helpers : x.surface = y.surface => x = y
  PROVE  IsFiniteSet(helpers)
<1> DEFINE f == [x \in helpers |-> x.surface]
<1>1. f \in Injection(helpers, Surfaces)
  <2>1. f \in [helpers -> Surfaces] /\ \A x, y \in helpers : f[x] = f[y] => x = y
    OBVIOUS
  <2> HIDE DEF f
  <2> QED
    BY <2>1 DEF Injection, IsInjective
<1> HIDE DEF f
<1> QED
  BY <1>1, GraphAssumption, FS_Injection

\* The companion of a precision query is one, and the alias of an alias probe.
LEMMA BestHelps ==
  ASSUME Planned, NEW i \in MatchedTerms, Route(i) \in {"precision", "alias_probe"}
  PROVE  Best(Helpers(i)) \in Helpers(i)
<1>0. graph \in Snapshots
  BY TermsOfPlan
<1>1. CASE Route(i) = "precision"
  <2>1. Helpers(i) = Companions(i) /\ Helpers(i) # {}
    BY <1>1, TermsRouted
  <2>2. /\ \A x \in Helpers(i) : x.surface \in Surfaces /\ x.key \in [1 .. 3 -> Int]
        /\ \A x, y \in Helpers(i) : x.surface = y.surface => x = y
        /\ \A x, y \in Helpers(i) : x.key = y.key => x = y
    BY <2>1, CompanionsTyped
  <2>3. IsFiniteSet(Helpers(i))
    BY <2>2, HelpersFinite
  <2> QED
    BY <2>1, <2>2, <2>3, BestExists
<1>2. CASE Route(i) = "alias_probe"
  <2>1. Helpers(i) = Aliases(Text(i)) /\ Helpers(i) # {}
    BY <1>2, TermsRouted
  <2>2. /\ \A x \in Helpers(i) : x.surface \in Surfaces /\ x.key \in [1 .. 2 -> Int]
        /\ \A x, y \in Helpers(i) : x.surface = y.surface => x = y
        /\ \A x, y \in Helpers(i) : x.key = y.key => x = y
    BY <1>0, <2>1, AliasesTyped
  <2>3. IsFiniteSet(Helpers(i))
    BY <2>2, HelpersFinite
  <2> QED
    BY <2>1, <2>2, <2>3, BestExists
<1> QED
  BY <1>1, <1>2

\* Every label belongs to the first selected term that it begins with.
LEMMA OwnerExists ==
  ASSUME Planned, NEW i \in Selected
  PROVE  /\ LabelOwner(i) \in Selected
         /\ Text(LabelOwner(i)) = Text(i) \/ Text(LabelOwner(i)) \in Beginnings[Text(i)]
<1> DEFINE begins(j) == Text(j) = Text(i) \/ Text(j) \in Beginnings[Text(i)]
           T == {j \in Selected : begins(j)}
           owner(j) == /\ begins(j)
                       /\ \A k \in Selected : k < j => Text(k) \notin {Text(i)} \union Beginnings[Text(i)]
<1>1. T \in SUBSET Nat /\ T # {}
  <2>1. Selected \subseteq MatchedTerms
    BY DEF Selected
  <2> QED
    BY <2>1, TermsRouted
<1>2. PICK j \in T : \A k \in T : ~(k < j)
  <2> HIDE DEF T
  <2> QED
    BY <1>1, LeastNumber
<1>3. j \in Selected /\ owner(j)
  BY <1>2
<1>4. LabelOwner(i) = CHOOSE l \in Selected : owner(l)
  BY DEF LabelOwner
<1> HIDE DEF owner
<1>5. LabelOwner(i) \in Selected /\ owner(LabelOwner(i))
  BY <1>3, <1>4
<1> QED
  BY <1>5 DEF owner

\* The keys that bundles are sorted by.
LEMMA BundleKeys ==
  ASSUME Planned
  PROVE  /\ IsFiniteSet(Selected)
         /\ \A i \in Selected : BundleSortKey(i) \in [1 .. 4 -> Int]
         /\ \A i, j \in Selected : BundleSortKey(i) = BundleSortKey(j) => i = j
<1>0. Selected \subseteq MatchedTerms /\ MatchedTerms \subseteq Distinct(Candidates)
  BY TermsRouted DEF Selected
<1>1. IsFiniteSet(Selected)
  <2>1. Selected \subseteq DOMAIN Candidates
    BY <1>0 DEF Distinct
  <2> QED
    BY <2>1, TermsOfPlan, CandidatesTyped, FS_Subset
<1>2. ASSUME NEW i \in Selected
      PROVE  /\ BundleSortKey(i) \in [1 .. 4 -> Int]
             /\ BundleSortKey(i)[1] = TypeRank(Route(i)) /\ Route(i) \in BundleTypes
             /\ BundleSortKey(i)[4] = graph.labels[Route(i)][Text(i)] /\ Text(i) \in Surfaces
  <2>1. TypeRank(Route(i)) \in Int
    <3>1. Route(i) \in BundleTypes
      BY DEF Selected
    <3> QED
      BY <3>1 DEF TypeRank, BundleTypes
  <2>2. LabelOwner(i) \in Int /\ StrengthRank(Strength(LabelOwner(i))) \in Int
    <3>1. LabelOwner(i) \in MatchedTerms
      BY <1>0, OwnerExists
    <3>2. LabelOwner(i) \in Nat /\ Strength(LabelOwner(i)) \in Strengths
      BY <3>1, TermsRouted
    <3> QED
      BY <3>2 DEF StrengthRank, Strengths
  <2>3. Route(i) \in BundleTypes /\ Text(i) \in Surfaces
    BY <1>0, TermsRouted DEF Selected
  <2>4. graph.labels[Route(i)][Text(i)] \in Int
    <3>1. graph.labels[Route(i)][Text(i)] \in Nat
      BY <2>3, TermsOfPlan, PlacesDistinct
    <3> QED
      BY <3>1
  <2> QED
    BY <2>1, <2>2, <2>3, <2>4 DEF BundleSortKey
<1>3. ASSUME NEW i \in Selected, NEW j \in Selected, BundleSortKey(i) = BundleSortKey(j)
      PROVE  i = j
  <2>1. Text(i) = Text(j)
    <3>1. TypeRank(Route(i)) = TypeRank(Route(j))
      BY <1>2, <1>3
    <3>2. Route(i) = Route(j)
      BY <1>2, <3>1 DEF TypeRank, BundleTypes
    <3>3. graph.labels[Route(i)][Text(i)] = graph.labels[Route(i)][Text(j)]
      BY <1>2, <1>3, <3>2
    <3> QED
      BY <1>2, <3>2, <3>3, TermsOfPlan, PlacesDistinct
  <2> QED
    BY <1>0, <2>1, TextsDistinct
<1> QED
  BY <1>1, <1>2, <1>3

\* Of two selected terms one precedes the other.
LEMMA PrecedesTotal ==
  ASSUME Planned, NEW i \in Selected, NEW j \in Selected, i # j
  PROVE  Precedes(i, j) \/ Precedes(j, i)
<1>1. /\ BundleSortKey(i) \in [1 .. 4 -> Int] /\ BundleSortKey(j) \in [1 .. 4 -> Int]
      /\ BundleSortKey(i) # BundleSortKey(j)
  BY BundleKeys
<1> QED
  BY <1>1, LexTotal DEF Precedes

\* Terms in order are all of them, each once, and each precedes the next.
LEMMA InOrderSorts ==
  ASSUME Planned, NEW S \in SUBSET Selected
  PROVE  /\ IsFiniteSet(S) /\ Cardinality(S) \in Nat
         /\ InOrder(S) \in [1 .. Cardinality(S) -> S]
         /\ \A i \in S : \E n \in 1 .. Cardinality(S) : InOrder(S)[n] = i
         /\ \A m, n \in 1 .. Cardinality(S) : m < n => Precedes(InOrder(S)[m], InOrder(S)[n])
<1> DEFINE key == [i \in S |-> BundleSortKey(i)]
           c == Cardinality(S)
           size(i) == Cardinality(Below(S, key, i))
<1>0. IsFiniteSet(S) /\ c \in Nat
  BY BundleKeys, FS_Subset, FS_CardinalityType
<1>1. /\ key \in [S -> [1 .. 4 -> Int]] /\ \A x, y \in S : key[x] = key[y] => x = y
  BY BundleKeys
<1>2. \A i \in S : {j \in S : Precedes(j, i)} = Below(S, key, i)
  BY DEF Precedes, Below
<1>3. /\ \A m \in 0 .. c - 1 : \E x \in S : size(x) = m
      /\ \A x, y \in S : size(x) = size(y) => x = y
  <2> HIDE DEF key
  <2>1. PICK n \in Nat : n = 4
    OBVIOUS
  <2>2. IsFiniteSet(S) /\ n \in Nat /\ key \in [S -> [1 .. n -> Int]]
    BY <1>0, <1>1, <2>1
  <2>3. Distinguishes(S, key)
    BY <1>1 DEF Distinguishes
  <2> HIDE DEF size, c
  <2>4. \A m \in 0 .. Cardinality(S) - 1 : \E x \in S : Cardinality(Below(S, key, x)) = m
    BY <2>2, <2>3, FiniteRanks
  <2>5. \A x, y \in S : Cardinality(Below(S, key, x)) = Cardinality(Below(S, key, y)) => x = y
    BY <2>2, <2>3, FiniteRanks
  <2> QED
    BY <2>4, <2>5 DEF size, c
<1>4. \A x \in S : /\ size(x) \in 0 .. c - 1
                   /\ \A z \in S : LexLess(key[z], key[x]) => size(z) < size(x)
  <2> HIDE DEF key
  <2> QED
    BY <1>0, <1>1, FiniteBelow
<1>5. InOrder(S) = [n \in 1 .. c |-> CHOOSE i \in S : Cardinality({j \in S : Precedes(j, i)}) = n - 1]
  BY DEF InOrder
<1>6. \A i \in S : Cardinality({j \in S : Precedes(j, i)}) = size(i)
  BY <1>2
<1> HIDE DEF key, size, c
<1>7. ASSUME NEW n \in 1 .. c
      PROVE  InOrder(S)[n] \in S /\ size(InOrder(S)[n]) = n - 1
  <2>1. n - 1 \in 0 .. c - 1
    BY <1>0
  <2>2. PICK x \in S : size(x) = n - 1
    BY <1>3, <2>1
  <2>3. Cardinality({j \in S : Precedes(j, x)}) = n - 1
    BY <1>6, <2>2
  <2>4. InOrder(S)[n] = CHOOSE i \in S : Cardinality({j \in S : Precedes(j, i)}) = n - 1
    BY <1>5
  <2>5. InOrder(S)[n] \in S /\ Cardinality({j \in S : Precedes(j, InOrder(S)[n])}) = n - 1
    BY <2>3, <2>4
  <2> QED
    BY <1>6, <2>5
<1>8. InOrder(S) \in [1 .. c -> S]
  BY <1>5, <1>7
<1>9. ASSUME NEW i \in S PROVE \E n \in 1 .. c : InOrder(S)[n] = i
  <2>1. size(i) \in 0 .. c - 1
    BY <1>4
  <2>2. size(i) + 1 \in 1 .. c /\ (size(i) + 1) - 1 = size(i)
    BY <1>0, <2>1
  <2>3. InOrder(S)[size(i) + 1] \in S /\ size(InOrder(S)[size(i) + 1]) = size(i)
    BY <1>7, <2>2
  <2> QED
    BY <1>3, <2>2, <2>3
<1>10. ASSUME NEW m \in 1 .. c, NEW n \in 1 .. c, m < n
       PROVE  Precedes(InOrder(S)[m], InOrder(S)[n])
  <2> DEFINE x == InOrder(S)[m]
             y == InOrder(S)[n]
  <2>1. x \in S /\ y \in S /\ size(x) = m - 1 /\ size(y) = n - 1
    BY <1>7
  <2> HIDE DEF x, y
  <2>2. size(x) < size(y)
    BY <1>0, <1>10, <2>1
  <2>3. size(x) \in 0 .. c - 1 /\ size(y) \in 0 .. c - 1
    BY <1>4, <2>1
  <2>4. x # y
    BY <2>2, <2>3
  <2>5. ~Precedes(y, x)
    <3>1. SUFFICES ASSUME Precedes(y, x) PROVE FALSE
      OBVIOUS
    <3>2. LexLess(key[y], key[x])
      BY <2>1, <3>1 DEF Precedes, key
    <3>3. size(y) < size(x)
      BY <1>4, <2>1, <3>2
    <3> QED
      BY <2>2, <2>3, <3>3
  <2>6. Precedes(x, y)
    BY <2>1, <2>4, <2>5, PrecedesTotal
  <2> QED
    BY <2>6 DEF x, y
<1> QED
  BY <1>0, <1>8, <1>9, <1>10 DEF c

\* The bundles: those of the first terms in order of the terms whose queries
\* are asked for the first time.
LEMMA BundlesOf ==
  ASSUME Planned
  PROVE  LET sorted == InOrder(FirstOfQuery)
             count == Cardinality(FirstOfQuery)
         IN /\ FirstOfQuery \in SUBSET Selected /\ count \in Nat
            /\ sorted \in [1 .. count -> FirstOfQuery]
            /\ request.max \in 1 .. 20
            /\ Bundles = [n \in 1 .. (IF count =< request.max THEN count ELSE request.max)
                            |-> Bundle(sorted[n])]
<1> DEFINE sorted == InOrder(FirstOfQuery)
           count == Cardinality(FirstOfQuery)
<1>1. FirstOfQuery \in SUBSET Selected
  BY DEF FirstOfQuery
<1>2. count \in Nat /\ sorted \in [1 .. count -> FirstOfQuery]
  BY <1>1, InOrderSorts
<1>3. request.max \in 1 .. 20
  BY TermsOfPlan DEF PlanRequestTypes
<1>4. {m \in DOMAIN sorted : m =< request.max}
        = 1 .. (IF count =< request.max THEN count ELSE request.max)
  <2>1. DOMAIN sorted = 1 .. count
    BY <1>2
  <2> HIDE DEF sorted, count
  <2> QED
    BY SMTT(30), <1>2, <1>3, <2>1
<1>5. Bundles = [n \in {m \in DOMAIN sorted : m =< request.max} |-> Bundle(sorted[n])]
  BY DEF Bundles
<1> HIDE DEF sorted, count
<1>6. Bundles = [n \in 1 .. (IF count =< request.max THEN count ELSE request.max)
                   |-> Bundle(sorted[n])]
  BY <1>4, <1>5
<1> QED
  BY <1>1, <1>2, <1>3, <1>6 DEF sorted, count

\* Every query that is asked for is asked for a first time.
LEMMA FirstAsks ==
  ASSUME Planned, NEW i \in Selected
  PROVE  \E j \in FirstOfQuery : Query(j) = Query(i)
<1> DEFINE S == {j \in Selected : Query(j) = Query(i)}
           key == [j \in S |-> BundleSortKey(j)]
<1>1. IsFiniteSet(S) /\ S # {} /\ S \subseteq Selected
  BY BundleKeys, FS_Subset
<1>2. key \in [S -> [1 .. 4 -> Int]]
  BY BundleKeys
<1>3. PICK j \in S : \A k \in S : ~LexLess(key[k], key[j])
  <2> HIDE DEF S, key
  <2> QED
    BY <1>1, <1>2, FiniteLeast
<1>4. ASSUME NEW k \in Selected \ {j}, Query(k) = Query(j) PROVE Precedes(j, k)
  <2>1. ~Precedes(k, j)
    BY <1>3, <1>4 DEF Precedes
  <2> QED
    BY <2>1, PrecedesTotal
<1> QED
  BY <1>4 DEF FirstOfQuery

-----------------------------------------------------------------------------
(* What plans answer.                                                      *)

\* The parts of the answer.
LEMMA PlanParts ==
  ASSUME Planned
  PROVE  /\ answer.sheet = {SheetRow(i) : i \in Selected}
         /\ answer.bundles = IF Selected # {} THEN Bundles ELSE Fallback
         /\ answer.rejected = Rejections
         /\ answer.warnings = PlanWarnings(answer.bundles)
BY TermsOfPlan DEF PlanAnswer

\* A precision query is only ever made of two surfaces that share exactly half
\* of the windows of some kind, while the other half has neither
\* (SurfaceSelector._graph_companion with the thresholds of
\* runtime/surface_selector.py).
THEOREM CompanionsHalveTheWindows == Spec => []CompanionsAlwaysTogether
<1>1. SessionInv => CompanionsAlwaysTogether
  <2> SUFFICES ASSUME Planned, NEW n \in DOMAIN answer.bundles,
                      answer.bundles[n].type = "precision"
               PROVE  LET bundle == answer.bundles[n]
                      IN \E e \in graph.edges :
                           /\ {e.a, e.b} = {bundle.query[1], bundle.query[2]}
                           /\ HalfOfTheWindows(e)
    BY DEF CompanionsAlwaysTogether, Planned
  <2>1. CASE Selected = {}
    <3>1. answer.bundles = Fallback
      BY <2>1, PlanParts
    <3>2. \A m \in DOMAIN Fallback : Fallback[m].type = "fallback"
      BY DEF Fallback, FallbackBundle
    <3> QED
      BY <3>1, <3>2
  <2>2. CASE Selected # {}
    <3>1. answer.bundles = Bundles
      BY <2>2, PlanParts
    <3>2. PICK i \in FirstOfQuery : answer.bundles[n] = Bundle(i)
      <4> DEFINE count == Cardinality(FirstOfQuery)
                 l == IF count =< request.max THEN count ELSE request.max
                 sorted == InOrder(FirstOfQuery)
      <4>1. /\ count \in Nat /\ request.max \in 1 .. 20 /\ sorted \in [1 .. count -> FirstOfQuery]
            /\ Bundles = [m \in 1 .. l |-> Bundle(sorted[m])]
        BY BundlesOf
      <4>2. n \in 1 .. l
        BY <3>1, <4>1
      <4>3. n \in 1 .. count
        BY SMTT(30), <4>1, <4>2
      <4> HIDE DEF sorted, l, count
      <4> QED
        BY <3>1, <4>1, <4>2, <4>3
    <3>3. /\ i \in Selected /\ i \in MatchedTerms /\ Route(i) = "precision"
          /\ answer.bundles[n].query = <<Text(i), Best(Helpers(i)).surface>>
      BY <3>2 DEF FirstOfQuery, Selected, Bundle, Query
    <3>4. Best(Helpers(i)) \in Companions(i)
      BY <3>3, BestHelps, TermsRouted
    <3>5. PICK e \in graph.edges : IsStrong(e) /\ {e.a, e.b} = {Text(i), Best(Helpers(i)).surface}
      BY <3>3, <3>4, CompanionsTyped
    <3>6. e \in EdgeTypes /\ EdgeCounted(e)
      BY TermsOfPlan, SnapshotTyped
    <3>7. HalfOfTheWindows(e)
      BY <3>5, <3>6, StrongIsHalf
    <3> QED
      BY <3>3, <3>5, <3>7
  <2> QED
    BY <2>1, <2>2
<1> QED
  BY <1>1, SessionInvariant, PTL

\* The query of every selected term is in the plan, for whichever term it was
\* asked first, unless the plan is full (BundleBuilder.build).
THEOREM PlanAlwaysKeeps == Spec => []PlanKeepsWhatItSelects
<1>1. SessionInv => PlanKeepsWhatItSelects
  <2> SUFFICES ASSUME Planned, NEW i \in Selected
               PROVE  \/ Len(answer.bundles) = request.max
                      \/ \E n \in DOMAIN answer.bundles : answer.bundles[n].query = Query(i)
    BY DEF PlanKeepsWhatItSelects, Planned
  <2> DEFINE count == Cardinality(FirstOfQuery)
             l == IF count =< request.max THEN count ELSE request.max
             sorted == InOrder(FirstOfQuery)
  <2>1. answer.bundles = Bundles
    BY PlanParts
  <2>2. /\ FirstOfQuery \in SUBSET Selected
        /\ count \in Nat /\ request.max \in 1 .. 20
        /\ Bundles = [m \in 1 .. l |-> Bundle(sorted[m])]
    BY BundlesOf
  <2>3. PICK j \in FirstOfQuery : Query(j) = Query(i)
    BY FirstAsks
  <2>4. PICK n \in 1 .. count : sorted[n] = j
    BY <2>2, InOrderSorts
  <2>5. CASE n \in 1 .. l
    <3>1. answer.bundles[n].query = Query(j)
      BY <2>1, <2>2, <2>4, <2>5 DEF Bundle
    <3> QED
      BY <2>1, <2>2, <2>3, <2>5, <3>1
  <2>6. CASE n \notin 1 .. l
    <3>1. l = request.max /\ l \in Nat
      BY SMTT(30), <2>2, <2>4, <2>6
    <3> HIDE DEF l, sorted
    <3>2. Bundles \in [1 .. l -> {Bundle(sorted[m]) : m \in 1 .. l}]
      BY <2>2
    <3>3. Bundles \in Seq({Bundle(sorted[m]) : m \in 1 .. l})
      BY <3>1, <3>2, SeqDef
    <3>4. 1 .. Len(Bundles) = 1 .. l /\ Len(Bundles) \in Nat
      BY <3>2, <3>3, LenProperties
    <3>5. Len(Bundles) = l
      BY <3>1, <3>4
    <3> QED
      BY <2>1, <3>1, <3>5
  <2> QED
    BY <2>5, <2>6
<1> QED
  BY <1>1, SessionInvariant, PTL

\* A bundle of a plan that selects is that of a selected term.
LEMMA BundleOfTerm ==
  ASSUME Planned, Selected # {}, NEW n \in DOMAIN answer.bundles
  PROVE  LET sorted == InOrder(FirstOfQuery)
         IN /\ n \in 1 .. Cardinality(FirstOfQuery)
            /\ sorted[n] \in Selected /\ answer.bundles[n] = Bundle(sorted[n])
<1> DEFINE count == Cardinality(FirstOfQuery)
           l == IF count =< request.max THEN count ELSE request.max
           sorted == InOrder(FirstOfQuery)
<1>1. /\ FirstOfQuery \in SUBSET Selected
      /\ count \in Nat /\ request.max \in 1 .. 20 /\ sorted \in [1 .. count -> FirstOfQuery]
      /\ Bundles = [m \in 1 .. l |-> Bundle(sorted[m])]
  BY BundlesOf
<1>2. answer.bundles = Bundles
  BY PlanParts
<1>3. n \in 1 .. l
  BY <1>1, <1>2
<1> HIDE DEF sorted, count
<1>4. n \in 1 .. count
  <2>1. l \in Nat /\ l =< count
    <3>1. count \in Nat /\ request.max \in Nat
      BY SMTT(30), <1>1
    <3> QED
      BY <3>1
  <2> HIDE DEF l
  <2>2. count \in Nat
    BY <1>1
  <2> QED
    BY <1>3, <2>1, <2>2
<1> HIDE DEF l
<1>5. sorted[n] \in Selected /\ answer.bundles[n] = Bundle(sorted[n])
  BY <1>1, <1>2, <1>3, <1>4
<1> QED
  BY <1>4, <1>5 DEF sorted, count

\* What the order of two sort keys of bundles comes down to.
LEMMA LexFour ==
  ASSUME NEW a \in Int, NEW b1 \in Int, NEW b2 \in Int, NEW c1 \in Int, NEW c2 \in Int,
         NEW d1 \in Int, NEW d2 \in Int, c1 # c2,
         LexLess(<<a, b1, c1, d1>>, <<a, b2, c2, d2>>)
  PROVE  b1 < b2 \/ (b1 = b2 /\ c1 < c2)
<1> DEFINE k == <<a, b1, c1, d1>>
           l == <<a, b2, c2, d2>>
<1>1. /\ DOMAIN k = 1 .. 4
      /\ k[1] = a /\ k[2] = b1 /\ k[3] = c1 /\ k[4] = d1
      /\ l[1] = a /\ l[2] = b2 /\ l[3] = c2 /\ l[4] = d2
  OBVIOUS
<1> HIDE DEF k, l
<1>2. PICK n \in 1 .. 4 : k[n] < l[n] /\ \A m \in 1 .. n - 1 : k[m] = l[m]
  <2>1. LexLess(k, l)
    BY DEF k, l
  <2> QED
    BY <1>1, <2>1 DEF LexLess
<1>3. n # 1
  BY <1>1, <1>2
<1>4. n # 4
  BY <1>1, <1>2
<1>5. n = 2 => b1 < b2
  BY <1>1, <1>2
<1>6. n = 3 => b1 = b2 /\ c1 < c2
  BY <1>1, <1>2
<1> QED
  BY <1>2, <1>3, <1>4, <1>5, <1>6

\* Queries of the same type come in the order of the strengths of their terms,
\* and then of the request, unless a selected surface begins with another one
\* (bundle_sort_key takes the first selected surface that a label begins with
\* for the bundle's own).
THEOREM AlwaysOrderedUnlessExtended == Spec => []OrderedUnlessExtended
<1>1. SessionInv => OrderedUnlessExtended
  <2> SUFFICES ASSUME Planned, Selected # {}, ~ExtendsSelected,
                      NEW m \in DOMAIN answer.bundles, NEW n \in DOMAIN answer.bundles,
                      m < n, answer.bundles[m].type = answer.bundles[n].type
               PROVE  BeforeBundle(answer.bundles[m], answer.bundles[n])
    BY DEF OrderedUnlessExtended, Planned
  <2> DEFINE x == InOrder(FirstOfQuery)[m]
             y == InOrder(FirstOfQuery)[n]
  <2>1. /\ m \in 1 .. Cardinality(FirstOfQuery) /\ n \in 1 .. Cardinality(FirstOfQuery)
        /\ x \in Selected /\ y \in Selected
        /\ answer.bundles[m] = Bundle(x) /\ answer.bundles[n] = Bundle(y)
    BY BundleOfTerm
  <2>2. Precedes(x, y)
    <3>1. FirstOfQuery \in SUBSET Selected
      BY DEF FirstOfQuery
    <3> QED
      BY <2>1, <3>1, InOrderSorts
  <2> HIDE DEF x, y
  <2>3. Route(x) = Route(y)
    BY <2>1 DEF Bundle
  <2>4. ASSUME NEW i \in Selected
        PROVE  LabelOwner(i) = i /\ i \in Int /\ graph.labels[Route(i)][Text(i)] \in Int
               /\ StrengthRank(Strength(i)) \in Int
    <3>1. LabelOwner(i) \in Selected /\ Text(LabelOwner(i)) = Text(i)
      BY OwnerExists DEF ExtendsSelected
    <3>2. \A j \in Selected : j \in MatchedTerms /\ j \in Distinct(Candidates)
      BY TermsRouted DEF Selected
    <3>3. LabelOwner(i) = i
      BY <3>1, <3>2, TextsDistinct
    <3>4. i \in Nat /\ Text(i) \in Surfaces /\ Strength(i) \in Strengths
      BY <3>2, TermsRouted
    <3>5. graph.labels[Route(i)][Text(i)] \in Nat
      BY <3>4, TermsOfPlan, PlacesDistinct DEF Selected
    <3>6. StrengthRank(Strength(i)) \in Int
      BY <3>4 DEF StrengthRank, Strengths
    <3> QED
      BY <3>3, <3>4, <3>5, <3>6
  <2>5. TypeRank(Route(x)) \in Int
    <3>1. Route(x) \in BundleTypes
      BY <2>1 DEF Selected
    <3> QED
      BY <3>1 DEF TypeRank, BundleTypes
  <2>6. x # y
    <3>1. BundleSortKey(x) \in [1 .. 4 -> Int]
      BY <2>1, BundleKeys
    <3> QED
      BY <2>2, <3>1, LexIrreflexive DEF Precedes
  <2> DEFINE a == TypeRank(Route(x))
             b1 == StrengthRank(Strength(x))
             b2 == StrengthRank(Strength(y))
             d1 == graph.labels[Route(x)][Text(x)]
             d2 == graph.labels[Route(y)][Text(y)]
  <2>7. LexLess(<<a, b1, x, d1>>, <<a, b2, y, d2>>)
    BY <2>1, <2>2, <2>3, <2>4 DEF Precedes, BundleSortKey
  <2>8. a \in Int /\ b1 \in Int /\ b2 \in Int /\ x \in Int /\ y \in Int
        /\ d1 \in Int /\ d2 \in Int
    BY <2>1, <2>4, <2>5
  <2> HIDE DEF a, b1, b2, d1, d2
  <2>9. b1 < b2 \/ (b1 = b2 /\ x < y)
    BY <2>6, <2>7, <2>8, LexFour
  <2>10. LexLess(<<b1, x>>, <<b2, y>>)
    BY <2>8, <2>9, LexPair
  <2> QED
    BY <2>1, <2>10 DEF BeforeBundle, Bundle, b1, b2
<1> QED
  BY <1>1, SessionInvariant, PTL

\* Every term ends up in exactly one of the concept sheet, the rejections and
\* the warning of terms without a match, and a plan without a query has only
\* terms that are blocked or no concept's (QueryPlanner.build).
THEOREM TermsAlwaysAccountedFor == Spec => []TermsAccountedFor
<1>1. SessionInv => TermsAccountedFor
  <2> SUFFICES ASSUME Planned PROVE TermsAccountedFor
    BY DEF TermsAccountedFor, Planned
  <2> DEFINE rejected == planner.resolution.rejected
             distinct == Distinct(Candidates)
             inSheet(i) == \E row \in answer.sheet : row.text = Text(i)
             inRejected(i) == \E r \in answer.rejected : r[1] = Text(i)
             inWarning(i) == <<"no_match", Text(i)>> \in answer.warnings
             hopeless(i) == \E r \in answer.rejected :
                              r[1] = Text(i) /\ r[2] \in {"blocked", "no_active_concept"}
  <2>1. /\ planner.resolution.candidates = Candidates
        /\ NoMatch \union MatchedTerms \union rejected = distinct
        /\ NoMatch \intersect MatchedTerms = {}
        /\ (NoMatch \union MatchedTerms) \intersect rejected = {}
        /\ Selected \subseteq MatchedTerms
    BY TermsResolved DEF Selected
  <2>2. /\ \A i, j \in distinct : Text(i) = Text(j) => i = j
        /\ \A i \in DOMAIN Candidates : \E j \in distinct : Text(j) = Text(i)
        /\ distinct \subseteq DOMAIN Candidates
    BY TextsDistinct DEF Distinct
  <2>3. \A i \in MatchedTerms : Route(i) \in Routes
    BY TermsRouted
  <2>4. \A i : inSheet(i) <=> \E j \in Selected : Text(j) = Text(i)
    <3>1. \A row : row \in answer.sheet <=> \E j \in Selected : row = SheetRow(j)
      BY PlanParts
    <3>2. \A j : SheetRow(j).text = Text(j)
      BY DEF SheetRow
    <3> QED
      BY <3>1, <3>2
  <2> DEFINE reason(j) ==
               IF Text(j) \in graph.blocked THEN "blocked" ELSE "no_active_concept"
  <2>4a. \A r : r \in answer.rejected <=>
                 \/ \E j \in rejected : r = <<Text(j), reason(j)>>
                 \/ \E j \in MatchedTerms \ Selected : r = <<Text(j), Route(j)>>
    <3>1. answer.rejected = Rejections
      BY PlanParts
    <3> QED
      BY <3>1 DEF Rejections
  <2>5. \A i : inRejected(i) <=> \E j \in rejected \union (MatchedTerms \ Selected) : Text(j) = Text(i)
    <3> HIDE DEF reason, rejected
    <3>1. \A x, y : <<x, y>>[1] = x
      OBVIOUS
    <3>2. ASSUME NEW i, inRejected(i)
          PROVE  \E j \in rejected \union (MatchedTerms \ Selected) : Text(j) = Text(i)
      BY <2>4a, <3>1, <3>2
    <3>3. ASSUME NEW i, NEW j \in rejected \union (MatchedTerms \ Selected), Text(j) = Text(i)
          PROVE  inRejected(i)
      <4>1. CASE j \in rejected
        <5>1. <<Text(j), reason(j)>> \in answer.rejected
          BY <2>4a, <4>1
        <5> QED
          BY <3>1, <3>3, <5>1
      <4>2. CASE j \in MatchedTerms \ Selected
        <5>1. <<Text(j), Route(j)>> \in answer.rejected
          BY <2>4a, <4>2
        <5> QED
          BY <3>1, <3>3, <5>1
      <4> QED
        BY <3>3, <4>1, <4>2
    <3> QED
      BY <3>2, <3>3
  <2>6. \A i : hopeless(i) <=> \E j \in rejected : Text(j) = Text(i)
    <3>1. \A x, y : <<x, y>>[1] = x /\ <<x, y>>[2] = y
      OBVIOUS
    <3>2. \A i \in MatchedTerms : Route(i) \notin {"blocked", "no_active_concept"}
      BY <2>3 DEF Routes, BundleTypes
    <3>3. \A j : reason(j) \in {"blocked", "no_active_concept"}
      OBVIOUS
    <3> HIDE DEF reason, rejected
    <3>4. ASSUME NEW i, hopeless(i) PROVE \E j \in rejected : Text(j) = Text(i)
      <4>1. PICK r \in answer.rejected :
              r[1] = Text(i) /\ r[2] \in {"blocked", "no_active_concept"}
        BY <3>4
      <4>2. CASE \E j \in rejected : r = <<Text(j), reason(j)>>
        BY <3>1, <4>1, <4>2
      <4>3. CASE \E j \in MatchedTerms \ Selected : r = <<Text(j), Route(j)>>
        BY <3>1, <3>2, <4>1, <4>3
      <4> QED
        BY <2>4a, <4>1, <4>2, <4>3
    <3>5. ASSUME NEW i, NEW j \in rejected, Text(j) = Text(i) PROVE hopeless(i)
      <4>1. <<Text(j), reason(j)>> \in answer.rejected
        BY <2>4a
      <4> QED
        BY <3>1, <3>3, <3>5, <4>1
    <3> QED
      BY <3>4, <3>5
  <2>7. \A i : inWarning(i) <=> \E j \in NoMatch : Text(j) = Text(i)
    <3>1. answer.warnings = PlanWarnings(answer.bundles)
      BY PlanParts
    <3> QED
      BY <3>1 DEF PlanWarnings
  <2>8. answer.bundles = <<>> <=> Selected = {} /\ NoMatch = {} /\ MatchedTerms = {}
    <3>1. ASSUME Selected # {} PROVE answer.bundles # <<>>
      <4> DEFINE count == Cardinality(FirstOfQuery)
                 l == IF count =< request.max THEN count ELSE request.max
                 sorted == InOrder(FirstOfQuery)
      <4>1. /\ FirstOfQuery \in SUBSET Selected
            /\ count \in Nat /\ request.max \in 1 .. 20
            /\ Bundles = [m \in 1 .. l |-> Bundle(sorted[m])]
        BY BundlesOf
      <4>2. PICK i : i \in FirstOfQuery
        BY <3>1, FirstAsks
      <4>3. PICK n \in 1 .. count : sorted[n] = i
        BY <4>1, <4>2, InOrderSorts
      <4>4. 1 \in 1 .. l
        BY SMTT(30), <4>1, <4>3
      <4>5. 1 \in DOMAIN Bundles
        BY <4>1, <4>4
      <4>6. answer.bundles = Bundles
        BY <3>1, PlanParts
      <4> QED
        BY <4>5, <4>6
    <3>2. ASSUME Selected = {}
          PROVE  answer.bundles = <<>> <=> NoMatch = {} /\ MatchedTerms = {}
      <4>1. answer.bundles = Fallback
        BY <3>2, PlanParts
      <4>2. FallbackTerms = {} <=> NoMatch = {} /\ MatchedTerms = {}
        BY DEF FallbackTerms
      <4>3. Fallback = <<>> <=> FallbackTerms = {}
        BY DEF Fallback
      <4> QED
        BY <4>1, <4>2, <4>3
    <3> QED
      BY <3>1, <3>2
  <2> HIDE DEF rejected, distinct, inSheet, inRejected, inWarning, hopeless
  <2>9. ASSUME NEW i \in DOMAIN Candidates
        PROVE  /\ inSheet(i) \/ inRejected(i) \/ inWarning(i)
               /\ ~(inSheet(i) /\ inRejected(i)) /\ ~(inSheet(i) /\ inWarning(i))
               /\ ~(inRejected(i) /\ inWarning(i))
    <3>1. PICK j \in distinct : Text(j) = Text(i)
      BY <2>2
    <3>2. /\ inSheet(i) <=> j \in Selected
          /\ inRejected(i) <=> j \in rejected \union (MatchedTerms \ Selected)
          /\ inWarning(i) <=> j \in NoMatch
      BY <2>1, <2>2, <2>4, <2>5, <2>7, <3>1
    <3> QED
      BY <2>1, <3>1, <3>2
  <2>10. answer.bundles = <<>> <=> \A i \in DOMAIN Candidates : hopeless(i)
    <3>1. ASSUME answer.bundles = <<>>, NEW i \in DOMAIN Candidates PROVE hopeless(i)
      <4>1. PICK j \in distinct : Text(j) = Text(i)
        BY <2>2
      <4>2. j \in rejected
        BY <2>1, <2>8, <3>1, <4>1
      <4> QED
        BY <2>6, <4>1, <4>2
    <3>2. ASSUME \A i \in DOMAIN Candidates : hopeless(i) PROVE answer.bundles = <<>>
      <4>1. ASSUME NEW i \in NoMatch \union MatchedTerms PROVE FALSE
        <5>1. i \in distinct /\ i \in DOMAIN Candidates
          BY <2>1, <2>2, <4>1
        <5>2. PICK j \in rejected : Text(j) = Text(i)
          BY <2>6, <3>2, <5>1
        <5>3. j = i
          BY <2>1, <2>2, <5>1, <5>2
        <5> QED
          BY <2>1, <4>1, <5>2, <5>3
      <4> QED
        BY <2>1, <2>8, <4>1
    <3> QED
      BY <3>1, <3>2
  <2> QED
    BY <2>1, <2>9, <2>10 DEF TermsAccountedFor, inSheet, inRejected, inWarning, hopeless
<1> QED
  BY <1>1, SessionInvariant, PTL

\* What a bundle asks is a text, or a text and a surface.
LEMMA QueryTyped ==
  ASSUME Planned, NEW i \in Selected
  PROVE  /\ Query(i) \in Seq(Surfaces \union Strangers)
         /\ i \in MatchedTerms /\ Route(i) \in BundleTypes
<1>1. i \in MatchedTerms /\ Route(i) \in BundleTypes
  BY DEF Selected
<1>2. Text(i) \in Surfaces
  BY <1>1, TermsRouted
<1>3. ASSUME Route(i) \in {"precision", "alias_probe"}
      PROVE  Best(Helpers(i)).surface \in Surfaces
  <2>1. Best(Helpers(i)) \in Helpers(i)
    BY <1>1, <1>3, BestHelps
  <2>2. graph \in Snapshots
    BY TermsOfPlan
  <2>3. CASE Route(i) = "precision"
    <3>1. Helpers(i) = Companions(i)
      BY <1>1, <2>3, TermsRouted
    <3> QED
      BY <1>1, <2>1, <3>1, CompanionsTyped
  <2>4. CASE Route(i) = "alias_probe"
    <3>1. Helpers(i) = Aliases(Text(i))
      BY <1>1, <2>4, TermsRouted
    <3> QED
      BY <2>1, <2>2, <3>1, AliasesTyped
  <2> QED
    BY <1>3, <2>3, <2>4
<1>4. CASE Route(i) = "precision"
  <2>1. Query(i) = <<Text(i), Best(Helpers(i)).surface>>
    BY <1>4 DEF Query
  <2> QED
    BY <1>1, <1>2, <1>3, <1>4, <2>1
<1>5. CASE Route(i) = "alias_probe"
  <2>1. Query(i) = <<Best(Helpers(i)).surface>>
    BY <1>5 DEF Query
  <2> QED
    BY <1>1, <1>3, <1>5, <2>1
<1>6. CASE Route(i) \notin {"precision", "alias_probe"}
  <2>1. Query(i) = <<Text(i)>>
    BY <1>6 DEF Query
  <2> QED
    BY <1>1, <1>2, <2>1
<1> QED
  BY <1>4, <1>5, <1>6

BundleRecords ==
  [type : BundleTypes \union {"fallback"}, term : MatchedTerms \union NoMatch,
   query : Seq(Surfaces \union Strangers)]

\* The bundles of a plan are well formed, and no more than asked for.
LEMMA BundlesTyped ==
  ASSUME Planned
  PROVE  answer.bundles \in Seq(BundleRecords) /\ Len(answer.bundles) =< request.max
<1>1. CASE Selected # {}
  <2> DEFINE count == Cardinality(FirstOfQuery)
             l == IF count =< request.max THEN count ELSE request.max
             sorted == InOrder(FirstOfQuery)
  <2>1. /\ FirstOfQuery \in SUBSET Selected
        /\ count \in Nat /\ request.max \in 1 .. 20 /\ sorted \in [1 .. count -> FirstOfQuery]
        /\ Bundles = [m \in 1 .. l |-> Bundle(sorted[m])]
    BY BundlesOf
  <2>2. answer.bundles = Bundles
    BY <1>1, PlanParts
  <2>3. \A i \in Selected : Bundle(i) \in BundleRecords
    BY QueryTyped DEF Bundle, BundleRecords
  <2>4. l \in Nat /\ l =< request.max /\ 1 .. l \subseteq 1 .. count
    <3>1. \A x \in Nat, y \in 1 .. 20 :
            LET z == IF x =< y THEN x ELSE y
            IN z \in Nat /\ z =< y /\ 1 .. z \subseteq 1 .. x
      OBVIOUS
    <3>2. count \in Nat /\ request.max \in 1 .. 20
      BY <2>1
    <3> HIDE DEF count
    <3> QED
      BY <3>1, <3>2
  <2> HIDE DEF l, count, sorted
  <2>5. Bundles \in [1 .. l -> BundleRecords]
    BY <2>1, <2>3, <2>4
  <2>6. Bundles \in Seq(BundleRecords)
    BY <2>4, <2>5, SeqDef
  <2>7. Len(Bundles) = l
    <3>1. 1 .. Len(Bundles) = 1 .. l /\ Len(Bundles) \in Nat
      BY <2>5, <2>6, LenProperties
    <3> QED
      BY <2>4, <3>1
  <2> QED
    BY <2>2, <2>4, <2>6, <2>7
<1>2. CASE Selected = {}
  <2>1. answer.bundles = Fallback
    BY <1>2, PlanParts
  <2>2. request.max \in 1 .. 20
    BY TermsOfPlan DEF PlanRequestTypes
  <2>3. CASE FallbackTerms = {}
    <3>1. Fallback = <<>>
      BY <2>3 DEF Fallback
    <3> QED
      BY <2>1, <2>2, <3>1
  <2>4. CASE FallbackTerms # {}
    <3> DEFINE i == CHOOSE j \in FallbackTerms : \A k \in FallbackTerms : j =< k
    <3>1. \A j \in FallbackTerms : /\ j \in MatchedTerms \union NoMatch /\ j \in Nat
                                   /\ Text(j) \in Surfaces \union Strangers
      <4>1. FallbackTerms \subseteq MatchedTerms \union NoMatch
        BY DEF FallbackTerms
      <4>2. \A j \in MatchedTerms \union NoMatch : j \in DOMAIN Candidates
        BY TermsResolved DEF Distinct
      <4>3. \A j : Text(j) = Candidates[j].text
        BY TermsResolved
      <4> QED
        BY <4>1, <4>2, <4>3, TermsOfPlan, CandidatesTyped
    <3>2. PICK j \in FallbackTerms : \A k \in FallbackTerms : ~(k < j)
      <4>1. FallbackTerms \in SUBSET Nat
        BY <3>1
      <4> QED
        BY <2>4, <4>1, LeastNumber
    <3>3. \A k \in FallbackTerms : j =< k
      BY <3>1, <3>2
    <3>4. i \in FallbackTerms
      BY <3>3
    <3>5. Fallback = <<FallbackBundle(i)>>
      BY <2>4 DEF Fallback
    <3> HIDE DEF i
    <3>6. FallbackBundle(i) \in BundleRecords
      BY <3>1, <3>4 DEF FallbackBundle, BundleRecords
    <3> QED
      BY <2>1, <2>2, <3>5, <3>6
  <2> QED
    BY <2>3, <2>4
<1> QED
  BY <1>1, <1>2

\* Answers are well formed: buckets, confidences and surfaces are such, and a
\* plan has no more bundles than it may have.
THEOREM FacadeTyped == Spec => []TypeOK
<1>1. SessionInv => TypeOK
  <2> SUFFICES ASSUME SessionInv PROVE TypeOK
    OBVIOUS
  <2>1. /\ graph \in Snapshots
        /\ request \in RecallRequests \union PlanRequests \union {NoRequest}
        /\ planner.stage \in {"none", "resolved", "selected"}
    BY DEF SessionInv, PlannerInv, NoPlan
  <2>2. answer.kind \in {"none", "unsupported_provider", "validation_error", "recall", "plan"}
    BY AnswerIsResponse DEF SessionInv, NoAnswer, PlanAnswer
  <2>3. ASSUME answer.kind = "recall" PROVE RecallAnswerOK
    <3>1. answer = Response
      BY <2>3, AnswerIsResponse DEF SessionInv, NoAnswer, PlanAnswer
    <3>2. ASSUME NEW a \in answer.alternatives
          PROVE  a.source \in Surfaces /\ a.target \in Surfaces /\ a.confidence \in 0 .. 100
      <4>1. a \in AllAlternatives
        BY <3>1, ResponseParts DEF ResponseAlternatives, Required, First
      <4>2. a.source \in graph.active /\ a \in Alternatives(a.source)
        BY <2>1, <4>1, AlternativesBySource DEF MatchedSurfaces, Matched
      <4>3. a \in AlternativeTypes
        BY <2>1, <4>2, AlternativesTyped
      <4> QED
        BY <4>3 DEF AlternativeTypes
    <3>3. ASSUME NEW t \in answer.optimized PROVE t.bucket \in Buckets
      <4>1. PICK r \in Recommendations : t \in OptimizedTerms(AllAlternatives, r)
        BY <3>1, ResponseParts
      <4>2. t.bucket = IF t.text \in graph.active THEN Bucket(t.text) ELSE "unknown"
        BY <2>1, <4>1, OptimizedIsTrue
      <4>3. \A s \in graph.active : Bucket(s) \in Buckets
        BY <2>1, SnapshotTyped DEF Bucket, Buckets
      <4> QED
        BY <4>2, <4>3 DEF Buckets
    <3> QED
      BY <3>2, <3>3 DEF RecallAnswerOK
  <2>4. ASSUME answer.kind = "plan" PROVE PlanAnswerOK
    <3>1. Planned
      BY <2>4 DEF Planned
    <3>2. ASSUME NEW i \in Selected
          PROVE  SheetRow(i).shown \subseteq Surfaces /\ SheetRow(i).bucket \in Buckets
      <4>1. i \in MatchedTerms
        BY DEF Selected
      <4>2. /\ Text(i) \in Surfaces
            /\ Helpers(i) \in {{}, Companions(i), Aliases(Text(i))}
        BY <3>1, <4>1, TermsRouted
      <4>3. \A h \in Helpers(i) : h.surface \in Surfaces
        BY <2>1, <3>1, <4>1, <4>2, CompanionsTyped, AliasesTyped
      <4>4. Bucket(Text(i)) \in Buckets
        BY <2>1, <4>2, SnapshotTyped DEF Bucket, Buckets
      <4> QED
        BY <4>2, <4>3, <4>4 DEF SheetRow
    <3>3. \A row \in answer.sheet : row.shown \subseteq Surfaces /\ row.bucket \in Buckets
      BY <3>1, <3>2, PlanParts
    <3>4. answer.bundles \in Seq(BundleRecords) /\ Len(answer.bundles) =< request.max
      BY <3>1, BundlesTyped
    <3> QED
      BY <3>3, <3>4 DEF PlanAnswerOK, BundleRecords
  <2> QED
    BY <2>1, <2>2, <2>3, <2>4 DEF TypeOK
<1> QED
  BY <1>1, SessionInvariant, PTL

=============================================================================
