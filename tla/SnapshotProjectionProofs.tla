---------------------- MODULE SnapshotProjectionProofs ----------------------
(***************************************************************************)
(* Proofs about SnapshotProjection, whatever other commands write between  *)
(* the queries of a build: types; observations find their surfaces; what   *)
(* makes a surface healthy; how far the report lags; and when a build that *)
(* nobody disturbs is released.                                            *)
(***************************************************************************)
EXTENDS SnapshotProjection, FiniteSetTheorems, WellFoundedInduction, TLAPS

\* Every observation is in some bucket.
LEMMA BucketTyped == ASSUME NEW o PROVE BucketOf(o) \in Buckets
BY DEF BucketOf, Buckets

\* Every surface is in some bucket, whether it was observed or not.
LEMMA SurfaceBucketTyped ==
  ASSUME NEW set, NEW p, NEW s PROVE SurfaceBucket(set, p, s) \in Buckets
BY BucketTyped DEF SurfaceBucket, Buckets

\* The latest observations are observations.
LEMMA LatestSubset == ASSUME NEW set PROVE LatestObservations(set) \subseteq set
BY DEF LatestObservations

\* Observations are finite in number, and so is everything counted.
FiniteInv == IsFiniteSet(observations)

\* What a statement of another command leaves alone and what it counts.
LEMMA WritingKeeps ==
  ASSUME TypeOK, Writing
  PROVE  UNCHANGED build /\ writes' \in 0 .. MaxWrites
BY ConfigurationAssumption DEF TypeOK, Writing

\* The steps of the builder do not change the database.
LEMMA BuilderReads ==
  ASSUME Build \/ \E c \in Configurations : Begin(c)
  PROVE  UNCHANGED database
BY DEF Build, Begin, CountSurfaces, CountObservations, ReadObservations, ReadSurfaces,
       CopyConcepts, CopyMemberships, InsertObservations, Validate, Exit, Go

\* Initially every variable has its type.
LEMMA TypeOKInit == Init => TypeOK /\ FiniteInv
BY FS_EmptySet, ConfigurationAssumption
   DEF Init, TypeOK, FiniteInv, NoReport, NoBuckets, Places, Ends

\* Other commands keep the types.
LEMMA TypeOKWrite == ASSUME TypeOK, FiniteInv, Write PROVE TypeOK' /\ FiniteInv'
<1> USE DEF TypeOK, FiniteInv
<1>1. Writing
  BY DEF Write, AddSurface, AddConcept, AddMembership, ClearRelations, ClearSurfaces,
         AddJob, Observe
<1>2. UNCHANGED build /\ writes' \in 0 .. MaxWrites
  BY <1>1, WritingKeeps
<1>3. /\ surfaces' \subseteq Surfaces /\ concepts' \subseteq Surfaces
      /\ memberships' \subseteq Surfaces \X Surfaces /\ jobs' \subseteq Surfaces
  <2>1. ASSUME NEW s \in Surfaces, AddSurface(s) PROVE <1>3!:
    BY <2>1 DEF AddSurface
  <2>2. ASSUME NEW s \in Surfaces, AddConcept(s) PROVE <1>3!:
    BY <2>2 DEF AddConcept
  <2>3. ASSUME NEW s \in Surfaces, AddJob(s) PROVE <1>3!:
    BY <2>3 DEF AddJob
  <2>4. ASSUME NEW c \in Surfaces, NEW s \in Surfaces, AddMembership(c, s) PROVE <1>3!:
    BY <2>4 DEF AddMembership
  <2>5. CASE ClearRelations
    BY <2>5 DEF ClearRelations
  <2>6. CASE ClearSurfaces
    BY <2>6 DEF ClearSurfaces
  <2>7. ASSUME NEW o \in NewObservation, Observe(o) PROVE <1>3!:
    BY <2>7 DEF Observe
  <2> QED
    BY <2>1, <2>2, <2>3, <2>4, <2>5, <2>6, <2>7 DEF Write
<1>4. /\ observations \subseteq observations' /\ observations' \subseteq Observation
      /\ IsFiniteSet(observations')
  <2>1. ASSUME NEW o \in NewObservation, Observe(o) PROVE <1>4!:
    <3>1. observations' = observations \union {o}
      BY <2>1 DEF Observe
    <3>2. o \in Observation
      BY ConfigurationAssumption DEF NewObservation, Observation
    <3> QED
      BY <3>1, <3>2, FS_AddElement
  <2>2. CASE UNCHANGED observations
    BY <2>2
  <2> QED
    BY <2>1, <2>2 DEF Write, AddSurface, AddConcept, AddMembership, ClearRelations,
                      ClearSurfaces, AddJob
<1> QED
  BY <1>2, <1>3, <1>4 DEF build

\* The builder keeps the types.
LEMMA TypeOKBuild ==
  ASSUME TypeOK, FiniteInv, Build \/ \E c \in Configurations : Begin(c)
  PROVE  TypeOK' /\ FiniteInv'
<1> USE DEF TypeOK, FiniteInv
<1>0. UNCHANGED database
  BY BuilderReads
<1>1. ASSUME NEW c \in Configurations, Begin(c) PROVE TypeOK'
  BY <1>1 DEF Begin, Go, database, Places
<1>2. CASE CountSurfaces
  <2>1. Cardinality(surfaces) \in Nat
    BY RecallAssumption, FS_Subset, FS_CardinalityType
  <2>2. report' \in [surfaces : Nat, observations : Nat]
    BY <1>2, <2>1 DEF CountSurfaces
  <2> QED
    BY <1>2, <2>2 DEF CountSurfaces, Go, database, Places
<1>3. CASE CountObservations
  <2>1. Cardinality(observations) \in Nat
    BY FS_CardinalityType
  <2>2. report' \in [surfaces : Nat, observations : Nat]
    BY <1>3, <2>1 DEF CountObservations
  <2> QED
    BY <1>3, <2>2 DEF CountObservations, Go, database, Places
<1>4. CASE ReadObservations
  <2>1. rows' \subseteq observations /\ seen' \subseteq observations
    BY <1>4, LatestSubset DEF ReadObservations
  <2>2. pc' \in Places
    BY <1>4 DEF ReadObservations, Go, Places, Ends
  <2> QED
    BY <1>4, <2>1, <2>2 DEF ReadObservations, Go, database
<1>5. CASE ReadSurfaces
  <2>1. /\ DOMAIN buckets' = surfaces
        /\ \A s \in surfaces : buckets'[s] \in Buckets
    BY <1>5, SurfaceBucketTyped DEF ReadSurfaces
  <2> QED
    BY <1>5, <2>1 DEF ReadSurfaces, Go, database, Places
<1>6. CASE CopyConcepts
  BY <1>6 DEF CopyConcepts, Go, database, Places, Ends
<1>7. CASE CopyMemberships \/ InsertObservations \/ Validate
  BY <1>7 DEF CopyMemberships, InsertObservations, Validate, Go, database, Places, Ends
<1>8. CASE Exit
  <2>1. report' \in [surfaces : Nat, observations : Nat] /\ DOMAIN buckets' = {}
    BY <1>8 DEF Exit, NoReport, NoBuckets
  <2>2. writes' \in 0 .. MaxWrites
    BY <1>8, ConfigurationAssumption DEF Exit
  <2> QED
    BY <1>8, <2>1, <2>2 DEF Exit, database, Places
<1> QED
  BY <1>0, <1>1, <1>2, <1>3, <1>4, <1>5, <1>6, <1>7, <1>8 DEF Build, database

\* The types and the finiteness keep each other.
LEMMA TypesAndFiniteness == Spec => [](TypeOK /\ FiniteInv)
<1>1. TypeOK /\ FiniteInv /\ [Next]_vars => (TypeOK /\ FiniteInv)'
  <2>1. TypeOK /\ FiniteInv /\ UNCHANGED vars => (TypeOK /\ FiniteInv)'
    BY DEF vars, database, build, TypeOK, FiniteInv
  <2> QED
    BY <2>1, TypeOKWrite, TypeOKBuild DEF Next
<1> QED
  BY <1>1, TypeOKInit, PTL DEF Spec

\* Every reachable state has the right types.
THEOREM TypeCorrect == Spec => []TypeOK
BY TypesAndFiniteness, PTL

\* No statement of another command breaks a reference or takes away the surface
\* of an observation that was read.
LEMMA ProjectionInvWrite ==
  ASSUME TypeOK, ProjectionInv, Write PROVE ProjectionInv'
<1> USE DEF ProjectionInv
<1>0. UNCHANGED build
  BY DEF Write, AddSurface, AddConcept, AddMembership, ClearRelations, ClearSurfaces,
         AddJob, Observe, Writing
<1>1. ASSUME NEW s \in Surfaces, AddSurface(s) \/ AddConcept(s) \/ AddJob(s)
      PROVE  ProjectionInv'
  BY <1>0, <1>1 DEF AddSurface, AddConcept, AddJob, build, Projected
<1>2. ASSUME NEW c \in Surfaces, NEW s \in Surfaces, AddMembership(c, s)
      PROVE  ProjectionInv'
  BY <1>0, <1>2 DEF AddMembership, build, Projected
<1>3. CASE ClearRelations \/ ClearSurfaces
  BY <1>0, <1>3 DEF ClearRelations, ClearSurfaces, SurfacesReferenced, build, Projected
<1>4. ASSUME NEW o \in NewObservation, Observe(o) PROVE ProjectionInv'
  BY <1>0, <1>4 DEF Observe, build, Projected
<1> QED
  BY <1>1, <1>2, <1>3, <1>4 DEF Write

\* The builder reads the surfaces while those of the observations are there.
LEMMA ProjectionInvBuild ==
  ASSUME TypeOK, ProjectionInv, Build \/ \E c \in Configurations : Begin(c)
  PROVE  ProjectionInv'
<1> USE DEF ProjectionInv
<1>0. UNCHANGED database
  BY BuilderReads
<1>1. CASE ReadSurfaces
  <2>1. DOMAIN buckets' = surfaces /\ rows' = rows
    BY <1>1 DEF ReadSurfaces
  <2>2. \A o \in rows : o.surface \in surfaces
    BY DEF TypeOK
  <2> QED
    BY <1>0, <2>1, <2>2 DEF database, Projected
<1>2. CASE CopyConcepts \/ CopyMemberships \/ InsertObservations \/ Validate
  BY <1>0, <1>2 DEF CopyConcepts, CopyMemberships, InsertObservations, Validate, Go,
                    database, Projected
<1>3. CASE pc' \in {"idle", "count_surfaces", "count_observations", "read_observations",
                    "read_surfaces", "failed"}
  BY <1>0, <1>3 DEF database
<1> QED
  BY <1>1, <1>2, <1>3
     DEF Build, Begin, CountSurfaces, CountObservations, ReadObservations, Exit, Go

\* The invariant of the projection holds in every reachable state.
THEOREM ProjectionInvariant == Spec => []ProjectionInv
<1>1. Init => ProjectionInv
  BY DEF Init, ProjectionInv
<1>2. TypeOK /\ ProjectionInv /\ [Next]_vars => ProjectionInv'
  <2>1. ProjectionInv /\ UNCHANGED vars => ProjectionInv'
    BY DEF vars, database, build, ProjectionInv, Projected
  <2> QED
    BY <2>1, ProjectionInvWrite, ProjectionInvBuild DEF Next
<1> QED
  BY <1>1, <1>2, TypeCorrect, PTL DEF Spec

\* The observations never break a foreign key of the snapshot, although they
\* were read before the surfaces and other commands write in between.
THEOREM ObservationsFindSurfaces == Spec => []ObservedSurfacesProjected
<1>1. ProjectionInv => ObservedSurfacesProjected
  BY DEF ProjectionInv, ObservedSurfacesProjected
<1> QED
  BY <1>1, ProjectionInvariant, PTL

-----------------------------------------------------------------------------
(* The newest observations of a set.                                       *)

\* A set of numbers that is not empty has a least one.
LEMMA LeastNumber ==
  ASSUME NEW T \in SUBSET Nat, T # {}
  PROVE  \E x \in T : \A y \in T : ~(y < x)
<1> DEFINE Less == {ss \in Nat \X Nat : ss[1] < ss[2]}
<1>1. IsWellFoundedOn(Less, Nat)
  BY NatLessThanWellFounded DEF OpToRel
<1>2. \E x \in T : \A y \in T : ~(<<y, x>> \in Less)
  <2> HIDE DEF Less
  <2> QED
    BY <1>1, WFMin
<1> QED
  BY <1>2

\* What Newer compares are numbers.
LEMMA ObservationNumbers ==
  ASSUME NEW o \in Observation
  PROVE  o.at \in Int /\ o.id \in Nat /\ o.provider # Null
BY RecallAssumption DEF Observation

\* Newer orders observations: none is newer than itself, what is no older than
\* another is newer than all that is older than that, and only the same time
\* and id make two of them equal.
LEMMA NewerOrders ==
  ASSUME NEW o \in Observation, NEW p \in Observation, NEW q \in Observation
  PROVE  /\ ~Newer(o, o)
         /\ ~Newer(q, p) /\ Newer(q, o) => Newer(p, o)
         /\ ~Newer(q, p) /\ Newer(o, p) => ~Newer(q, o)
         /\ ~Newer(o, p) /\ ~Newer(p, o) => o.at = p.at /\ o.id = p.id
<1>1. /\ o.at \in Int /\ p.at \in Int /\ q.at \in Int
      /\ o.id \in Nat /\ p.id \in Nat /\ q.id \in Nat
  BY ObservationNumbers
<1> QED
  BY <1>1 DEF Newer

\* Every finite set of observations that is not empty has a newest one.
LEMMA NewestExists ==
  ASSUME NEW S \in SUBSET Observation, IsFiniteSet(S), S # {}
  PROVE  Newest(S) # {}
<1> SUFFICES ASSUME Newest(S) = {} PROVE FALSE
  OBVIOUS
<1> DEFINE Sizes == {n \in Nat : \E T \in SUBSET S :
                       T # {} /\ Newest(T) = {} /\ Cardinality(T) = n}
<1>1. Sizes # {}
  BY FS_CardinalityType
<1>2. PICK n \in Sizes : \A m \in Sizes : ~(m < n)
  <2>1. Sizes \in SUBSET Nat
    OBVIOUS
  <2> HIDE DEF Sizes
  <2> QED
    BY <1>1, <2>1, LeastNumber
<1>3. PICK T \in SUBSET S : T # {} /\ Newest(T) = {} /\ Cardinality(T) = n
  OBVIOUS
<1>4. PICK x \in T : TRUE
  BY <1>3
<1> DEFINE R == T \ {x}
<1>5. R \in SUBSET S /\ Cardinality(R) \in Nat /\ Cardinality(R) < n
  <2>1. IsFiniteSet(T)
    BY FS_Subset
  <2>2. IsFiniteSet(R) /\ Cardinality(R) = Cardinality(T) - 1
    BY <1>4, <2>1, FS_RemoveElement
  <2> QED
    BY <1>3, <2>2, FS_CardinalityType
<1>6. CASE R = {}
  <2>1. T = {x}
    BY <1>4, <1>6
  <2>2. x \in Newest(T)
    BY <2>1, NewerOrders DEF Newest
  <2> QED
    BY <1>3, <2>2
<1>7. CASE R # {}
  <2>1. Cardinality(R) \notin Sizes
    BY <1>2, <1>5
  <2>2. Newest(R) # {}
    BY <1>5, <1>7, <2>1
  <2>3. PICK m \in R : \A p \in R : ~Newer(p, m)
    BY <2>2 DEF Newest
  <2>4. m \in Observation /\ x \in Observation /\ T \subseteq Observation
    OBVIOUS
  <2>5. CASE Newer(x, m)
    <3>1. \A p \in T : ~Newer(p, x)
      BY <2>3, <2>4, <2>5, NewerOrders
    <3> QED
      BY <1>3, <1>4, <3>1 DEF Newest
  <2>6. CASE ~Newer(x, m)
    BY <1>3, <2>3, <2>6 DEF Newest
  <2> QED
    BY <2>5, <2>6
<1> QED
  BY <1>6, <1>7

\* Every observation has a latest one of its key that is not older.
LEMMA LatestOfKey ==
  ASSUME NEW S \in SUBSET Observation, IsFiniteSet(S), NEW o \in S
  PROVE  \E q \in LatestObservations(S) : SameKey(q, o) /\ ~Newer(o, q)
<1> DEFINE Key == {p \in S : SameKey(p, o)}
<1>1. Key \in SUBSET S /\ o \in Key /\ IsFiniteSet(Key)
  BY FS_Subset DEF SameKey
<1>2. PICK q \in Key : \A p \in Key : ~Newer(p, q)
  BY <1>1, NewestExists DEF Newest
<1>3. q \in LatestObservations(S)
  BY <1>2 DEF LatestObservations, SameKey
<1> QED
  BY <1>1, <1>2, <1>3

\* So the latest observations are of the same providers as all of them, and of
\* the same surfaces.
LEMMA LatestRepresent ==
  ASSUME NEW S \in SUBSET Observation, IsFiniteSet(S)
  PROVE  /\ Exported(LatestObservations(S)) = Exported(S)
         /\ \A p, s : OfSurface(LatestObservations(S), p, s) = {}
                        <=> OfSurface(S, p, s) = {}
<1>1. \A o \in S : \E q \in LatestObservations(S) :
        q.provider = o.provider /\ q.surface = o.surface
  BY LatestOfKey DEF SameKey
<1>2. LatestObservations(S) \subseteq S
  BY LatestSubset
<1>3. Exported(LatestObservations(S)) = Exported(S)
  BY <1>1, <1>2 DEF Exported
<1>4. ASSUME NEW p, NEW s
      PROVE  OfSurface(LatestObservations(S), p, s) = {}
               <=> OfSurface(S, p, s) = {}
  BY <1>1, <1>2 DEF OfSurface
<1> QED
  BY <1>3, <1>4

\* The two selections in a row, the latest of each key and then the newest of
\* a surface, select the newest of all observations of the surface.
LEMMA NewestOfLatest ==
  ASSUME NEW S \in SUBSET Observation, IsFiniteSet(S), NEW p, NEW s
  PROVE  Newest(OfSurface(LatestObservations(S), p, s)) =
           Newest(OfSurface(S, p, s))
<1> DEFINE L == OfSurface(LatestObservations(S), p, s)
           A == OfSurface(S, p, s)
<1>1. L \subseteq A /\ A \subseteq S
  BY LatestSubset DEF OfSurface
<1>2. ASSUME NEW o \in Newest(L) PROVE o \in Newest(A)
  <2>1. o \in L /\ \A q \in L : ~Newer(q, o)
    BY DEF Newest
  <2>2. ASSUME NEW a \in A, Newer(a, o) PROVE FALSE
    <3>1. PICK q \in LatestObservations(S) : SameKey(q, a) /\ ~Newer(a, q)
      BY <1>1, LatestOfKey
    <3>2. q \in L
      BY <3>1 DEF SameKey, OfSurface
    <3>3. Newer(q, o)
      BY <1>1, <2>1, <2>2, <3>1, <3>2, NewerOrders
    <3> QED
      BY <2>1, <3>2, <3>3
  <2> QED
    BY <1>1, <2>1, <2>2 DEF Newest
<1>3. ASSUME NEW o \in Newest(A) PROVE o \in Newest(L)
  <2>1. o \in A /\ \A q \in A : ~Newer(q, o)
    BY DEF Newest
  <2>2. o \in LatestObservations(S)
    BY <2>1 DEF LatestObservations, SameKey, OfSurface
  <2>3. o \in L
    BY <2>1, <2>2 DEF OfSurface
  <2> QED
    BY <1>1, <2>1, <2>3 DEF Newest
<1> QED
  BY <1>2, <1>3

\* What becomes of the newest observation of a surface.
LEMMA BucketHealthy ==
  ASSUME NEW o \in Observation
  PROVE  BucketOf(o) = "healthy"
           <=> /\ o.status = "ok"
               /\ o.total \in (HealthyMin .. HealthyMax) \ {0}
               /\ o.at >= BuiltAt - MaxAge
<1>1. CASE o.total = Null
  <2>1. o.total \notin (HealthyMin .. HealthyMax) \ {0}
    BY <1>1, RecallAssumption
  <2>2. BucketOf(o) # "healthy"
    BY <1>1 DEF BucketOf
  <2> QED
    BY <2>1, <2>2
<1>2. CASE o.total # Null
  <2>1. o.total \in Nat /\ o.at \in Int
    BY <1>2, RecallAssumption DEF Observation
  <2> QED
    BY <1>2, <2>1, RecallAssumption DEF BucketOf, IsStale
<1> QED
  BY <1>1, <1>2

\* The newest observation of a surface is accepted, whatever it says.
LEMMA AlwaysAcceptable == ASSUME NEW o PROVE Acceptable(o)
BY DEF Acceptable, BucketOf

-----------------------------------------------------------------------------
(* What the buckets say.                                                   *)

\* No statement of another command gives an id twice or touches what the
\* builder holds.
LEMMA BucketsInvWrite ==
  ASSUME TypeOK, BucketsInv, Write PROVE BucketsInv'
<1>1. UNCHANGED build
  BY DEF Write, AddSurface, AddConcept, AddMembership, ClearRelations, ClearSurfaces,
         AddJob, Observe, Writing
<1>2. \A o, p \in observations' : o.id = p.id => o = p
  <2>1. ASSUME NEW o \in NewObservation, Observe(o) PROVE <1>2!:
    BY <2>1 DEF Observe, BucketsInv
  <2>2. CASE UNCHANGED observations
    BY <2>2 DEF BucketsInv
  <2> QED
    BY <2>1, <2>2 DEF Write, AddSurface, AddConcept, AddMembership, ClearRelations,
                      ClearSurfaces, AddJob
<1> QED
  BY <1>1, <1>2 DEF BucketsInv, build, Projected, ServingNow, Sources

\* The builder computes every bucket from the rows it has selected.
LEMMA BucketsInvBuild ==
  ASSUME TypeOK, BucketsInv, Build \/ \E c \in Configurations : Begin(c)
  PROVE  BucketsInv'
<1> USE DEF BucketsInv, Projected, ServingNow, Sources
<1>0. UNCHANGED observations
  BY BuilderReads DEF database
<1>1. ASSUME NEW c \in Configurations, Begin(c) PROVE BucketsInv'
  BY <1>0, <1>1 DEF Begin, Go
<1>2. CASE CountSurfaces \/ CountObservations
  BY <1>0, <1>2 DEF CountSurfaces, CountObservations, Go
<1>3. CASE ReadObservations
  <2>1. DOMAIN buckets' = {} /\ rows' = LatestObservations(seen')
    BY <1>0, <1>3 DEF ReadObservations
  <2> QED
    BY <1>0, <2>1
<1>4. CASE ReadSurfaces
  <2>1. \A s \in surfaces : buckets'[s] = SurfaceBucket(rows, ServingNow, s)
    BY <1>4 DEF ReadSurfaces
  <2>2. DOMAIN buckets' = surfaces /\ UNCHANGED <<config, rows, seen>>
    BY <1>4 DEF ReadSurfaces
  <2>3. pc' = "copy_concepts"
    BY <1>4 DEF ReadSurfaces, Go
  <2> QED
    BY <1>0, <2>1, <2>2, <2>3
<1>5. CASE CopyConcepts \/ CopyMemberships \/ InsertObservations \/ Validate
  <2>1. /\ UNCHANGED <<config, rows, seen, buckets>>
        /\ pc' \in Places \ {"idle", "count_surfaces", "count_observations",
                             "read_observations", "read_surfaces"}
    BY <1>5 DEF CopyConcepts, CopyMemberships, InsertObservations, Validate, Go, Places,
                Ends
  <2> QED
    BY <1>0, <2>1
<1>6. CASE Exit
  <2>1. DOMAIN buckets' = {} /\ rows' = {} /\ seen' = {}
    BY <1>6 DEF Exit, NoBuckets
  <2> QED
    BY <1>0, <2>1 DEF LatestObservations
<1> QED
  BY <1>1, <1>2, <1>3, <1>4, <1>5, <1>6 DEF Build

\* What the builder holds was computed from what it has seen.
LEMMA BucketsInvariant == Spec => []BucketsInv
<1>1. Init => BucketsInv
  BY DEF Init, NoBuckets, BucketsInv, Projected, LatestObservations
<1>2. TypeOK /\ BucketsInv /\ [Next]_vars => BucketsInv'
  <2>1. BucketsInv /\ UNCHANGED vars => BucketsInv'
    BY DEF vars, database, build, BucketsInv, Projected, ServingNow, Sources
  <2> QED
    BY <2>1, BucketsInvWrite, BucketsInvBuild DEF Next
<1> QED
  BY <1>1, <1>2, TypeCorrect, PTL DEF Spec

\* The selection in two steps finds the decisive observation.
LEMMA DecisiveIsNewest ==
  ASSUME TypeOK, NEW s
  PROVE  Decisive(s) = Newest(OfSurface(seen, ServingNow, s))
<1> DEFINE A == OfSurface(seen, ServingNow, s)
<1>1. \A o \in seen : o.at \in Int /\ o.id \in Nat
  BY ObservationNumbers DEF TypeOK
<1>2. A \subseteq seen
  BY DEF OfSurface
<1>3. \A o, p \in A : ~Newer(p, o) <=> (p.at < o.at \/ (p.at = o.at /\ p.id =< o.id))
  BY <1>1, <1>2 DEF Newer
<1>4. Newest(A) = {o \in A : \A p \in A : p.at < o.at \/ (p.at = o.at /\ p.id =< o.id)}
  BY <1>3 DEF Newest
<1> QED
  BY <1>4 DEF Decisive, OfSurface

\* A surface is called healthy exactly if the newest of all its observations by
\* the serving provider earns it (the selection by query and then by surface
\* in _latest_observations and _project_surfaces).
THEOREM HealthyEarned == Spec => []HealthyIsEarned
<1>1. TypeOK /\ FiniteInv /\ BucketsInv => HealthyIsEarned
  <2> SUFFICES ASSUME TypeOK, FiniteInv, BucketsInv, NEW s \in Projected
               PROVE  buckets[s] = "healthy" <=>
                        \E o \in Decisive(s) :
                          /\ o.status = "ok"
                          /\ o.total \in (HealthyMin .. HealthyMax) \ {0}
                          /\ o.at >= BuiltAt - MaxAge
    BY DEF HealthyIsEarned
  <2> DEFINE A == OfSurface(seen, ServingNow, s)
             L == OfSurface(rows, ServingNow, s)
             top == CHOOSE o \in Newest(L) : TRUE
  <2>1. seen \in SUBSET Observation /\ IsFiniteSet(seen)
    BY FS_Subset DEF TypeOK, FiniteInv
  <2>2. rows = LatestObservations(seen) /\ buckets[s] = SurfaceBucket(rows, ServingNow, s)
    BY DEF BucketsInv
  <2>3. Newest(L) = Newest(A) /\ (L = {} <=> A = {})
    BY <2>1, <2>2, NewestOfLatest, LatestRepresent
  <2>4. Decisive(s) = Newest(A)
    BY DecisiveIsNewest
  <2>5. A \in SUBSET Observation /\ IsFiniteSet(A) /\ A \subseteq seen
    BY <2>1, FS_Subset DEF OfSurface
  <2>6. CASE A = {}
    <3>1. buckets[s] = "unknown" /\ Decisive(s) = {}
      BY <2>2, <2>3, <2>4, <2>6 DEF SurfaceBucket, Newest
    <3> QED
      BY <3>1
  <2>7. CASE A # {}
    <3>1. top \in Newest(A)
      BY <2>3, <2>5, <2>7, NewestExists
    <3>2. ASSUME NEW o \in Newest(A) PROVE o = top
      <4>1. o \in A /\ top \in A /\ ~Newer(o, top) /\ ~Newer(top, o)
        BY <3>1 DEF Newest
      <4>2. o.id = top.id
        BY <2>5, <4>1, NewerOrders
      <4> QED
        BY <2>5, <4>1, <4>2 DEF BucketsInv, TypeOK
    <3>3. Decisive(s) = {top}
      BY <2>4, <3>1, <3>2
    <3>4. buckets[s] = BucketOf(top)
      BY <2>2, <2>3, <2>7 DEF SurfaceBucket
    <3>5. top \in Observation
      BY <2>5, <3>1 DEF Newest
    <3> HIDE DEF top
    <3> QED
      BY <3>3, <3>4, <3>5, BucketHealthy
  <2> QED
    BY <2>6, <2>7
<1> QED
  BY <1>1, TypesAndFiniteness, BucketsInvariant, PTL

-----------------------------------------------------------------------------
(* What the report counts.                                                 *)

\* Whatever others write, the count lags by no more.
LEMMA CountInvWrite ==
  ASSUME TypeOK, FiniteInv, CountInv, Write PROVE CountInv'
<1>1. UNCHANGED build /\ pc \notin Ends /\ (pc = "idle" \/ writes' = writes + 1)
  BY DEF Write, AddSurface, AddConcept, AddMembership, ClearRelations, ClearSurfaces,
         AddJob, Observe, Writing
<1>2. /\ writes \in Nat /\ report.observations \in Nat
      /\ Cardinality(observations) \in Nat /\ Cardinality(seen) \in Nat
  BY FS_CardinalityType, FS_Subset, ConfigurationAssumption DEF TypeOK, FiniteInv
<1>3. Cardinality(observations') \in {Cardinality(observations),
                                      Cardinality(observations) + 1}
  <2>1. ASSUME NEW o \in NewObservation, Observe(o) PROVE <1>3!:
    BY <2>1, FS_AddElement DEF Observe, FiniteInv
  <2>2. CASE UNCHANGED observations
    BY <2>2
  <2> QED
    BY <2>1, <2>2 DEF Write, AddSurface, AddConcept, AddMembership, ClearRelations,
                      ClearSurfaces, AddJob
<1>4. ASSUME pc = "read_observations" PROVE Lags(observations)'
  <2>1. Lags(observations) /\ writes' = writes + 1 /\ report' = report
    BY <1>1, <1>4 DEF CountInv, build
  <2> QED
    BY <1>2, <1>3, <2>1 DEF Lags
<1>5. ASSUME pc \in Reading PROVE Lags(seen)'
  <2>1. Lags(seen) /\ writes' = writes + 1 /\ report' = report /\ seen' = seen
    BY <1>1, <1>5 DEF CountInv, build, Reading
  <2> QED
    BY <1>2, <2>1 DEF Lags
<1> QED
  BY <1>1, <1>4, <1>5 DEF CountInv, build

\* The builder counts before it reads.
LEMMA CountInvBuild ==
  ASSUME TypeOK, FiniteInv, CountInv, Build \/ \E c \in Configurations : Begin(c)
  PROVE  CountInv'
<1> USE DEF CountInv
<1>0. UNCHANGED observations
  BY BuilderReads DEF database
<1>1. CASE CountObservations
  <2>1. /\ report'.observations = Cardinality(observations)
        /\ writes' \in Nat /\ Cardinality(observations) \in Nat
        /\ pc' = "read_observations"
    BY <1>1, FS_CardinalityType, ConfigurationAssumption
       DEF CountObservations, Go, TypeOK, FiniteInv
  <2>2. Lags(observations)'
    BY <1>0, <2>1 DEF Lags
  <2> QED
    BY <2>1, <2>2 DEF Reading, Ends
<1>2. CASE ReadObservations
  <2>1. seen' = observations /\ UNCHANGED <<report, writes>> /\ Lags(observations)
    BY <1>2 DEF ReadObservations, Go
  <2>2. Lags(seen)' /\ pc' # "read_observations"
    BY <1>2, <2>1 DEF ReadObservations, Go, Lags
  <2> QED
    BY <2>2
<1>3. CASE ReadSurfaces \/ CopyConcepts \/ CopyMemberships \/ InsertObservations \/ Validate
  <2>1. Lags(seen) /\ UNCHANGED <<seen, report, writes>> /\ pc' # "read_observations"
    BY <1>3 DEF ReadSurfaces, CopyConcepts, CopyMemberships, InsertObservations, Validate,
                Go, Reading
  <2> QED
    BY <2>1 DEF Lags
<1>4. CASE pc' \in {"idle", "count_surfaces", "count_observations"}
  BY <1>4 DEF Reading, Ends
<1> QED
  BY <1>1, <1>2, <1>3, <1>4 DEF Build, Begin, CountSurfaces, Exit, Go

\* The report never counts an observation that the snapshot was not made from,
\* and misses only what was written while it was built.
THEOREM ReportLags == Spec => []ReportLagsSnapshot
<1>1. Init => CountInv
  BY DEF Init, CountInv, Reading, Ends
<1>2. TypeOK /\ FiniteInv /\ CountInv /\ [Next]_vars => CountInv'
  <2>1. CountInv /\ UNCHANGED vars => CountInv'
    BY DEF vars, database, build, CountInv, Lags
  <2> QED
    BY <2>1, CountInvWrite, CountInvBuild DEF Next
<1>3. CountInv => ReportLagsSnapshot
  BY DEF CountInv, ReportLagsSnapshot, Lags, Ends
<1> QED
  BY <1>1, <1>2, <1>3, TypesAndFiniteness, PTL DEF Spec

-----------------------------------------------------------------------------
(* A build that nobody disturbed.                                          *)

\* A statement before the build does not disturb it, and one during it does.
LEMMA QuietInvWrite == ASSUME TypeOK, QuietInv, Write PROVE QuietInv'
<1>1. UNCHANGED build /\ pc \notin Ends /\ (pc = "idle" \/ writes' = writes + 1)
  BY DEF Write, AddSurface, AddConcept, AddMembership, ClearRelations, ClearSurfaces,
         AddJob, Observe, Writing
<1>2. CASE pc = "idle"
  BY <1>1, <1>2 DEF QuietInv, build, Reading, Ends
<1>3. CASE writes' = writes + 1
  <2>1. writes' # 0
    BY <1>3, ConfigurationAssumption DEF TypeOK
  <2> QED
    BY <2>1 DEF QuietInv
<1> QED
  BY <1>1, <1>2, <1>3

\* The steps of the builder: no copy fails, since the references of the build
\* database hold and the surfaces are those that were projected.
LEMMA QuietInvBuild ==
  ASSUME TypeOK, ProjectionInv, QuietInv, Build \/ \E c \in Configurations : Begin(c)
  PROVE  QuietInv'
<1>0. UNCHANGED database
  BY BuilderReads
<1>1. CASE pc' \in {"idle", "count_surfaces", "count_observations", "read_observations"}
  BY <1>1 DEF QuietInv, Reading, Ends
<1> SUFFICES ASSUME writes' = 0,
                    pc' \notin {"idle", "count_surfaces", "count_observations",
                                "read_observations"}
             PROVE  QuietInv'
  BY <1>1 DEF QuietInv
<1>2. CASE ReadObservations
  <2>1. /\ seen' = observations' /\ config' = config
        /\ pc' = IF Resolved' THEN "read_surfaces" ELSE "failed"
    BY <1>0, <1>2 DEF ReadObservations, Go, Resolved, ServingNow, Sources, database
  <2> QED
    BY <2>1 DEF QuietInv, Reading, Ends
<1>3. CASE ReadSurfaces
  <2>1. /\ UNCHANGED <<config, rows, seen, writes>>
        /\ pc = "read_surfaces" /\ pc' = "copy_concepts"
        /\ DOMAIN buckets' = surfaces
    BY <1>3 DEF ReadSurfaces, Go
  <2>2. seen = observations /\ Resolved
    BY <2>1 DEF QuietInv, Reading
  <2>3. Resolved'
    BY <2>1, <2>2 DEF Resolved, ServingNow, Sources
  <2> QED
    BY <1>0, <2>1, <2>2, <2>3 DEF QuietInv, Reading, Ends, Projected, database
<1>4. ASSUME CopyConcepts \/ CopyMemberships \/ InsertObservations \/ Validate
      PROVE  /\ seen' = observations' /\ Resolved' /\ Projected' = surfaces'
             /\ pc # "copy_concepts" => copied' = concepts'
             /\ UNCHANGED <<config, rows, buckets>>
  <2>1. /\ UNCHANGED <<config, rows, buckets, seen, writes>>
        /\ pc \in Reading \ {"read_surfaces"}
        /\ pc # "copy_concepts" => copied' = copied
    BY <1>4 DEF CopyConcepts, CopyMemberships, InsertObservations, Validate, Go, Reading
  <2>2. /\ seen = observations /\ Resolved /\ Projected = surfaces
        /\ pc # "copy_concepts" => copied = concepts
    BY <2>1 DEF QuietInv, Reading
  <2>3. Resolved'
    BY <2>1, <2>2 DEF Resolved, ServingNow, Sources
  <2> QED
    BY <1>0, <2>1, <2>2, <2>3 DEF database, Projected
<1>5. CASE CopyConcepts
  <2>1. concepts \subseteq Projected
    BY <1>0, <1>4, <1>5 DEF ProjectionInv, database, Projected
  <2>2. pc' = "copy_memberships" /\ copied' = concepts'
    BY <1>0, <1>5, <2>1 DEF CopyConcepts, Go, database
  <2> QED
    BY <1>4, <1>5, <2>2 DEF QuietInv, Reading, Ends
<1>6. CASE CopyMemberships
  <2>1. copied = concepts /\ Projected = surfaces
    BY <1>6 DEF CopyMemberships, QuietInv, Reading, Go
  <2>2. memberships \subseteq copied \X Projected
    BY <2>1 DEF ProjectionInv
  <2>3. pc' = "insert_observations" /\ pc = "copy_memberships"
    BY <1>6, <2>2 DEF CopyMemberships, Go
  <2> QED
    BY <1>4, <1>6, <2>3 DEF QuietInv, Reading, Ends
<1>7. CASE InsertObservations
  <2>1. {o.surface : o \in rows} \subseteq Projected
    BY <1>7 DEF InsertObservations, ProjectionInv
  <2>2. pc' = "validate" /\ pc = "insert_observations"
    BY <1>7, <2>1 DEF InsertObservations, Go
  <2> QED
    BY <1>4, <1>7, <2>2 DEF QuietInv, Reading, Ends
<1>8. CASE Validate
  <2>1. /\ pc' = IF Covered(rows, Sources, Projected) THEN "released" ELSE "failed"
        /\ pc = "validate"
    BY <1>8 DEF Validate, Go
  <2>2. Covered(rows, Sources, Projected)' <=> Covered(rows, Sources, Projected)
    BY <1>4, <1>8 DEF Sources, Projected
  <2> QED
    BY <1>4, <1>8, <2>1, <2>2 DEF QuietInv, Reading, Ends
<1> QED
  BY <1>2, <1>3, <1>5, <1>6, <1>7, <1>8
     DEF Build, Begin, CountSurfaces, CountObservations, Exit, Go

\* A build that nobody disturbed works on one database.
LEMMA QuietInvariant == Spec => []QuietInv
<1>1. Init => QuietInv
  BY DEF Init, QuietInv, Reading, Ends
<1>2. TypeOK /\ ProjectionInv /\ QuietInv /\ [Next]_vars => QuietInv'
  <2>1. QuietInv /\ UNCHANGED vars => QuietInv'
    BY DEF vars, database, build, QuietInv, Resolved, ServingNow, Sources, Projected
  <2> QED
    BY <2>1, QuietInvWrite, QuietInvBuild DEF Next
<1> QED
  BY <1>1, <1>2, TypeCorrect, ProjectionInvariant, PTL DEF Spec

\* A serving provider is found if it is one of the sources, or if there is a
\* single one and the default was not changed.
LEMMA ServingFound ==
  ASSUME NEW configured, NEW sources \in SUBSET Providers
  PROVE  ServingProvider(configured, sources) # Null
           <=> \/ configured \in sources
               \/ Cardinality(sources) = 1 /\ configured \in {Null, Cts}
<1>1. CASE configured \in sources
  BY <1>1, RecallAssumption DEF ServingProvider
<1>2. CASE configured \notin sources /\ configured \in {Null, Cts} /\ Cardinality(sources) = 1
  <2>1. sources # {}
    BY <1>2, FS_EmptySet
  <2>2. (CHOOSE p \in sources : TRUE) \in Providers
    BY <2>1
  <2> QED
    BY <1>2, <2>2, RecallAssumption DEF ServingProvider
<1>3. CASE configured \notin sources /\ ~(configured \in {Null, Cts} /\ Cardinality(sources) = 1)
  BY <1>3 DEF ServingProvider
<1> QED
  BY <1>1, <1>2, <1>3

\* Any observation of a surface is enough to cover it.
LEMMA CoveredByAny ==
  ASSUME NEW S \in SUBSET Observation, IsFiniteSet(S), NEW sources, NEW projected
  PROVE  Covered(LatestObservations(S), sources, projected)
           <=> \A p \in sources, s \in projected \intersect Serving :
                 \E o \in S : o.provider = p /\ o.surface = s
<1>1. ASSUME NEW p, NEW s
      PROVE  (\E o \in Newest(OfSurface(LatestObservations(S), p, s)) : Acceptable(o))
               <=> \E o \in S : o.provider = p /\ o.surface = s
  <2> DEFINE A == OfSurface(S, p, s)
  <2>1. A \in SUBSET Observation /\ IsFiniteSet(A)
    BY FS_Subset DEF OfSurface
  <2>2. Newest(A) # {} <=> A # {}
    BY <2>1, NewestExists DEF Newest
  <2>3. A # {} <=> \E o \in S : o.provider = p /\ o.surface = s
    BY DEF OfSurface
  <2> QED
    BY <2>2, <2>3, NewestOfLatest, AlwaysAcceptable
<1> QED
  BY <1>1 DEF Covered

\* A build that nobody disturbed fails only for the reasons the contract names,
\* and succeeds only without them.
THEOREM QuietBuildsAreDecided == Spec => []QuietBuildIsDecided
<1>1. TypeOK /\ FiniteInv /\ BucketsInv /\ QuietInv => QuietBuildIsDecided
  <2> SUFFICES ASSUME TypeOK, FiniteInv, BucketsInv, QuietInv,
                      writes = 0, pc \in Ends
               PROVE  /\ pc = "failed" => ~Buildable
                      /\ pc = "released" => Buildable
    BY DEF QuietBuildIsDecided, Ends
  <2> DEFINE providers == {o.provider : o \in observations}
             coverage == \A p \in providers, s \in surfaces \intersect Serving :
                           \E o \in observations : o.provider = p /\ o.surface = s
  <2>1. observations \in SUBSET Observation /\ IsFiniteSet(observations)
    BY DEF TypeOK, FiniteInv
  <2>2. seen = observations /\ rows = LatestObservations(observations)
    BY DEF QuietInv, BucketsInv
  <2>3. Sources = providers
    BY <2>1, <2>2, LatestRepresent DEF Sources, Exported
  <2>4. rows # {} <=> providers # {}
    BY <2>3 DEF Sources, Exported
  <2>5. providers \in SUBSET Providers
    BY <2>1 DEF Observation
  <2>6. ServingNow # Null
          <=> \/ config.serving \in providers
              \/ Cardinality(providers) = 1 /\ config.serving \in {Null, Cts}
    BY <2>3, <2>5, ServingFound DEF ServingNow
  <2>7. Resolved <=> /\ providers # {} /\ config.sources \in {Null, providers}
                     /\ ServingNow # Null
    BY <2>3, <2>4 DEF Resolved, SourcesAccepted, Sources
  <2>8. Buildable <=> Resolved /\ coverage
    <3> HIDE DEF coverage
    <3>1. Buildable <=> /\ providers # {}
                        /\ config.sources \in {Null, providers}
                        /\ \/ config.serving \in providers
                           \/ Cardinality(providers) = 1 /\ config.serving \in {Null, Cts}
                        /\ coverage
      BY DEF Buildable, coverage
    <3> HIDE DEF providers
    <3> QED
      BY <2>6, <2>7, <3>1
  <2>9. Covered(rows, Sources, surfaces) <=> coverage
    <3>1. Covered(LatestObservations(observations), providers, surfaces) <=> coverage
      <4> HIDE DEF providers
      <4> QED
        BY <2>1, CoveredByAny
    <3> HIDE DEF providers, coverage
    <3> QED
      BY <2>2, <2>3, <3>1
  <2>10. CASE pc = "released"
    <3>1. Resolved /\ Projected = surfaces /\ Covered(rows, Sources, Projected)
      BY <2>10 DEF QuietInv, Reading
    <3> HIDE DEF coverage
    <3> QED
      BY <2>8, <2>9, <2>10, <3>1
  <2>11. CASE pc = "failed"
    <3>1. Resolved => Projected = surfaces /\ ~Covered(rows, Sources, Projected)
      BY <2>11 DEF QuietInv
    <3> HIDE DEF coverage
    <3> QED
      BY <2>8, <2>9, <2>11, <3>1
  <2> QED
    BY <2>10, <2>11 DEF Ends
<1> QED
  BY <1>1, TypesAndFiniteness, BucketsInvariant, QuietInvariant, PTL

=============================================================================
