-------------------------- MODULE RecallProjection --------------------------
(***************************************************************************)
(* What a runtime snapshot says about recall: which observations of the    *)
(* build database it exports, how it classifies them, and what the runtime *)
(* store demands of it.                                                    *)
(*                                                                         *)
(* query stands for the pair query_hash, query_mode.  Observation ids are  *)
(* compared as the code compares them, but say nothing about time.         *)
(***************************************************************************)
EXTENDS Integers, FiniteSets

CONSTANTS
  Surfaces,
  Serving,      \* those with serving_status = 'active' and query_safe = 1
  Providers,
  Cts,          \* the provider called "cts"
  Queries,
  Times,        \* values of observed_at
  Totals,       \* values of total
  Null,         \* total is null; a configuration field is None
  BuiltAt,      \* BuildSnapshotConfig.built_at
  MaxAge,       \* max_observation_age_days
  HealthyMin,   \* healthy_min_total
  HealthyMax    \* healthy_max_total

ASSUME RecallAssumption ==
  /\ IsFiniteSet(Surfaces)
  /\ Serving \subseteq Surfaces
  /\ Cts # Null
  /\ Times \subseteq Int
  /\ Totals \subseteq Nat
  /\ Null \notin Nat
  /\ Null \notin Providers
  /\ BuiltAt \in Int /\ MaxAge \in Int
  /\ HealthyMin \in Nat /\ HealthyMax \in Nat

\* A failed observation has no total; a successful one has, unless the
\* provider answered without a number.
Observation ==
  [id : Nat, provider : Providers, surface : Surfaces, query : Queries,
   at : Times, status : {"ok", "failed"}, total : Totals \union {Null}]

Buckets == {"healthy", "too_wide", "too_narrow", "zero", "stale", "unknown"}

\* "order by ..., observed_at desc, observation_id desc", also the order of
\* _observation_sort_key.
Newer(o, p) == o.at > p.at \/ (o.at = p.at /\ o.id > p.id)

\* The rows of a set that no row of the set is newer than.
Newest(set) == {o \in set : \A p \in set : ~Newer(p, o)}

SameKey(o, p) ==
  o.provider = p.provider /\ o.surface = p.surface /\ o.query = p.query

\* _latest_observations: the newest row of every key.
LatestObservations(obs) ==
  {o \in obs : \A p \in obs : SameKey(o, p) => ~Newer(p, o)}

Exported(rows) == {o.provider : o \in rows}

\* default_serving_provider after resolution; Null if the build must fail.
\* "cts", the default, gives way to a provider that is alone.
ServingProvider(configured, sources) ==
  IF configured \in sources THEN configured
  ELSE IF configured \in {Null, Cts} /\ Cardinality(sources) = 1
       THEN CHOOSE p \in sources : TRUE
  ELSE Null

SourcesAccepted(configured, rows) ==
  /\ rows # {}
  /\ configured \in {Null, Exported(rows)}

IsStale(at) == at < BuiltAt - MaxAge

\* recall_bucket_for_observation
BucketOf(o) ==
  IF o.status # "ok" \/ o.total = Null THEN "unknown"
  ELSE IF IsStale(o.at) THEN "stale"
  ELSE IF o.total = 0 THEN "zero"
  ELSE IF o.total < HealthyMin THEN "too_narrow"
  ELSE IF o.total > HealthyMax THEN "too_wide"
  ELSE "healthy"

\* The rows of the serving provider that decide a surface's bucket.
OfSurface(rows, provider, s) ==
  {o \in rows : o.provider = provider /\ o.surface = s}

\* Fault: the first row of a surface decides, and no later one replaces it.
SurfaceBucketFirst(rows, provider, s) ==
  LET found == OfSurface(rows, provider, s) IN
  IF found = {} THEN "unknown"
  ELSE BucketOf(CHOOSE o \in found : \A p \in found : o.id =< p.id)

\* recall_bucket of a projected surface: its newest row, over all queries.
SurfaceBucket(rows, provider, s) ==
  IF OfSurface(rows, provider, s) = {} THEN "unknown"
  ELSE BucketOf(CHOOSE o \in Newest(OfSurface(rows, provider, s)) : TRUE)

\* Fault: a failed observation does not cover its surface.
AcceptableSuccess(o) == o.status = "ok" /\ o.total # Null

\* What the store accepts as the newest observation of a serving surface.
Acceptable(o) ==
  \/ o.status = "ok" /\ o.total # Null
  \/ BucketOf(o) \in {"stale", "unknown"}

\* _validate_provider_recall_coverage
Covered(rows, sources, projected) ==
  \A p \in sources, s \in Serving \intersect projected :
    \E o \in Newest(OfSurface(rows, p, s)) : Acceptable(o)

=============================================================================
