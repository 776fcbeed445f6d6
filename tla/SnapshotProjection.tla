------------------------- MODULE SnapshotProjection -------------------------
(***************************************************************************)
(* build_runtime_snapshot against a build database that other commands may *)
(* be writing.  The builder reads one table after the other, each with a   *)
(* SELECT of its own and without a transaction around them, so a step of   *)
(* this module is one SELECT together with the inserts made from it.  The  *)
(* inserts go to a file of the builder's own, in one transaction with its  *)
(* foreign keys enforced.                                                  *)
(*                                                                         *)
(* Left out are surface_relations and cooccurrence_edges: they refer to    *)
(* surfaces, as memberships do, and without them a database permits more,  *)
(* never less.  What happens to the files on disk is in SnapshotFiles.     *)
(***************************************************************************)
EXTENDS RecallProjection

CONSTANTS
  Configurations,   \* [sources, serving]: provider_sources and default_serving_provider
  MaxObservations,  \* bound of the model
  MaxLinks,         \* bound of the model: concepts and memberships
  MaxWrites         \* bound of the model: statements of others during a build

ASSUME ConfigurationAssumption ==
  /\ \A c \in Configurations :
       /\ c.sources \in {Null} \union SUBSET Providers
       /\ c.serving \in {Null} \union Providers \union {Cts}
  /\ MaxObservations \in Nat
  /\ MaxLinks \in Nat
  /\ MaxWrites \in Nat

VARIABLES
  surfaces,      \* the build database: surface ids
  concepts,      \* surfaces that are the primary surface of a concept
  memberships,   \* concept_surfaces: a concept (by its primary surface), a surface
  jobs,          \* surfaces with a probe job
  observations,  \* provider_recall_observations
  writes,        \* statements of others since the build began
  pc,            \* what the builder does next, or how the last build ended
  config,        \* BuildSnapshotConfig
  report,        \* counts written to the build report
  rows,          \* latest_observations
  buckets,       \* projected surfaces with their recall_bucket
  copied,        \* concepts that are in the snapshot
  seen           \* history: the observations when they were read

database == <<surfaces, concepts, memberships, jobs, observations>>
build == <<pc, config, report, rows, buckets, copied, seen>>
vars == <<database, writes, build>>

Ends == {"released", "failed"}

Places ==
  Ends \union {"idle", "count_surfaces", "count_observations", "read_observations",
               "read_surfaces", "copy_concepts", "copy_memberships",
               "insert_observations", "validate"}

NoConfiguration == [sources |-> Null, serving |-> Null]

TypeOK ==
  /\ surfaces \subseteq Surfaces
  /\ concepts \subseteq Surfaces
  /\ memberships \subseteq Surfaces \X Surfaces
  /\ jobs \subseteq Surfaces
  /\ observations \subseteq Observation
  /\ writes \in 0 .. MaxWrites
  /\ pc \in Places
  /\ config \in Configurations \union {NoConfiguration}
  /\ report \in [surfaces : Nat, observations : Nat]
  /\ rows \subseteq observations
  /\ DOMAIN buckets \subseteq Surfaces
  /\ \A s \in DOMAIN buckets : buckets[s] \in Buckets
  /\ copied \subseteq Surfaces
  /\ seen \subseteq observations

NoReport == [surfaces |-> 0, observations |-> 0]
NoBuckets == [s \in {} |-> "unknown"]

Init ==
  /\ surfaces = {} /\ concepts = {} /\ memberships = {} /\ jobs = {}
  /\ observations = {}
  /\ writes = 0
  /\ pc = "idle" /\ config = NoConfiguration /\ report = NoReport
  /\ rows = {} /\ buckets = NoBuckets /\ copied = {} /\ seen = {}

Sources == Exported(rows)
ServingNow == ServingProvider(config.serving, Sources)
Projected == DOMAIN buckets

-----------------------------------------------------------------------------
(* The other commands.  Each statement commits by itself and the build     *)
(* database enforces its foreign keys.  A build that has ended reads nothing *)
(* more, so what they do then may as well come after its exit.             *)

Writing ==
  /\ pc \notin Ends
  /\ IF pc = "idle" THEN writes' = 0
     ELSE writes < MaxWrites /\ writes' = writes + 1
  /\ UNCHANGED build

\* extract-surfaces: one row of surfaces.
AddSurface(s) ==
  /\ s \notin surfaces
  /\ surfaces' = surfaces \union {s}
  /\ Writing
  /\ UNCHANGED <<concepts, memberships, jobs, observations>>

RoomForLinks == Cardinality(concepts) + Cardinality(memberships) < MaxLinks

\* build-relations: a concept, then its surfaces.
AddConcept(s) ==
  /\ RoomForLinks
  /\ s \in surfaces \ concepts
  /\ concepts' = concepts \union {s}
  /\ Writing
  /\ UNCHANGED <<surfaces, memberships, jobs, observations>>

AddMembership(c, s) ==
  /\ RoomForLinks
  /\ c \in concepts /\ s \in surfaces
  /\ <<c, s>> \notin memberships
  /\ memberships' = memberships \union {<<c, s>>}
  /\ Writing
  /\ UNCHANGED <<surfaces, concepts, jobs, observations>>

\* build-relations starts over: three deletes and one commit.
ClearRelations ==
  /\ concepts # {}
  /\ concepts' = {} /\ memberships' = {}
  /\ Writing
  /\ UNCHANGED <<surfaces, jobs, observations>>

\* Fault: jobs and observations do not keep their surface.
ReferencedByRelationsOnly == concepts # {} \/ memberships # {}

\* A row of another table refers to a surface.
SurfacesReferenced ==
  concepts # {} \/ memberships # {} \/ jobs # {} \/ observations # {}

\* extract-surfaces starts over: it deletes every surface, which the foreign
\* keys refuse as long as one is referred to.
ClearSurfaces ==
  /\ surfaces # {}
  /\ ~SurfacesReferenced
  /\ surfaces' = {}
  /\ Writing
  /\ UNCHANGED <<concepts, memberships, jobs, observations>>

\* probe-cts, or the import of another provider's counts.  Jobs and
\* observations are never deleted.
AddJob(s) ==
  /\ s \in surfaces \ jobs
  /\ jobs' = jobs \union {s}
  /\ Writing
  /\ UNCHANGED <<surfaces, concepts, memberships, observations>>

Observe(o) ==
  /\ o.surface \in surfaces \intersect jobs
  /\ o.status = "failed" => o.total = Null
  /\ Cardinality(observations) < MaxObservations
  /\ \A p \in observations : p.id # o.id
  /\ observations' = observations \union {o}
  /\ Writing
  /\ UNCHANGED <<surfaces, concepts, memberships, jobs>>

NewObservation ==
  [id : 1 .. MaxObservations, provider : Providers, surface : Surfaces,
   query : Queries, at : Times, status : {"ok", "failed"},
   total : Totals \union {Null}]

-----------------------------------------------------------------------------
(* The builder.                                                            *)

Go(place) == pc' = place /\ UNCHANGED <<database, writes>>

Begin(c) ==
  /\ pc = "idle"
  /\ config' = c
  /\ Go("count_surfaces")
  /\ UNCHANGED <<report, rows, buckets, copied, seen>>

\* _build_report_payload: a SELECT for each table.
CountSurfaces ==
  /\ pc = "count_surfaces"
  /\ report' = [report EXCEPT !.surfaces = Cardinality(surfaces)]
  /\ Go("count_observations")
  /\ UNCHANGED <<config, rows, buckets, copied, seen>>

\* Fault: it counts what the snapshot will contain.
CountLatestObservations ==
  /\ pc = "count_observations"
  /\ report' = [report EXCEPT !.observations = Cardinality(LatestObservations(observations))]
  /\ Go("read_observations")
  /\ UNCHANGED <<config, rows, buckets, copied, seen>>

CountObservations ==
  /\ pc = "count_observations"
  /\ report' = [report EXCEPT !.observations = Cardinality(observations)]
  /\ Go("read_observations")
  /\ UNCHANGED <<config, rows, buckets, copied, seen>>

\* _latest_observations, and the two resolutions that may end the build.
ReadObservations ==
  /\ pc = "read_observations"
  /\ seen' = observations
  /\ rows' = LatestObservations(observations)
  /\ Go(IF /\ SourcesAccepted(config.sources, rows')
           /\ ServingProvider(config.serving, Exported(rows')) # Null
        THEN "read_surfaces" ELSE "failed")
  /\ UNCHANGED <<config, report, buckets, copied>>

\* _project_surfaces
ReadSurfaces ==
  /\ pc = "read_surfaces"
  /\ buckets' = [s \in surfaces |-> SurfaceBucket(rows, ServingNow, s)]
  /\ Go("copy_concepts")
  /\ UNCHANGED <<config, report, rows, copied, seen>>

\* _copy_table of concepts: a primary surface that was not projected breaks a
\* foreign key of the snapshot.
CopyConcepts ==
  /\ pc = "copy_concepts"
  /\ copied' = concepts
  /\ Go(IF concepts \subseteq Projected THEN "copy_memberships" ELSE "failed")
  /\ UNCHANGED <<config, report, rows, buckets, seen>>

\* _copy_table of concept_surfaces, which refer to concepts and surfaces.
CopyMemberships ==
  /\ pc = "copy_memberships"
  /\ Go(IF memberships \subseteq copied \X Projected
        THEN "insert_observations" ELSE "failed")
  /\ UNCHANGED <<config, report, rows, buckets, copied, seen>>

\* The surfaces of the rows to insert: each needs its row in the snapshot.
InsertObservations ==
  /\ pc = "insert_observations"
  /\ Go(IF {o.surface : o \in rows} \subseteq Projected
        THEN "validate" ELSE "failed")
  /\ UNCHANGED <<config, report, rows, buckets, copied, seen>>

\* SQLiteSnapshotStore.validate and validate_release_artifacts
Validate ==
  /\ pc = "validate"
  /\ Go(IF Covered(rows, Sources, Projected) THEN "released" ELSE "failed")
  /\ UNCHANGED <<config, report, rows, buckets, copied, seen>>

\* The process ends, and with it what it had in memory.
Exit ==
  /\ pc \in Ends
  /\ pc' = "idle" /\ config' = NoConfiguration /\ report' = NoReport
  /\ rows' = {} /\ buckets' = NoBuckets /\ copied' = {} /\ seen' = {}
  /\ writes' = 0
  /\ UNCHANGED database

Build ==
  \/ CountSurfaces \/ CountObservations \/ ReadObservations \/ ReadSurfaces
  \/ CopyConcepts \/ CopyMemberships \/ InsertObservations \/ Validate
  \/ Exit

Write ==
  \/ \E s \in Surfaces : AddSurface(s) \/ AddConcept(s) \/ AddJob(s)
  \/ \E c, s \in Surfaces : AddMembership(c, s)
  \/ ClearRelations \/ ClearSurfaces
  \/ \E o \in NewObservation : Observe(o)

Next == Write \/ Build \/ \E c \in Configurations : Begin(c)

Spec == Init /\ [][Next]_vars

-----------------------------------------------------------------------------
\* The newest of the observations that were read for a surface from the
\* serving provider, over all queries; of those with the same time the one
\* with the greatest id.
Decisive(s) ==
  {o \in seen : /\ o.surface = s /\ o.provider = ServingNow
                /\ \A p \in seen : p.surface = s /\ p.provider = ServingNow
                     => p.at < o.at \/ (p.at = o.at /\ p.id =< o.id)}

\* A surface is called healthy exactly if the newest of all its observations
\* by the serving provider succeeded, is fresh, found somebody, and lies in
\* the healthy range, however many queries, providers and failures it has
\* (_latest_observations and _project_surfaces select in two steps by two
\* different keys).
HealthyIsEarned ==
  \A s \in Projected :
    buckets[s] = "healthy" <=>
      \E o \in Decisive(s) :
        /\ o.status = "ok" /\ o.total \in (HealthyMin .. HealthyMax) \ {0}
        /\ o.at >= BuiltAt - MaxAge

\* The inserts of the observations never break a foreign key, although they
\* were read before the surfaces: an observation keeps its surface from being
\* deleted by extract-surfaces.
ObservedSurfacesProjected ==
  pc \in {"insert_observations", "validate", "released"}
    => \A o \in rows : o.surface \in Projected

\* Why: the build database keeps its references while it is written, and a row
\* that was read cannot lose its surface.
ProjectionInv ==
  /\ concepts \subseteq surfaces
  /\ memberships \subseteq concepts \X surfaces
  /\ jobs \subseteq surfaces
  /\ \A o \in observations : o.surface \in jobs
  /\ pc \in {"copy_concepts", "copy_memberships", "insert_observations", "validate",
             "released"}
       => \A o \in rows : o.surface \in Projected

\* What the configuration and the data must offer for a build to succeed.
Buildable ==
  LET providers == {o.provider : o \in observations} IN
  /\ providers # {}
  /\ config.sources \in {Null, providers}
  /\ \/ config.serving \in providers
     \/ Cardinality(providers) = 1 /\ config.serving \in {Null, Cts}
  /\ \A p \in providers, s \in surfaces \intersect Serving :
       \E o \in observations : o.provider = p /\ o.surface = s

\* A build that nobody disturbed fails only for the reasons the contract
\* names, and succeeds only without them: the foreign keys of the build
\* database are enough for those of the snapshot, and a failed, stale or empty
\* observation is enough to cover a surface.
QuietBuildIsDecided ==
  writes = 0 => /\ pc = "failed" => ~Buildable
                /\ pc = "released" => Buildable

\* The report, which is counted first, never counts an observation that the
\* snapshot was not made from, and what it misses was written meanwhile
\* (there is no transaction around the build that would lock a watermark).
ReportLagsSnapshot ==
  pc = "released" =>
    /\ report.observations =< Cardinality(seen)
    /\ Cardinality(seen) =< report.observations + writes

\* Why: what the builder holds are the latest of the observations it has seen,
\* and every bucket was computed from them.
BucketsInv ==
  /\ \A o, p \in observations : o.id = p.id => o = p
  /\ pc \in {"idle", "count_surfaces", "count_observations", "read_observations",
             "read_surfaces"}
       => Projected = {}
  /\ rows = LatestObservations(seen)
  /\ \A s \in Projected : buckets[s] = SurfaceBucket(rows, ServingNow, s)

\* The count in the report lags by no more than was written.
Lags(set) ==
  /\ report.observations =< Cardinality(set)
  /\ Cardinality(set) =< report.observations + writes

Reading == {"read_surfaces", "copy_concepts", "copy_memberships", "insert_observations",
            "validate"}

CountInv ==
  /\ pc = "read_observations" => Lags(observations)
  /\ pc \in Reading \union Ends => Lags(seen)

Resolved == SourcesAccepted(config.sources, rows) /\ ServingNow # Null

\* A build that nobody disturbed sees one database from beginning to end.
QuietInv ==
  writes = 0 =>
    /\ pc \in Reading \union Ends => seen = observations
    /\ pc \in Reading \union {"released"} => Resolved
    /\ pc \in (Reading \union {"released"}) \ {"read_surfaces"} => Projected = surfaces
    /\ pc \in {"copy_memberships", "insert_observations", "validate"} => copied = concepts
    /\ pc = "released" => Covered(rows, Sources, Projected)
    /\ pc = "failed" /\ Resolved =>
         Projected = surfaces /\ ~Covered(rows, Sources, Projected)

\* A failed observation never hides an older usable one ("a failed result must
\* not overwrite an old usable observation").
UsableObservationKept ==
  pc = "released" =>
    \A o \in seen : o.status = "ok" /\ o.total # Null =>
      \E r \in rows : SameKey(r, o) /\ r.status = "ok" /\ r.total # Null

=============================================================================
