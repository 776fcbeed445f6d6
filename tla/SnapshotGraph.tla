---------------------------- MODULE SnapshotGraph ----------------------------
(***************************************************************************)
(* What the queries of the runtime find in a snapshot as the builder makes *)
(* it: surfaces, the concepts and relations of build_relations, the edges  *)
(* of build_cooccurrence_edges, and a recall bucket for each surface.      *)
(*                                                                         *)
(* Texts are normalized here: a text is a surface of the snapshot, or a    *)
(* stranger.  Extraction stores every surface as active and query_safe,    *)
(* and nothing changes that, so a surface that the snapshot lacks is the   *)
(* only one that the queries refuse.                                       *)
(***************************************************************************)
EXTENDS LexOrder, Sequences

CONSTANTS
  Surfaces,   \* ids, in the order of their normalized texts
  Strangers,  \* texts that are no surface's
  Snapshots   \* snapshots that may be opened

Null == 0

Buckets == {"healthy", "too_narrow", "unknown", "stale", "too_wide", "zero"}

BundleTypes == {"anchor", "precision", "alias_probe", "exploration"}

\* In how many windows a surface or both surfaces of a pair occur.
EdgeTypes ==
  [a : Surfaces, b : Surfaces, windows : Nat, ofA : Nat, ofB : Nat, together : Nat]

\* active: the surfaces of the snapshot; unsafe and blocked: texts that
\* classify_surface rejects, and those it rejects for a reason that blocks a
\* request; bucket: that of the observation for the serving provider, or
\* "none"; base: what a surface is a version or the seed alias of; alias: the
\* surface that is the seed alias; versioned: surfaces that end in a version;
\* order: the places of surfaces by frequency, length and text; prefix: the
\* longest surface that a surface's display text begins with, followed by a
\* space; labels: the places of labels, display texts followed by a type, in
\* the order of their characters.
SnapshotTypes ==
  [active : SUBSET Surfaces, unsafe : SUBSET Surfaces,
   blocked : SUBSET (Surfaces \union Strangers),
   bucket : [Surfaces -> Buckets \union {"none"}],
   base : [Surfaces -> Surfaces \union {Null}],
   alias : Surfaces \union {Null}, versioned : SUBSET Surfaces,
   order : [Surfaces -> Nat], prefix : [Surfaces -> Surfaces \union {Null}],
   labels : [BundleTypes -> [Surfaces -> Nat]], edges : SUBSET EdgeTypes]

EdgeCounted(e) ==
  /\ e.a < e.b
  /\ e.together \in 1 .. e.ofA /\ e.together =< e.ofB
  /\ e.ofA + e.ofB - e.together =< e.windows

\* A base is another surface, the two of the seed alias, "k8s" and
\* "kubernetes", are query-safe, and different surfaces have different texts.
ASSUME GraphAssumption ==
  /\ Surfaces \subseteq Nat \ {Null}
  /\ IsFiniteSet(Surfaces)
  /\ Strangers \intersect (Surfaces \union {Null}) = {}
  /\ \A g \in Snapshots :
       /\ g \in SnapshotTypes
       /\ g.blocked \intersect Surfaces \subseteq g.unsafe
       /\ \A s \in Surfaces : g.base[s] # s
       /\ \A s, t \in Surfaces : s # t =>
            /\ g.order[s] # g.order[t]
            /\ \A type \in BundleTypes : g.labels[type][s] # g.labels[type][t]
       /\ g.alias # Null =>
            g.base[g.alias] # Null /\ {g.alias, g.base[g.alias]} \intersect g.unsafe = {}
       /\ \A e \in g.edges : EdgeCounted(e) /\ {e.a, e.b} \subseteq g.active

VARIABLES
  graph,    \* the open snapshot
  request,  \* the request that is being answered
  answer    \* what the caller gets

-----------------------------------------------------------------------------
(* Concepts and relations, as build_relations leaves them. *)

\* _DisjointSet: the group of a surface, by the end of its chain of bases.
Root[s \in Surfaces] == IF graph.base[s] = Null THEN s ELSE Root[graph.base[s]]

Group(s) == {t \in graph.active : Root[t] = Root[s]}

\* _primary_rank: the canonical of the seed alias first, versions last.
PrimaryRank(s) ==
  IF graph.alias # Null /\ s = graph.base[graph.alias] THEN 0
  ELSE IF s \in graph.versioned THEN 2 ELSE 1

\* _primary_surface: of equal ranks the most frequent surface, or else the
\* shortest, or else the first text.
PrimarySurface(s) ==
  {t \in Group(s) \ graph.unsafe :
     \A u \in Group(s) \ graph.unsafe :
       \/ PrimaryRank(t) < PrimaryRank(u)
       \/ PrimaryRank(t) = PrimaryRank(u) /\ graph.order[t] =< graph.order[u]}

\* A group without a safe member is no concept.
HasConcept(s) == s \in graph.active /\ PrimarySurface(s) # {}

\* The confidence of a surface's membership in its concept.
LinkConfidence(s) == IF s \in PrimarySurface(s) THEN 100 ELSE 90

\* list_bidirectional_related_surfaces: the seed alias and the versions.
RelatedTo(s) ==
  {t \in graph.active : s \in graph.active /\ (graph.base[s] = t \/ graph.base[t] = s)}

IsAliasPair(s, t) ==
  graph.alias \in {s, t} /\ graph.base[graph.alias] \in {s, t}

RelationConfidence(s, t) == IF IsAliasPair(s, t) THEN 95 ELSE 90

-----------------------------------------------------------------------------
(* Co-occurrence, as _persist_window_edges computes it. *)

\* list_cooccurrence_edges
EdgesOf(s) == {e \in graph.edges : s \in {e.a, e.b}}

OtherEnd(e, s) == IF e.a = s THEN e.b ELSE e.a

\* support, in percent
Support(e) == (100 * e.together) \div e.windows

\* Fault: the pair has to occur more often than by chance only.
IsStrongByChance(e) ==
  /\ 2 * e.together >= e.windows
  /\ e.together * e.windows >= e.ofA * e.ofB

\* _is_strong_cooccurrence: a support of a half, and a pmi of one bit, that is
\* twice as often together as by chance.
IsStrong(e) ==
  /\ 2 * e.together >= e.windows
  /\ e.together * e.windows >= 2 * e.ofA * e.ofB

\* Two surfaces share half of the windows, and the other half has neither.
HalfOfTheWindows(e) ==
  e.windows = 2 * e.together /\ e.ofA = e.together /\ e.ofB = e.together

-----------------------------------------------------------------------------
(* Recall. *)

\* The bucket of a surface: without an observation it is unknown.
Bucket(s) == IF graph.bucket[s] = "none" THEN "unknown" ELSE graph.bucket[s]

=============================================================================
