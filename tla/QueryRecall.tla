---------------------------- MODULE QueryRecall ----------------------------
(***************************************************************************)
(* QueryRecallOptimizer.analyze: for each term of a request, what to do    *)
(* with it and what to ask instead.                                        *)
(*                                                                         *)
(* A snapshot holds one observation of a surface for a provider and mode,  *)
(* since the probe asks for the surface's display text.  So an observation *)
(* is named by its surface, and a term, which is looked up by its text and *)
(* then by its normalized text, finds the surface with that normalized     *)
(* text.  Answers are sets: ranks and messages are left out.               *)
(***************************************************************************)
EXTENDS SnapshotGraph

CONSTANT RecallRequests

\* text: query_text, or Null; terms: query_terms, each of which the caller may
\* call typed by the source "query_text" as well; max: max_alternatives;
\* companions: max_precision_companions; supported: the snapshot has the
\* provider.
RecallRequestTypes ==
  [kind : {"recall"}, text : Surfaces \union Strangers \union {Null},
   terms : Seq([term : Surfaces \union Strangers, typed : BOOLEAN]),
   max : 0 .. 50, companions : 0 .. 20, supported : BOOLEAN]

ASSUME RecallAssumption ==
  \A q \in RecallRequests :
    q \in RecallRequestTypes /\ (q.text # Null \/ q.terms # <<>>)

-----------------------------------------------------------------------------
(* Alternatives of a matched surface. *)

\* _observation finds one.
Observed(s) == graph.bucket[s] # "none"

Alternative(s, t, kind, confidence) ==
  [source |-> s, target |-> t, kind |-> kind, confidence |-> confidence]

Related(s) ==
  {Alternative(s, t, IF IsAliasPair(s, t) THEN "alias" ELSE "version_variant",
               RelationConfidence(s, t)) : t \in RelatedTo(s)}

\* Fault: the members of a concept are all linked with the same confidence.
SameConceptEven(s) ==
  {Alternative(s, t, "equivalent", 90) :
     t \in IF HasConcept(s) THEN Group(s) \ {s} ELSE {}}

\* _same_concept_links
SameConcept(s) ==
  {Alternative(s, t, "equivalent", LinkConfidence(t)) :
     t \in IF HasConcept(s) THEN Group(s) \ {s} ELSE {}}

\* Of the edges to the same surface, which differ in their kind of windows, the
\* first is taken, the one with the greatest support.
Cooccurring(s) ==
  {Alternative(s, OtherEnd(e, s), "cooccurrence", Support(e)) :
     e \in {f \in EdgesOf(s) :
             /\ Bucket(s) = "too_wide"
             /\ \A g \in EdgesOf(s) :
                  OtherEnd(g, s) = OtherEnd(f, s) => Support(g) =< Support(f)}}

\* _alternatives for one matched surface.  No relation that is built has the
\* kind "equivalent", so no two of these have source, target and kind in common.
Alternatives(s) == Related(s) \union SameConcept(s) \union Cooccurring(s)

BucketRank(bucket) ==
  CASE bucket = "healthy" -> 0
    [] bucket = "too_narrow" -> 1
    [] bucket = "unknown" -> 2
    [] bucket = "stale" -> 3
    [] bucket = "too_wide" -> 4
    [] bucket = "zero" -> 5

KindRank(kind) ==
  CASE kind \in {"alias", "version_variant"} -> 0
    [] kind = "equivalent" -> 1
    [] kind = "cooccurrence" -> 2

-----------------------------------------------------------------------------
(* The terms of the request. *)

Raw ==
  (IF request.text = Null THEN <<>> ELSE <<[term |-> request.text, typed |-> TRUE]>>)
  \o request.terms

\* _input_terms: the positions of the first mention of each term.
InputTerms == {i \in DOMAIN Raw : \A j \in 1 .. i - 1 : Raw[j].term # Raw[i].term}

\* _resolve_term
Matched == {i \in InputTerms : Raw[i].term \in graph.active}

MatchedSurfaces == {Raw[i].term : i \in Matched}

\* Fault: the smallest confidence first.
SortKeyUpsideDown(a) == <<BucketRank(Bucket(a.target)), a.confidence, a.target>>

\* _alternative_sort_key
SortKey(a) == <<BucketRank(Bucket(a.target)), -a.confidence, a.target>>

\* The order in which _alternatives inserts what has equal keys.
InsertedBefore(a, b) ==
  \/ \E i \in DOMAIN Raw : /\ Raw[i].term = a.source
                           /\ \A j \in 1 .. i : Raw[j].term # b.source
  \/ a.source = b.source /\ KindRank(a.kind) < KindRank(b.kind)

Before(a, b) ==
  \/ LexLess(SortKey(a), SortKey(b))
  \/ SortKey(a) = SortKey(b) /\ InsertedBefore(a, b)

\* The first of a set of alternatives, as a set of at most one.
First(set) == {a \in set : \A b \in set \ {a} : Before(a, b)}

-----------------------------------------------------------------------------
(* What to do with a term. *)

BestReplacement(alternatives) ==
  First({a \in alternatives :
           a.kind # "cooccurrence" /\ graph.bucket[a.target] = "healthy"})

\* _best_companion
BestCompanion(alternatives) ==
  First({a \in alternatives : /\ request.companions > 0
                              /\ a.kind = "cooccurrence"
                              /\ graph.bucket[a.target] = "healthy"})

Targets(set) == {a.target : a \in set}

\* Fault: terms without an observation are cited as well.
RecommendationUnchecked(s, action, offered, cited) ==
  [source |-> s, action |-> action, offered |-> Targets(offered),
   evidence |-> {s} \union Targets(cited)]

\* offered: what recommended_query_text names, if it is not the term itself;
\* evidence: the surfaces whose observations are cited (_evidence_ids).
Recommendation(s, action, offered, cited) ==
  [source |-> s, action |-> action, offered |-> Targets(offered),
   evidence |-> {t \in {s} \union Targets(cited) : Observed(t)}]

\* _recommendations, for one matched term
Advice(s, typed) ==
  LET bucket == Bucket(s)
      alternatives == Alternatives(s)
      replacement == BestReplacement(alternatives)
      companion == BestCompanion(alternatives)
      probe == /\ typed /\ bucket \in {"zero", "too_narrow"}
               /\ \E a \in replacement : a.kind = "alias"
  IN CASE bucket = "healthy" -> Recommendation(s, "keep", {}, replacement)
       [] bucket = "too_wide" /\ companion # {} ->
            Recommendation(s, "add_precision_companion", companion, companion)
       [] bucket = "too_wide" /\ companion = {} ->
            Recommendation(s, "downrank", {}, replacement)
       [] probe -> Recommendation(s, "add_alias_probe", replacement, replacement)
       [] bucket \in {"zero", "too_narrow", "stale"} /\ replacement # {} /\ ~probe ->
            Recommendation(s, "replace", replacement, replacement)
       [] OTHER -> Recommendation(s, "score_only", {}, replacement)

Recommendations ==
  {Advice(Raw[i].term, Raw[i].typed) : i \in Matched}
  \union {[source |-> Raw[i].term, action |-> "fallback", offered |-> {}, evidence |-> {}] :
            i \in InputTerms \ Matched}

-----------------------------------------------------------------------------
(* The response. *)

\* The alternatives that recommendations name, each by its best entry.
Required(alternatives, recommendations) ==
  UNION {First({a \in alternatives : a.source = r.source /\ a.target \in r.offered}) :
           r \in recommendations}

\* Fault: what recommendations name counts like any other alternative.
CutAll(alternatives, recommendations) ==
  {a \in alternatives : Cardinality({b \in alternatives : Before(b, a)}) < request.max}

\* _response_alternatives
ResponseAlternatives(alternatives, recommendations) ==
  LET required == Required(alternatives, recommendations)
      rest == alternatives \ required
  IN required \union
     {a \in rest :
        Cardinality(required) + Cardinality({b \in rest : Before(b, a)}) < request.max}

\* Fault: the bucket of the term that was asked.
OptimizedBucketOfSource(alternatives, source, text) ==
  IF source \in MatchedSurfaces THEN Bucket(source) ELSE "unknown"

\* Fault: a term without an observation is taken to have one.
OptimizedBucketUnchecked(alternatives, source, text) ==
  IF source \in MatchedSurfaces THEN graph.bucket[source] ELSE "unknown"

\* The bucket of an optimized term: that of the alternative that it names, or
\* else that of the term it comes from.
OptimizedBucket(alternatives, source, text) ==
  IF \E a \in alternatives : a.source = source /\ a.target = text /\ Observed(text)
    THEN graph.bucket[text]
    ELSE IF source \in MatchedSurfaces THEN Bucket(source) ELSE "unknown"

\* _optimized_terms, for one recommendation
OptimizedTerms(alternatives, r) ==
  {[source |-> r.source, text |-> t, action |-> r.action,
    bucket |-> OptimizedBucket(alternatives, r.source, t)] :
     t \in IF r.offered = {} THEN {r.source} ELSE r.offered}
  \union
  {[source |-> r.source, text |-> r.source, action |-> "keep", bucket |-> Bucket(r.source)] :
     a \in {r.action} \intersect {"add_precision_companion"}}

\* _warnings, without their texts: the term and the code.
Warnings ==
  {<<Raw[i].term, code>> : i \in InputTerms \ Matched, code \in {"no_match", "fallback"}}
  \union {<<s, Bucket(s)>> : s \in {t \in MatchedSurfaces : Bucket(t) # "healthy"}}
  \union {<<s, "matched_without_observation">> :
            s \in {t \in MatchedSurfaces : ~Observed(t)}}

\* Every alternative of every matched term.
AllAlternatives == UNION {Alternatives(s) : s \in MatchedSurfaces}

Response ==
  LET all == AllAlternatives
      recommendations == Recommendations
  IN [kind |-> "recall", inputs |-> {s \in MatchedSurfaces : Observed(s)},
      alternatives |-> ResponseAlternatives(all, recommendations),
      recommendations |-> recommendations,
      optimized |-> UNION {OptimizedTerms(all, r) : r \in recommendations},
      warnings |-> Warnings]

\* validate_recommendation_evidence_ids
Valid(response) ==
  \A r \in response.recommendations :
    r.evidence \subseteq response.inputs \union Targets(response.alternatives)

\* The response model refuses what analyze has put together, or accepts it.
RecallAnswer ==
  LET response == Response
  IN CASE ~request.supported -> [kind |-> "unsupported_provider"]
       [] request.supported /\ Valid(response) -> response
       [] request.supported /\ ~Valid(response) -> [kind |-> "validation_error"]

-----------------------------------------------------------------------------
\* Every recommended query is shown with its evidence among the alternatives,
\* however many those are cut to, and is a healthy surface that may be asked.
HelpIsShown ==
  answer.kind = "recall" =>
    \A r \in answer.recommendations : \A t \in r.offered :
      /\ t \in graph.active /\ graph.bucket[t] = "healthy" /\ t # r.source
      /\ \E a \in answer.alternatives : a.source = r.source /\ a.target = t

\* A response is refused only when alternatives had to be cut.
ValidUnlessCut ==
  answer.kind = "validation_error" => Cardinality(AllAlternatives) > request.max

\* A zero, too narrow or stale term is helped exactly if its concept has a
\* healthy member that may be asked, and then by the concept's primary surface
\* if that is healthy (build_relations gives it the greatest confidence).
WeakTermsAreHelped ==
  answer.kind = "recall" =>
    \A r \in answer.recommendations :
      LET s == r.source
          help == {t \in Group(s) \ {s} : graph.bucket[t] = "healthy"}
      IN HasConcept(s) /\ Bucket(s) \in {"zero", "too_narrow", "stale"} =>
           /\ r.offered = {} <=> help = {}
           /\ PrimarySurface(s) \intersect help # {} => r.offered = PrimarySurface(s)

\* An alias is only ever probed beside its canonical surface: the other way
\* round the link of the concept to its primary is better than the relation.
ProbesGoToTheAlias ==
  answer.kind = "recall" =>
    \A r \in answer.recommendations :
      r.action = "add_alias_probe" =>
        r.offered = {graph.alias} /\ r.source = graph.base[graph.alias]

\* The bucket of an optimized term is that of the query it contains, although
\* it is looked up by text in what may belong to several terms.
OptimizedTellsTheTruth ==
  answer.kind = "recall" =>
    \A t \in answer.optimized :
      t.bucket = IF t.text \in graph.active THEN Bucket(t.text) ELSE "unknown"

\* A supported request is always answered ("recommendation
\* evidence_observation_ids must reference response observations" is what the
\* response model demands of analyze).
AnswerIsValid == answer.kind # "validation_error"

=============================================================================
