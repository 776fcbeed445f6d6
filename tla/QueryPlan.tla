------------------------------ MODULE QueryPlan ------------------------------
(***************************************************************************)
(* QueryPlanner.build: the terms of a request are resolved to concepts,    *)
(* their surfaces are routed by what is known of their recall, and the     *)
(* queries that come out are put in order and cut to a limit.              *)
(***************************************************************************)
EXTENDS SnapshotGraph

CONSTANT PlanRequests

Strengths == {"required", "preferred", "nice_to_have"}

TermTypes == [text : Surfaces \union Strangers, strength : Strengths]

\* terms: requirement_terms; mentions: the surfaces that title, jd_text and
\* notes mention, each text by place, whether the snapshot has them or not;
\* max: max_query_bundles; exploration: include_exploration.
PlanRequestTypes ==
  [kind : {"plan"}, terms : Seq(TermTypes), mentions : Seq(Surfaces),
   max : 1 .. 20, exploration : BOOLEAN]

ASSUME PlanAssumption ==
  \A q \in PlanRequests :
    q \in PlanRequestTypes /\ (q.terms # <<>> \/ q.mentions # <<>>)

\* What QueryPlanner.build has at hand: resolution, and then selection.
VARIABLE planner

NoPlan == [stage |-> "none"]

-----------------------------------------------------------------------------
(* ConceptResolver *)

\* _candidate_terms: by their positions, which stand for the source order; of
\* the texts that are mentioned those that the snapshot knows.
Candidates ==
  LET Mention(s) == [text |-> s, strength |-> "preferred"]
      found == request.terms
                 \o [n \in DOMAIN request.mentions |-> Mention(request.mentions[n])]
  IN [i \in {j \in DOMAIN found :
               j =< Len(request.terms) \/ found[j].text \in graph.active} |-> found[i]]

\* setdefault: the first candidate of each text.
Distinct(candidates) ==
  {i \in DOMAIN candidates :
     \A j \in DOMAIN candidates : j < i => candidates[j].text # candidates[i].text}

\* resolve: each distinct candidate is matched, has no match or is rejected.
Resolution(candidates) ==
  LET distinct == Distinct(candidates)
      passed == {i \in distinct : candidates[i].text \notin graph.blocked}
      noMatch == {i \in passed : candidates[i].text \notin graph.active}
      matched == {i \in passed : HasConcept(candidates[i].text)}
  IN [candidates |-> candidates, noMatch |-> noMatch, matched |-> matched,
      rejected |-> distinct \ (noMatch \union matched)]

ResolveConcepts ==
  /\ request.kind = "plan"
  /\ planner = NoPlan
  /\ planner' = [stage |-> "resolved", resolution |-> Resolution(Candidates)]
  /\ UNCHANGED <<graph, request, answer>>

Text(i) == planner.resolution.candidates[i].text

Strength(i) == planner.resolution.candidates[i].strength

NoMatch == planner.resolution.noMatch

MatchedTerms == planner.resolution.matched

-----------------------------------------------------------------------------
(* SurfaceSelector *)

Healthy(s) == s \in graph.active /\ Bucket(s) = "healthy"

\* _companions and _graph_companion: a companion that the request names has a
\* source order of its own, another one that of its term.
Companions(i) ==
  LET strong == {OtherEnd(e, Text(i)) : e \in {f \in EdgesOf(Text(i)) : IsStrong(f)}}
      Order(t) == IF \E j \in MatchedTerms : Text(j) = t
                    THEN CHOOSE j \in MatchedTerms : Text(j) = t
                    ELSE i
  IN {[surface |-> t, key |-> <<-LinkConfidence(t), Order(t), t>>] :
        t \in {u \in strong : Healthy(u) /\ HasConcept(u)}}

\* _aliases, whatever is known of their recall.
Aliases(s) ==
  {[surface |-> t, key |-> <<-RelationConfidence(s, t), t>>] : t \in RelatedTo(s)}

\* select, for one matched term: the type of the bundle that it is selected
\* for and its companions or aliases, or the reason why it is rejected.
Selection(i) ==
  LET bucket == Bucket(Text(i))
      companions == Companions(i)
      aliases == Aliases(Text(i))
      Choice(route, helpers) == [route |-> route, helpers |-> helpers]
  IN CASE bucket = "healthy" -> Choice("anchor", {})
       [] bucket = "too_wide" ->
            Choice(IF companions # {} THEN "precision" ELSE "too_wide_without_companion",
                   companions)
       [] bucket \in {"zero", "too_narrow"} ->
            Choice(IF aliases # {} THEN "alias_probe" ELSE "zero_recall", aliases)
       [] bucket = "stale" ->
            Choice(IF aliases # {} THEN "alias_probe" ELSE "stale_observation", aliases)
       [] bucket = "unknown" ->
            Choice(IF request.exploration THEN "exploration" ELSE "policy_blocked", {})

SelectSurfaces ==
  /\ planner.stage = "resolved"
  /\ planner' = [stage |-> "selected", resolution |-> planner.resolution,
                 selection |-> [i \in MatchedTerms |-> Selection(i)]]
  /\ UNCHANGED <<graph, request, answer>>

Route(i) == planner.selection[i].route

Helpers(i) == planner.selection[i].helpers

Selected == {i \in MatchedTerms : Route(i) \in BundleTypes}

-----------------------------------------------------------------------------
(* BundleBuilder *)

Best(helpers) == CHOOSE x \in helpers : \A y \in helpers \ {x} : LexLess(x.key, y.key)

\* The surfaces of the one query of a bundle, which make its text; a query of
\* two is boolean, a query of one exact.
Query(i) ==
  CASE Route(i) = "precision" -> <<Text(i), Best(Helpers(i)).surface>>
    [] Route(i) = "alias_probe" -> <<Best(Helpers(i)).surface>>
    [] OTHER -> <<Text(i)>>

Bundle(i) == [type |-> Route(i), term |-> i, query |-> Query(i)]

\* The surfaces with which a display text begins, words at a time.
Beginnings[s \in Surfaces] ==
  IF graph.prefix[s] = Null THEN {}
                            ELSE {graph.prefix[s]} \union Beginnings[graph.prefix[s]]

\* _selected_for_label: the first selected term whose display text the label
\* begins with.
LabelOwner(i) ==
  CHOOSE j \in Selected :
    /\ Text(j) = Text(i) \/ Text(j) \in Beginnings[Text(i)]
    /\ \A k \in Selected : k < j => Text(k) \notin {Text(i)} \union Beginnings[Text(i)]

TypeRank(type) ==
  CASE type = "anchor" -> 10 [] type = "precision" -> 20
    [] type = "alias_probe" -> 30 [] type = "exploration" -> 40

StrengthRank(strength) ==
  CASE strength = "required" -> 0 [] strength = "preferred" -> 10
    [] strength = "nice_to_have" -> 20

\* Fault: the source order decides alone.
BundleSortKeyBySource(i) ==
  <<TypeRank(Route(i)), LabelOwner(i), graph.labels[Route(i)][Text(i)]>>

\* bundle_sort_key: the qualities only come after the source order, which
\* bundles share that share all the rest but the label.
BundleSortKey(i) ==
  <<TypeRank(Route(i)), StrengthRank(Strength(LabelOwner(i))),
    LabelOwner(i), graph.labels[Route(i)][Text(i)]>>

Precedes(i, j) == LexLess(BundleSortKey(i), BundleSortKey(j))

\* The terms of a set in the order of their bundles.
InOrder(terms) ==
  [n \in 1 .. Cardinality(terms) |->
     CHOOSE i \in terms : Cardinality({j \in terms : Precedes(j, i)}) = n - 1]

\* Fault: the bundles are cut before equal queries are removed.
BundlesCutFirst ==
  LET cut == {i \in Selected :
                Cardinality({j \in Selected : Precedes(j, i)}) < request.max}
      sorted == InOrder({i \in cut :
                  \A j \in cut \ {i} : Query(j) = Query(i) => Precedes(i, j)})
  IN [n \in DOMAIN sorted |-> Bundle(sorted[n])]

\* The first of the selected terms with each query.
FirstOfQuery ==
  {i \in Selected : \A j \in Selected \ {i} : Query(j) = Query(i) => Precedes(i, j)}

\* build, for selected terms: sorted, without repeated queries, and then cut.
Bundles ==
  LET sorted == InOrder(FirstOfQuery)
  IN [n \in {m \in DOMAIN sorted : m =< request.max} |-> Bundle(sorted[n])]

FallbackBundle(i) == [type |-> "fallback", term |-> i, query |-> <<Text(i)>>]

\* Fault: only terms without a match fall back.
FallbackTermsWithoutMatch == NoMatch

\* Terms without a match, or else matched terms, all of which were rejected if
\* nothing was selected.
FallbackTerms == IF NoMatch # {} THEN NoMatch ELSE MatchedTerms

\* _fallback_bundles: the first of them.
Fallback ==
  IF FallbackTerms = {} THEN <<>>
  ELSE <<FallbackBundle(CHOOSE i \in FallbackTerms : \A k \in FallbackTerms : i =< k)>>

-----------------------------------------------------------------------------
(* QueryPlanner *)

\* _concept_sheet, for one selected term.
SheetRow(i) ==
  [text |-> Text(i), bucket |-> Bucket(Text(i)),
   shown |-> {Text(i)} \union {h.surface : h \in Helpers(i)}]

Rejections ==
  {<<Text(i), IF Text(i) \in graph.blocked THEN "blocked" ELSE "no_active_concept">> :
     i \in planner.resolution.rejected}
  \union {<<Text(i), Route(i)>> : i \in MatchedTerms \ Selected}

\* _warnings: code and term
PlanWarnings(bundles) ==
  {<<"no_match", Text(i)>> : i \in NoMatch}
  \union {<<"stale_observation", Text(i)>> :
            i \in {j \in Selected : Bucket(Text(j)) = "stale"}}
  \union {<<"unknown_observation", Text(i)>> :
            i \in {j \in Selected : Route(j) = "exploration"}}
  \union {<<"fallback", bundles[n].query[1]>> :
            n \in {m \in DOMAIN bundles : bundles[m].type = "fallback"}}

PlanAnswer ==
  LET bundles == IF Selected # {} THEN Bundles ELSE Fallback
  IN [kind |-> "plan", sheet |-> {SheetRow(i) : i \in Selected}, bundles |-> bundles,
      rejected |-> Rejections, warnings |-> PlanWarnings(bundles)]

BuildBundles ==
  /\ planner.stage = "selected"
  /\ answer.kind = "none"
  /\ answer' = PlanAnswer
  /\ UNCHANGED <<graph, request, planner>>

-----------------------------------------------------------------------------
\* The query of every selected term is in the plan, also if another term has
\* asked for it first, unless the plan is full.
PlanKeepsWhatItSelects ==
  answer.kind = "plan" =>
    LET bundles == answer.bundles
    IN \A i \in Selected :
         \/ Len(bundles) = request.max
         \/ \E n \in DOMAIN bundles : bundles[n].query = Query(i)

\* Every term ends up in exactly one of the concept sheet, the rejections and
\* the warning of terms without a match; and a plan has no query only if each
\* of its terms was blocked or has no concept.
TermsAccountedFor ==
  answer.kind = "plan" =>
    /\ \A i \in DOMAIN planner.resolution.candidates :
         LET inSheet == \E row \in answer.sheet : row.text = Text(i)
             inRejected == \E r \in answer.rejected : r[1] = Text(i)
             inWarning == <<"no_match", Text(i)>> \in answer.warnings
         IN /\ inSheet \/ inRejected \/ inWarning
            /\ ~(inSheet /\ inRejected) /\ ~(inSheet /\ inWarning)
            /\ ~(inRejected /\ inWarning)
    /\ answer.bundles = <<>> <=>
         \A i \in DOMAIN planner.resolution.candidates :
           \E r \in answer.rejected :
             r[1] = Text(i) /\ r[2] \in {"blocked", "no_active_concept"}

\* Two terms of a plan, one of which stands for what the other begins with.
ExtendsSelected == \E i, j \in Selected : Text(j) \in Beginnings[Text(i)]

BeforeBundle(b, c) ==
  LexLess(<<StrengthRank(Strength(b.term)), b.term>>,
          <<StrengthRank(Strength(c.term)), c.term>>)

\* Queries of the same type come in the order of their terms' strengths, and
\* then of the request, unless a selected surface begins with another one.
OrderedUnlessExtended ==
  answer.kind = "plan" /\ Selected # {} /\ ~ExtendsSelected =>
    \A m, n \in DOMAIN answer.bundles :
      LET b == answer.bundles[m]
          c == answer.bundles[n]
      IN m < n /\ b.type = c.type => BeforeBundle(b, c)

\* A precision query is only ever made of two surfaces that share exactly half
\* of the windows of some kind, and of which the other half has neither: the
\* thresholds of support and pmi admit nothing else of a counted edge.
CompanionsAlwaysTogether ==
  answer.kind = "plan" =>
    \A n \in DOMAIN answer.bundles :
      LET bundle == answer.bundles[n]
      IN bundle.type = "precision" =>
           \E e \in graph.edges :
             {e.a, e.b} = {bundle.query[1], bundle.query[2]} /\ HalfOfTheWindows(e)

\* Of queries of the same type, one for a required term comes before one for a
\* term that is nice to have (system design 06, "requirement_strength": what is
\* required takes precedence).
RequiredFirst ==
  answer.kind = "plan" /\ Selected # {} =>
    \A m, n \in DOMAIN answer.bundles :
      LET b == answer.bundles[m]
          c == answer.bundles[n]
      IN m < n /\ b.type = c.type =>
           ~ /\ Strength(b.term) = "nice_to_have"
             /\ Strength(c.term) = "required"

=============================================================================
