---------------------------- MODULE KeywordGraph ----------------------------
(***************************************************************************)
(* The runtime facade: calls of analyze_query_recall and build_query_plan  *)
(* on one open snapshot, one after the other.                              *)
(***************************************************************************)
EXTENDS QueryRecall, QueryPlan

vars == <<graph, request, answer, planner>>

NoRequest == [kind |-> "none"]

NoAnswer == [kind |-> "none"]

Init ==
  /\ graph \in Snapshots
  /\ request = NoRequest
  /\ answer = NoAnswer
  /\ planner = NoPlan

Ask(q) ==
  /\ request = NoRequest
  /\ request' = q
  /\ UNCHANGED <<graph, answer, planner>>

AnalyzeQueryRecall ==
  /\ request.kind = "recall"
  /\ answer = NoAnswer
  /\ answer' = RecallAnswer
  /\ UNCHANGED <<graph, request, planner>>

\* The three steps of build_query_plan.
BuildQueryPlan == ResolveConcepts \/ SelectSurfaces \/ BuildBundles

Return ==
  /\ answer # NoAnswer
  /\ request' = NoRequest
  /\ answer' = NoAnswer
  /\ planner' = NoPlan
  /\ UNCHANGED graph

Next ==
  \/ \E q \in RecallRequests \union PlanRequests : Ask(q)
  \/ AnalyzeQueryRecall
  \/ BuildQueryPlan
  \/ Return

Spec == Init /\ [][Next]_vars

-----------------------------------------------------------------------------
RecallAnswerOK ==
  /\ \A a \in answer.alternatives :
       a.source \in Surfaces /\ a.target \in Surfaces /\ a.confidence \in 0 .. 100
  /\ \A t \in answer.optimized : t.bucket \in Buckets

PlanAnswerOK ==
  /\ \A row \in answer.sheet : row.shown \subseteq Surfaces /\ row.bucket \in Buckets
  /\ answer.bundles \in Seq([type : BundleTypes \union {"fallback"},
                             term : MatchedTerms \union NoMatch,
                             query : Seq(Surfaces \union Strangers)])
  /\ Len(answer.bundles) =< request.max

TypeOK ==
  /\ graph \in Snapshots
  /\ request \in RecallRequests \union PlanRequests \union {NoRequest}
  /\ answer.kind \in {"none", "unsupported_provider", "validation_error", "recall", "plan"}
  /\ planner.stage \in {"none", "resolved", "selected"}
  /\ answer.kind = "recall" => RecallAnswerOK
  /\ answer.kind = "plan" => PlanAnswerOK

\* What the planner has at hand is what its first steps make of the request.
PlannerInv ==
  \/ planner = NoPlan
  \/ /\ request.kind = "plan"
     /\ planner.resolution = Resolution(Candidates)
     /\ \/ planner = [stage |-> "resolved", resolution |-> planner.resolution]
        \/ planner = [stage |-> "selected", resolution |-> planner.resolution,
                      selection |-> [i \in MatchedTerms |-> Selection(i)]]

\* An answer is to the request that was asked of the open snapshot.
SessionInv ==
  /\ graph \in Snapshots
  /\ request \in RecallRequests \union PlanRequests \union {NoRequest}
  /\ request = NoRequest => answer = NoAnswer /\ planner = NoPlan
  /\ answer # NoAnswer =>
       \/ request.kind = "recall" /\ answer = RecallAnswer
       \/ request.kind = "plan" /\ planner.stage = "selected" /\ answer = PlanAnswer
  /\ PlannerInv

=============================================================================
