\* A healthy term whose evidence was cut from the response.
CONSTANTS
  Surfaces = {1, 2, 3}
  Strangers = {8, 9}
  SomeBuckets = {"healthy", "zero"}
  Snapshots <- RelatedSnapshots
  RecallRequests <- SomeRecallRequests
  PlanRequests <- SomePlanRequests
SPECIFICATION Spec
INVARIANT AnswerIsValid
