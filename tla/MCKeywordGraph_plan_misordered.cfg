\* A term that is nice to have and begins with a required one.
CONSTANTS
  Surfaces = {1, 2, 3}
  Strangers = {8, 9}
  SomeBuckets = {"healthy", "zero"}
  Snapshots <- ExtendedSnapshots
  RecallRequests <- SomeRecallRequests
  PlanRequests <- SomePlanRequests
SPECIFICATION Spec
INVARIANT RequiredFirst
