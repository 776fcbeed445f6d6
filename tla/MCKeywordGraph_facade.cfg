\* Every small snapshot the builder can make, and requests of every kind.
CONSTANTS
  Surfaces = {1, 2, 3}
  Strangers = {8, 9}
  SomeBuckets = {"healthy", "too_wide", "zero", "stale", "none"}
  Snapshots <- BuiltSnapshots
  RecallRequests <- SomeRecallRequests
  PlanRequests <- SomePlanRequests
SPECIFICATION Spec
INVARIANTS
  TypeOK
  HelpIsShown
  ValidUnlessCut
  WeakTermsAreHelped
  ProbesGoToTheAlias
  OptimizedTellsTheTruth
  PlanKeepsWhatItSelects
  TermsAccountedFor
  OrderedUnlessExtended
  CompanionsAlwaysTogether
