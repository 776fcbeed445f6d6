\* Two processes run probe-cts on one surface, and one of them may die.
CONSTANTS
  Surfaces <- OneSurface
  Runners = {a, b}
  MaxAttempts = 3
  InitialDelay = 1
  Multiplier = 1
  Ttl = 0
  Window <- AlwaysOpen
  MaxClock = 2
  MaxCrashes = 1
SPECIFICATION Spec
SYMMETRY RunnerSymmetry
INVARIANTS
  LeaseExclusive
  RequestsBounded
  AttemptsRecorded
  LeaseHasOwner
  OpenJobsBounded
PROPERTIES
  AttemptsOnlyGrow
  ClosedJobsStayClosed
