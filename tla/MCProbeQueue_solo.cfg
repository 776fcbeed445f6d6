\* One process runs probe-cts again and again, and a run may be killed.
CONSTANTS
  Surfaces <- TwoSurfaces
  Runners = {a}
  MaxAttempts = 3
  InitialDelay = 1
  Multiplier = 2
  Ttl = 1
  Window <- AlwaysOpen
  MaxClock = 3
  MaxCrashes = 1
SPECIFICATION FairSpec
INVARIANTS
  AuthErrorStopsQueue
  TtlSpacing
  BackoffRespected
PROPERTIES
  EverySurfaceIsProbedUnlessStranded
  DueJobsAreLeased
  LifecycleImplemented
