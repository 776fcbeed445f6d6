\* A run goes on probing after another run met an auth error and paused the queue.
CONSTANTS
  Surfaces <- TwoSurfaces
  Runners = {a, b}
  MaxAttempts = 2
  InitialDelay = 1
  Multiplier = 2
  Ttl = 0
  Window <- AlwaysOpen
  MaxClock = 1
  MaxCrashes = 0
SPECIFICATION Spec
PROPERTY NoRequestAfterAuthError
