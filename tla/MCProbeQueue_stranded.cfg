\* A run that dies leaves its jobs running for ever.
CONSTANTS
  Surfaces <- OneSurface
  Runners = {a}
  MaxAttempts = 2
  InitialDelay = 1
  Multiplier = 2
  Ttl = 0
  Window <- AlwaysOpen
  MaxClock = 2
  MaxCrashes = 1
SPECIFICATION FairSpec
PROPERTY EverySurfaceIsProbed
