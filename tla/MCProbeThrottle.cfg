\* One process, more calls than places.  It stops when every call is over.
CONSTANTS
  Throttlers = {p}
  Callers = {x, y, z}
  Concurrency = 2
  Interval = 3
  Jitter = 1
  MaxClock = 6
SPECIFICATION FairSpec
INVARIANTS
  StartsSpaced
PROPERTIES
  CallsServed
CHECK_DEADLOCK FALSE
