\* A failed observation after a successful one of the same query.
CONSTANTS
  s1 = s1
  s2 = s2
  cts = cts
  other = other
  q1 = q1
  q2 = q2
  none = none
  Null = none
  Cts = cts
  BuiltAt = 3
  MaxAge = 1
  HealthyMin = 1
  HealthyMax = 5
  Surfaces = {s1}
  Serving = {s1}
  Providers = {cts}
  Queries = {q1}
  Times = {2, 3}
  Totals = {3}
  Configurations <- CliConfiguration
  MaxObservations = 2
  MaxLinks = 0
  MaxWrites = 0
SPECIFICATION Spec
INVARIANT UsableObservationKept
