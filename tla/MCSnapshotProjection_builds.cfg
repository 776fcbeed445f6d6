\* One build after another, from every database of the bound, with every kind
\* of configuration, while other commands write between two SELECTs.
CONSTANTS
  s1 = s1
  s2 = s2
  cts = cts
  other = other
  q1 = q1
  q2 = q2
  none = none
  Null = none
  Cts = cts
  BuiltAt = 3
  MaxAge = 1
  HealthyMin = 1
  HealthyMax = 5
  Surfaces = {s1, s2}
  Serving = {s1}
  Providers = {cts, other}
  Queries = {q1, q2}
  Times = {1, 3}
  Totals = {3}
  Configurations <- SomeConfigurations
  MaxObservations = 2
  MaxLinks = 2
  MaxWrites = 1
SPECIFICATION Spec
SYMMETRY QuerySymmetry
INVARIANTS
  HealthyIsEarned
  QuietBuildIsDecided
  ObservedSurfacesProjected
  ReportLagsSnapshot
