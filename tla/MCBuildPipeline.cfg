\* Two commands at a time, four in all, any of which may be killed.
SPECIFICATION Spec
CONSTANTS
  jd1 = jd1
  jd2 = jd2
  Blocked = Blocked
  BadLine = BadLine
  c1 = c1
  c2 = c2
  Commands = {c1, c2}
  Texts <- MCTexts
  JdOrder <- MCJdOrder
  TextOrder <- MCTextOrder
  ByLength <- MCTextOrder
  SectionsOf <- MCSectionsOf
  Aliases <- MCAliases
  Versions <- MCVersions
  QuerySafe <- MCQuerySafe
  Files <- MCFiles
  MaxStarts = 4
  MaxJobs = 1
INVARIANTS TypeOK ImportsAddUp EvidenceAgrees GraphAgrees EdgesCounted
PROPERTIES EvidenceKept RebuildsImplemented
CHECK_DEADLOCK FALSE
SYMMETRY Symmetric
