SPECIFICATION Spec
CONSTANTS
  c1 = c1
  c2 = c2
  h1 = h1
  h2 = h2
  d1 = d1
  d2 = d2
  j1 = j1
  j2 = j2
  Jobs = {j1, j2}
  Documents = {d1, d2}
  Codes = {c1, c2}
  Machines = {m1, m2}
  Pages = {p1}
  HashOf <- MCHashOf
  MaxConsecutiveFailures = 2
  MaxTickFailures = 2
  Scopes <- RunScopes
  None = None
INVARIANT CompletedRunsPublishedAll
INVARIANT LatestBelongsToRound
PROPERTY NoRunIsMarkedHalfway
PROPERTY RunsEnd
CHECK_DEADLOCK FALSE
