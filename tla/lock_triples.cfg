SPECIFICATION Spec
CONSTANTS
  d1 = d1
  d2 = d2
  c1 = c1
  c2 = c2
  m1 = m1
  t1 = t1
  t2 = t2
  t3 = t3
  Documents = {d1}
  Coders = {c1, c2}
  Arbitrators = {m1}
  Sessions = {t1, t2, t3}
  Kinds <- Chained
INVARIANTS DeadlocksAreKnown ProjectBeforeDocument
SYMMETRY AnySession
CHECK_DEADLOCK FALSE
