SPECIFICATION Spec
CONSTANTS
  a1 = a1
  a2 = a2
  e1 = e1
  e2 = e2
  e3 = e3
  e4 = e4
  u1 = u1
  u2 = u2
  u3 = u3
  t1 = t1
  t2 = t2
  None = None
  Accounts = {a1, a2}
  Emails = {e1, e2, e3, e4}
  Users = {u1, u2, u3}
  Tasks = {t1, t2}
  MaxVersion = 6
  Scopes <- SplitLinks
INVARIANTS UnificationsPass
CHECK_DEADLOCK FALSE
