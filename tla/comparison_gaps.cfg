SPECIFICATION Spec
CONSTANTS
  c1 = c1
  c2 = c2
  r1 = r1
  r2 = r2
  f1 = f1
  f2 = f2
  a = a
  b = b
  Members = {c1, c2, r1, r2}
  Fields = {f1, f2}
  Answers = {a, b}
  Empty = Empty
  Llm = Llm
  Null = Null
  Sessions = {s1, s2}
  Scopes <- GapScopes
INVARIANTS VerdictsDecideStatus CompleteCodingsAreConcluded CommentsFollowVerdicts
PROPERTIES OneTieBreak StartedWorkStays
CHECK_DEADLOCK FALSE
