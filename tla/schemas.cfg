SPECIFICATION Spec
CONSTANTS
  f1 = f1
  f2 = f2
  Humans = {1}
  Members = {1}
  Fields = {f1, f2}
  Required = {f1}
  Answers = {a, b}
  Blank = blank
  Null = null
  Schemas <- TwoSchemas
  Modes <- AutoMode
  Verdicts = {"equivalente", "admite_erro"}
  UndoPairs = TRUE
  Workers = {w1}
  Before <- AsIssued
  MaxSaves = 2
  MaxPublish = 1
  MaxPairs = 1
  MaxStamp = 0
  MaxFaults = 0
INVARIANTS SnapshotsCurrent
PROPERTIES VerdictsKept OpensOnlyDisagreements
CHECK_DEADLOCK FALSE
