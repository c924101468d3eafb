SPECIFICATION Spec
CONSTANTS
  f1 = f1
  f2 = f2
  Humans = {1}
  Members = {1}
  Fields = {f1, f2}
  Required = {f1, f2}
  Answers = {a, b}
  Blank = blank
  Null = null
  Schemas <- OneSchema
  Modes <- AutoMode
  Verdicts = {}
  UndoPairs = FALSE
  Workers = {w1}
  Before <- AsIssued
  MaxSaves = 2
  MaxPublish = 1
  MaxPairs = 0
  MaxStamp = 0
  MaxFaults = 0
INVARIANTS IncompleteCodingClosesCycle
CHECK_DEADLOCK FALSE
