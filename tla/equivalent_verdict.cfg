SPECIFICATION Spec
CONSTANTS
  f1 = f1
  f2 = f2
  Humans = {1}
  Members = {1}
  Fields = {f1}
  Required = {f1}
  Answers = {a, b}
  Blank = blank
  Null = null
  Schemas <- OneSchema
  Modes <- AutoMode
  Verdicts = {"equivalente"}
  UndoPairs = FALSE
  Workers = {w1}
  Before <- AsIssued
  MaxSaves = 2
  MaxPublish = 1
  MaxPairs = 1
  MaxStamp = 2
  MaxFaults = 0
INVARIANTS EquivalentPublishesHuman
CHECK_DEADLOCK FALSE
