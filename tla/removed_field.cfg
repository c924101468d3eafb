SPECIFICATION Spec
CONSTANTS
  f1 = f1
  f2 = f2
  Humans = {1}
  Members = {1}
  Fields = {f1, f2}
  Required = {}
  Answers = {a, b}
  Blank = blank
  Null = null
  Schemas <- TwoSchemas
  Modes <- AutoMode
  Verdicts = {}
  UndoPairs = FALSE
  Workers = {w1}
  Before <- AsIssued
  MaxSaves = 2
  MaxPublish = 1
  MaxPairs = 1
  MaxStamp = 0
  MaxFaults = 0
PROPERTIES RefusalsAreTransient
CHECK_DEADLOCK FALSE
