SPECIFICATION Spec
CONSTANTS
  f1 = f1
  f2 = f2
  Humans = {1}
  Members = {1}
  Fields = {f1}
  Required = {f1}
  Answers = {a, b}
  Blank = blank
  Null = null
  Schemas <- OneSchema
  Modes <- AutoMode
  Verdicts = {"contesta_llm"}
  UndoPairs = FALSE
  Workers = {w1, w2}
  Before <- AsIssued
  MaxSaves = 2
  MaxPublish = 2
  MaxPairs = 0
  MaxStamp = 0
  MaxFaults = 1
INVARIANT NoFalseConsensus
CHECK_DEADLOCK FALSE
