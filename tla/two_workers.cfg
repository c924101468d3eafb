SPECIFICATION Spec
CONSTANTS
  f1 = f1
  f2 = f2
  w1 = w1
  w2 = w2
  Humans = {1, 2}
  Members = {1, 2}
  Fields = {f1}
  Required = {f1}
  Answers = {a, b}
  Blank = blank
  Null = null
  Schemas <- OneSchema
  Modes <- AnyMode
  Verdicts = {}
  UndoPairs = FALSE
  Workers = {w1, w2}
  Before <- EitherTable
  MaxSaves = 2
  MaxPublish = 2
  MaxPairs = 0
  MaxStamp = 0
  MaxFaults = 0
INVARIANTS CyclesNumberedApart OneReviewerPerField ReviewersKeepTheirCycles
CONSTRAINT Situations
CHECK_DEADLOCK FALSE
