SPECIFICATION FairSpec
CONSTANTS
  f1 = f1
  f2 = f2
  Humans = {1}
  Members = {1}
  Fields = {f1}
  Required = {f1}
  Answers = {a, b}
  Blank = blank
  Null = null
  Schemas <- OneSchema
  Modes <- AutoMode
  Verdicts = {}
  UndoPairs = FALSE
  Workers = {w1}
  Before <- AnyOrder
  MaxSaves = 2
  MaxPublish = 2
  MaxPairs = 1
  MaxStamp = 3
  MaxFaults = 1
PROPERTIES RejectsOnlyChanges QueueDrains ImplementsOutbox
INVARIANTS TypeOK RequestIsCurrent NoFalseConsensus
CHECK_DEADLOCK FALSE
