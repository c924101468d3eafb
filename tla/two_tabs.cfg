SPECIFICATION Spec
CONSTANTS
  f1 = f1
  f2 = f2
  s1 = s1
  s2 = s2
  Null = Null
  Fields = {f1, f2}
  Required = {f1, f2}
  Values = {"a", "b"}
  Definitions <- Definitions2
  Revisions <- Removals
  Trigger <- Conditional
  Showing = "a"
  Schema <- Both
  Responses <- AnyResponse
  Sessions = {s1, s2}
  MaxVersions = 2
  MaxRounds = 2
  MaxSaves = 2
INVARIANT AnswersHaveProvenance
PROPERTY ClosedRoundsAreFrozen
