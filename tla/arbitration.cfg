SPECIFICATION Spec
CONSTANTS
  h1 = h1
  h2 = h2
  u1 = u1
  f1 = f1
  f2 = f2
  Members = {h1, h2, u1}
  Coders = {h1, h2}
  Fields = {f1, f2}
  Owner <- OwnerOfEach
  Choices = {"humano", "llm"}
  Scopes <- ArbitrationScopes
  Sessions = {s1, s2}
  s1 = s1
  s2 = s2
  Null = Null
  MaxCycles = 2
  MaxToggles = 1
INVARIANTS ContestsAreInQueue PhasesInOrder ArbitratorsAreEligible
PROPERTIES VerdictsStand
