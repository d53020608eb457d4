SPECIFICATION HistorySpec
CONSTANTS
  w1 = w1
  w2 = w2
  s1 = s1
  active = active
  NoStep = NoStep
  Catalog = Catalog
  NoOwner = NoOwner
  Dead = Dead
  Steps <- MCSteps
  TddRequired <- MCSteps
  Writers <- MCWriters
  Sessions <- MCSessions
  SessionOf <- MCSessionOf
  Inputs <- MCInputs
  TTL = 1
  MaxRevision = 3
INVARIANTS
  CanonicalProgressIsValid
