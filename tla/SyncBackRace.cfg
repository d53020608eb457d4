SPECIFICATION DirectSpec
CONSTANTS
  w1 = w1
  w2 = w2
  s1 = s1
  s2 = s2
  active = active
  NoStep = NoStep
  Catalog = Catalog
  NoOwner = NoOwner
  Dead = Dead
  Steps <- MCSteps
  TddRequired <- MCTddRequired
  Writers <- MCTwoWriters
  Sessions <- MCSessions
  SessionOf <- MCSessionOf
  Inputs <- MCInputs
  SystemSession = active
  TTL = 1
  MaxRevision = 2
PROPERTIES
  SyncedCommandWritesNothingBack
