SPECIFICATION FairSpec
CONSTANTS
  w1 = w1
  w2 = w2
  s1 = s1
  s2 = s2
  active = active
  NoStep = NoStep
  Catalog = Catalog
  NoOwner = NoOwner
  Dead = Dead
  Steps <- MCOneStep
  TddRequired <- MCTddRequired
  Writers <- MCWriters
  Sessions <- MCSessions
  SessionOf <- MCSessionOf
  Inputs <- MCOneInput
  TTL = 1
  MaxRevision = 2
PROPERTIES
  OrphanedScopeIsFreed
