SPECIFICATION Spec
CONSTANTS
  w1 = w1
  w2 = w2
  s1 = s1
  s2 = s2
  active = active
  NoStep = NoStep
  Catalog = Catalog
  NoOwner = NoOwner
  Dead = Dead
  Steps <- MCSteps
  TddRequired <- MCTddRequired
  Writers <- MCWriters
  Sessions <- MCSessions
  SessionOf <- MCSessionOf
  Inputs <- MCInputs
  TTL = 1
  MaxRevision = 3
SYMMETRY WriterSymmetry
INVARIANTS
  TypeOK
  CompletedAfterDependencies
  CompletedWithEvidence
  AtMostOneInProgress
  NeverWedged
  BaseIsCurrent
PROPERTIES
  AcceptedOverUnchangedStep
  NothingLost
  LiveLeaseIsRespected
  LifecycleSpec
