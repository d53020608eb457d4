SPECIFICATION MCStoredSpec
CONSTANTS
  a = a
  b1 = b1
  none = none
  c1 = c1
  c2 = c2
  r1 = r1
  r2 = r2
  n1 = n1
  n2 = n2
  orig = orig
  m1 = m1
  e1 = e1
  e2 = e2
  l1 = l1
  Step = "this"
  NoStep = "none"
  OtherStep = "another"
  Original = orig
  MergeIds <- MCMergeIds
  Versions <- MCVersions
  Evidence <- MCEvidence
  Links <- MCLinks
  MaxEdits = 1
  MaxStarts = 2
  NoText = none
  Summary = a
  Entry = "index"
  Existing = {"index"}
  Commands <- MCProcesses
  Patches <- MCPatches
  Payloads <- MCPayloads
  Operations <- MCOperations
  Notes <- MCNotes
  StepRows <- MCStepRows
  MaxRevision = 2
  JobLimit = 1
  MaxJobs = 2
  MaxPasses = 2
  Artifacts <- MCArtifacts
  Records <- MCRecords
  Scopes <- MCScopes
  Contents <- MCIds
  Namespaces <- MCNamespaces
  Indexers <- MCProcesses
  None = none
  ProposalIds <- MCProposals
  Types <- MCTypes
  Appliers <- MCProcesses
  Absent = none
  MaxBranch = 2
  Ids <- MCIds
  Workers <- MCProcesses
  Nothing = none
  MaxCommands = 3
INVARIANTS
  StoredTypeOK
  NothingLostSilently
  MergedStepIsPlanned
  RowsFollowFiles
  RatifiedStaysComplete
  NothingElseIsForgotten
  ArtifactHitsAreCurrent
  StatusTellsEffect
  CleanupIsFresh
  RemovedStaysRemoved
PROPERTIES
  OnlySeenEntriesAreRemoved
  CleanedPlanKeepsSteps
  OnlyLoadedIsRemoved
SYMMETRY StoredSymmetry
CHECK_DEADLOCK FALSE
