SPECIFICATION TornSpec
CONSTANTS
  i1 = i1
  i2 = i2
  i3 = i3
  k1 = k1
  k2 = k2
  sa = sa
  sb = sb
  NoItem = NoItem
  NoItemStep = NoItemStep
  NoKey = NoKey
  Items <- MCItems
  StepOf <- MCStepOf
  Overlapping <- MCOverlapping
  ItemSteps <- MCSteps
  Keys <- MCKeys
  Callers <- MCKeys
  KeyOf <- MCKeyOf
INVARIANTS
  WorkTypeOK
  ClaimsAgreeWithRows
  StartedAfterDependencies
  TaskStatusIsDerived
  TaskNeverBlocked
  ScopesDisjoint
  BindingFollowsClaim
PROPERTIES
  WholeSessionAdvancesItsOwn
