SPECIFICATION TornSpec
CONSTANTS
  i1 = i1
  i2 = i2
  i3 = i3
  k1 = k1
  k2 = k2
  sa = sa
  sb = sb
  NoItem = NoItem
  NoItemStep = NoItemStep
  NoKey = NoKey
  Items <- MCFewItems
  StepOf <- MCFewStepOf
  Overlapping = {}
  ItemSteps <- MCSteps
  Keys <- MCKeys
  Callers <- MCKeys
  KeyOf <- MCKeyOf
PROPERTIES
  OnlyHolderAdvances
