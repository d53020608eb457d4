SPECIFICATION ViewsSpec
CONSTANTS
  Commands = {"mvp.concept", "validate", "bootstrap"}
  MaxCommands = 2
INVARIANT CanonicalIsEntered
CHECK_DEADLOCK FALSE
