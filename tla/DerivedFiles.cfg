SPECIFICATION DerivedSpec
CONSTANTS
  ChangeIds = {p1, p2}
  Missing = none
  MaxVersion = 1
  MaxChangeRows = 3
  MaxApplies = 2
  Builtins = {rb}
  Projects = {rp}
  Defaults = {rb}
  Environments = {e1, e2}
  Native = {e1}
  Versions = {v1, v2}
  ProfileIds = {p1}
  Nothing = none
  MaxProfileRows = 2
  MaxAgentCommands = 3
  Rules = {r1}
  PolicyIds = {p1, p2}
  TopLevel = {t1}
  Nested = {t2}
  Unset = none
  MaxPolicyRows = 2
  MaxWaivers = 1
  Commands = {"mvp.concept", "mvp.design", "mvp.tech", "deploy", "mvp.architecture", "mvp.plan",
              "feature.init", "feature.plan", "mvp.implement", "feature.implement",
              "consolidate", "validate", "bootstrap"}
  MaxCommands = 3
INVARIANTS
  DerivedTypeOK
  DerivedFilesFollow
  WaiverNeverUnblocks
CHECK_DEADLOCK FALSE
