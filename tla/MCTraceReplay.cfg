SPECIFICATION Spec
CONSTANTS
  States = {s0, s1, s2}
  InitialState = s0
  NoState = none
  Values = {1, 2, 3}
  MaxTime = 2
  MaxAdvance = 1
  Configs <- MCConfigs
INVARIANT ReplayPasses
CHECK_DEADLOCK FALSE
