SPECIFICATION CallSpec
CONSTANTS
  Parts = {"pointer_rollout"}
  Segments = {1, 2, 3, 4}
  Robots = {1, 2}
  Resources = {1, 2}
  Curves = {1, 2, 3, 4}
  Points = {0, 1}
  Distance <- Line
  Instances <- ResourceInstances
  Calls <- MCCalls
  RepairUnits = {1, 2, 3}
  RepairStarts <- MCStarts
  RepairConfigs <- MCRepairConfigs
  PointerInstances <- MCPointerInstances
  Modes = {"pointer", "teacher", "rebuilt", "static"}
  TeacherPlans <- AllPlans
  States = {s0, s1, s2}
  InitialState = s0
  NoState = noState
  Values = {1, 2}
  MaxTime = 3
  MaxAdvance = 2
  AnytimeConfigs <- MCAnytimeConfigs
  None = nobody
  CostTables <- MCCostTables
  Infinite = 50
  Objectives = {1, 2}
  TargetScore = 1
  Amounts <- MCAmounts
  RepairIterations = 5
  Budgets = {0, 4}
  UnitCount = 2
  SolverInstances <- MCSolverInstances
  NoPlan = 9
  Forbidden = 9
  SolverIterations = 5
  DestroyCount = 1
  BeamWidth = 2
  SearchNodes = 2
INVARIANT RoundTripSchedules
CHECK_DEADLOCK FALSE
