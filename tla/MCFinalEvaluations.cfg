SPECIFICATION FinalSpec
CONSTANTS
  Parts = {"sealed_final", "frozen_evaluation", "warm_start_pilot"}
  Preflights = {p1}
  Sealers = {s1}
  Generators = {g1, g2}
  Evaluators = {e1, e2}
  MaxVersion = 2
  Order <- MCOrder
  Frozen = {"frozen"}
  Stress = {"control"}
  Negative = {"control"}
  Cell <- MCCell
  Learned = {"edge_mlp"}
  Context = {"greedy"}
  Strong = {"order_aware_lns"}
  Floor <- MCFloor
  PilotCells = {1, 2}
  Launches = {1, 2, 3}
  CellOf <- MCCellOf
  Versions = {1, 2}
  MaxEdits = 2
  MaxTargets = 2
  MaxSeals = 1
INVARIANTS
  FrozenOpenedOnce
  
  
  
PROPERTY AttemptSettles
CHECK_DEADLOCK FALSE
