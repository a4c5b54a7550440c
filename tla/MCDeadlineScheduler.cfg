SPECIFICATION Spec
CONSTANTS
  Segments = {1, 2, 3}
  Robots = {1, 2, 3}
  Resources = {1}
  Curves = {1, 2, 3}
  Points = {0, 1, 2}
  Distance <- Line
  Instances <- CoreInstances
  AssignmentChoices <- MCAssignments
INVARIANTS
  FeasibleVerifies
  DeadlockExact
PROPERTIES
  NoRescueByOthers
  RefinesTree
CHECK_DEADLOCK FALSE
