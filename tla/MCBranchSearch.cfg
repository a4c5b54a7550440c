SPECIFICATION SearchSpec
CONSTANTS
  Segments = {1, 2, 3}
  Robots = {1, 2, 3}
  Resources = {1}
  Curves = {1, 2, 3}
  Points = {0, 1, 2}
  Distance <- Line
  Instances <- SearchInstances
  Searches <- MCSearches
  AssignmentChoices <- MCAssignments
  Weights <- MCWeights
INVARIANTS
  InfeasibleIsProved
  OptimalIsOptimal
  ReturnedPlanVerifies
CHECK_DEADLOCK FALSE
