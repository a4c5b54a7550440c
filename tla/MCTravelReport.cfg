SPECIFICATION Spec
CONSTANTS
  Segments = {1, 2, 3}
  Robots = {1, 2, 3}
  Resources = {1}
  Curves = {1, 2, 3}
  Points = {0, 1, 2}
  Distance <- Line
  Instances <- ObjectiveInstances
INVARIANT TravelIsTotal
CHECK_DEADLOCK FALSE
