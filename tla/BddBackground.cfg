SPECIFICATION BddSpec
CONSTANTS
  MaxFeatures = 1
  MaxScenarios = 1
  MaxSteps = 3
  MaxBddLines = 6
INVARIANT ScenariosRunTheirSteps
CHECK_DEADLOCK FALSE
