CONSTANTS
  MaxAdjacent = 3
  MaxArgs = 10
  MaxNodes = 50
  MinSavings = 1
  UseSizeModel = FALSE
  Fuel = 30
  MaxOutlined = 2
  Functions <- MCFunctions
  Arguments <- MCArguments
SPECIFICATION Spec
INVARIANTS
  
  SameBehaviour
CHECK_DEADLOCK FALSE
