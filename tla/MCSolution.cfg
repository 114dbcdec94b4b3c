CONSTANTS
  MinBenefit = 1
  MinCallerSavings = 1
  BatchSize = 2
  Problems <- MCProblems
  GiveUp = 1
  Worlds <- MCWorlds
  MaxArgs = 2
  Types <- MCTypes
SPECIFICATION Spec
INVARIANTS
  
  MergedAreEquivalent

  
CHECK_DEADLOCK FALSE
