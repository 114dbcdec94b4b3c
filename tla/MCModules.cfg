CONSTANT Inputs <- MCInputs
SPECIFICATION Spec
INVARIANTS
  AlignedTheSame
  
  NeededAndNoMore
  
CHECK_DEADLOCK FALSE
