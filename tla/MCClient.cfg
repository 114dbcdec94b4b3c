CONSTANTS
  w1 = w1
  w2 = w2
  a = a
  b = b
  d = d
  Main = Main
  None = None
  Worker = {w1, w2}
  Call = {a, b}
  TopCalls = {a}
  Outside = {b}
  Serves = FALSE
  SubCalls <- MCSubCalls
SPECIFICATION Spec
INVARIANTS
  PermitsConserved
  NoLostPermit
  CountersOrdered

  
CHECK_DEADLOCK FALSE
