CONSTANTS
  w1 = w1
  w2 = w2
  a = a
  b = b
  Main = Main
  None = None
  Worker = {w1, w2}
  Call = {a, b}
  TopCalls = {a, b}
  SubCalls <- MCSubCalls
  MaxFutures = 2
SPECIFICATION Spec
INVARIANTS
  NoLostWakeup
  RunOnce
  NoNegativeProgress
PROPERTIES
  Terminates
CHECK_DEADLOCK FALSE
