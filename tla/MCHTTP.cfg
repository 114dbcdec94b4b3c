CONSTANTS
  None = None
  a = a
  b = b
  i1 = i1
  h = h
  f = f
  bad = bad
  f1 = f1
  f2 = f2
  u1 = u1
  u2 = u2
  HeadName = {h}
  Func = {f}
  Call <- MCCall
  Links <- MCLinks
  Bytes = {a}
  Raw <- MCRaw
  ErrorForm <- MCErrorForm
  NodeForm <- MCNodeForm
  BadText = bad
  Gets <- MCGets
  Changes <- MCChanges
  limit = 2
  MaxRequests = 4
  Versions = {10, 11}
SPECIFICATION HTTPSpec
INVARIANTS
  AnsweredInOrder
  
  AnswersAreTrue
PROPERTIES
  EveryRequestAnswered
  EveryChangeOnce
CHECK_DEADLOCK FALSE
