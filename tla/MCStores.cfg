CONSTANTS
  t1 = t1
  t2 = t2
  h = h
  h2 = h2
  c1 = c1
  f = f
  g = g
  a = a
  b = b
  b3 = b3
  i1 = i1
  None = None
  MaxCallId = 3
  Client = {t1, t2}
  Head = {h}
  Call = {c1}
  Func = {f, g}
  Block = {a, b}
  Identity = {i1}
  NameOf <- MCNameOf
  Args <- MCArgs
  Links <- MCLinks
SPECIFICATION StoresSpec
INVARIANTS
  TracksEveryLink
  NoDanglingRow
  FileHoldsExport
PROPERTIES
  ImplementsAtomicStore
CHECK_DEADLOCK FALSE
