CONSTANTS
  t1 = t1
  t2 = t2
  h1 = h1
  c1 = c1
  f1 = f1
  b1 = b1
  b2 = b2
  i1 = i1
  None = None
  Thread = {t1, t2}
  Head = {h1}
  Call = {c1}
  Func = {f1}
  Block = {b1, b2}
  Identity = {i1}
  NameOf <- MCNameOf
  ArgsOf <- MCArgsOf
  LinksOf <- MCLinksOf
SPECIFICATION Spec
SYMMETRY Threads
INVARIANTS
  RefsComplete
  NoDanglingHeadRefs
  RefusedOnlyIfEmpty
PROPERTIES
  ImplementsStore
