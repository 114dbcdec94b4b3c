SPECIFICATION Spec
CONSTANT None = None
INVARIANTS
  ReadsBack
  OneForm
  Negotiated
CHECK_DEADLOCK FALSE
