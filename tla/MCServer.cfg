SPECIFICATION Spec
CONSTANTS
  k1 = k1
  k2 = k2
  a1 = a1
  a2 = a2
  b1 = b1
  info = info
  None = None
  Conn <- MCConn
  Func <- MCFunc
  Call <- MCCall
  NameOf <- MCNameOf
  Value <- MCValue
  WorkerInfo <- MCWorkerInfo
  FuncsOf <- MCFuncsOf
  Invalidated <- MCInvalidated
  InitialTimeout = 1
  TimeoutModulus = 4
SYMMETRY MCSymmetry
INVARIANTS
  QueuesConsistent
  NoHandlerSurprised
  NoFinishedCallAssigned
  AcceptedCallKept

  
