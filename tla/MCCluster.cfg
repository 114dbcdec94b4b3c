SPECIFICATION ClusterSpec
CONSTANTS
  k1 = k1
  k2 = k2
  w1 = w1
  w2 = w2
  a1 = a1
  b1 = b1
  infoA = infoA
  infoAB = infoAB
  None = None
  Client <- MCClient
  Worker <- MCWorker
  Conn <- MCConn
  Func <- MCFunc
  Call <- MCCall
  NameOf <- MCNameOf
  Value <- MCValue
  WorkerInfo <- MCWorkerInfo
  FuncsOf <- MCFuncsOf
  Want <- MCWant
  InfoOf <- MCInfoOf
  ResultOf <- MCResultOf
  Mortal <- MCMortal
  Invalidated = {}
  InitialTimeout = 1
  TimeoutModulus = 4
PROPERTIES
  EveryClientAnswered
  ImplementsJobBoard
