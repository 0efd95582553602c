CONSTANTS
  Threads <- MCThreads
  Endpoints = {"e1"}
  QSize = 2
  MaxMsgs = 2
  NoThread = NoThread
  NoMsg = NoMsg
  Calls = {}
  Sends <- MCSends
  Recvs <- MCRecvs
  Manages = {}
  Mortal = {}
  CNodes = {"root", "c0", "c1"}
  Root = "root"
  NoCNode = NoCNode
  Home <- MCHome
SPECIFICATION Spec
INVARIANT NoMessageLost
CHECK_DEADLOCK FALSE
