CONSTANTS
  Threads <- MCThreads
  Endpoints = {"e1"}
  QSize = 2
  MaxMsgs = 2
  NoThread = NoThread
  NoMsg = NoMsg
  Calls <- MCCalls
  Sends <- MCSends
  Recvs <- MCRecvs
  Manages = {}
  Mortal = {}
  CNodes = {"root", "c0", "c1"}
  Root = "root"
  NoCNode = NoCNode
  Home <- MCHome
SPECIFICATION FairSpec
PROPERTY CallReturns
CHECK_DEADLOCK FALSE
