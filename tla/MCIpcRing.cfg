CONSTANTS
  Threads <- MCThreads
  Endpoints = {"e1"}
  QSize = 3
  MaxMsgs = 3
  NoThread = NoThread
  NoMsg = NoMsg
  Calls = {}
  Sends <- MCSends
  Recvs <- MCRecvs
  Manages = {}
  Mortal = {1}
  CNodes = {"root", "c0", "c1"}
  Root = "root"
  NoCNode = NoCNode
  Home <- MCHome
SPECIFICATION FairSpec
PROPERTIES
  RefinesMailbox
  QueuedIsDelivered
CHECK_DEADLOCK FALSE
