CONSTANTS
  Slots <- MCSlots
  Objects = {0, 10, 11}
  Sizes = {1, 3}
  Badges = {1}
  NoCap = NoCap
  MaxNodes = 2
  Cptrs <- MCSlots
  InitCaps <- TcbCaps
  DefaultSlot = 3
  RetypeTypes = {"VSPACE"}
  MaxPartitions = 2
  MaxContexts = 1
  MajorFrame = 100
  Idle = Idle
  NumColors = 4
  ColorsPerPartition = 2
  MaxTcbs = 1
  CountMod = 16
  Windows <- MCWindows
  Top = 6
  Bindings <- MCBindings
  ConfigParts = {2}
  CreateArgs <- SmallArgs
SPECIFICATION PSpec
INVARIANTS
  UsedCounts
  
PROPERTY
  NoAuthorityInvented
CHECK_DEADLOCK FALSE
