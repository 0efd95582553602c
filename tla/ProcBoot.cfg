CONSTANTS
  Slots <- MCSlots
  Objects = {10, 21, 22, 23}
  Sizes = {1}
  Badges = {1}
  NoCap = NoCap
  MaxNodes = 6
  Cptrs <- MCSlots
  InitCaps <- NoCaps
  DefaultSlot = 1
  RetypeTypes = {"FRAME"}
  MaxPartitions = 3
  MaxContexts = 4
  MajorFrame = 100
  Idle = Idle
  NumColors = 6
  ColorsPerPartition = 2
  MaxTcbs = 5
  CountMod = 16
  Windows <- MCWindows
  Top = 38
  Bindings <- MCBindings
  ConfigParts = {}
  CreateArgs <- MCCreateArgs
  TablePages = 1
  UntypedCap <- MCUntypedCap
  FrameSize = 1
  EndpointObjs <- MCEndpointObjs
  LastBelow = 2
  BootList <- MCBootList
SPECIFICATION BSpec
INVARIANTS
  PTypeOK
  OwnContext
  AlwaysSchedulable
  StacksDisjoint
PROPERTY
  BootComplete
CHECK_DEADLOCK FALSE
