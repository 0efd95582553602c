CONSTANTS
  MaxWindows = 3
  NoWindow = NoWindow
  Net = "net"
  Others = {"other"}
  IoCap <- MCIoCap
  Pools <- MCPools
  BufSizes = {1, 2}
  Pages = {0, 1, 2, 3}
  Driver = "driver"
  Peer = "peer"
  Bits = {1, 2}
  Slots <- MCSlots
  Objects = {20, 30, 50}
  Sizes = {1, 2}
  Badges = {}
  NoCap = NoCap
  MaxNodes = 2
  Cptrs <- MCSlots
  InitCaps <- MCInitCaps
  DefaultSlot = 2
  RetypeTypes = {"CNODE"}
  NumColors = 16
  ColorsPerPartition = 2
  Untypeds <- MCUntypeds
  FirstFrameSlot = 3
  SlotMod = 6
  Parts = {0, 1, 8}
  MaxFrameSlot = 7
  MaxEmptied = 1
  MaxPartitions = 2
  MaxContexts = 6
  MajorFrame = 100
  Idle = Idle
  MaxTasks = 5
  TaskCfgs <- MCTaskCfgs
  Booted <- MCBooted
  MaxFiles = 3
  MaxFd = 2
  Names = {"x", "y"}
  FileSizes = {0, 1, 2}
  MaxFrame = 2
  NoFile = NoFile
  NoFd = NoFd
  TrapTop = 16
  UserTop = 8
  MaxNest = 3
  Errors = {"ERR_OK", "ERR_INVALID_ARG"}
  Blank = Blank
  Cols = 3
  Rows = 2
  Chars = {"a", "b"}
  Dark = "dark"
SPECIFICATION USpec
INVARIANTS
  WindowsCounted
  DmaConfined
  NoMissedSignal
  GrantsApart
  ReplyNamesFrame
  AgreesWithKernel
  DescriptorKeepsFile
  LiveStacksIntact
  LineShown
PROPERTIES
  OthersUntouched
  SignalIsTaken
  ReturnGivesBack
CHECK_DEADLOCK FALSE
