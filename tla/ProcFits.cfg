CONSTANTS
  Slots <- MCSlots
  Objects = {0, 10, 11, 12}
  Sizes = {1}
  Badges = {1}
  NoCap = NoCap
  MaxNodes = 4
  Cptrs <- MCSlots
  InitCaps <- BootCaps
  DefaultSlot = 3
  RetypeTypes = {"FRAME"}
  MaxPartitions = 2
  MaxContexts = 2
  MajorFrame = 100
  Idle = Idle
  NumColors = 4
  ColorsPerPartition = 2
  MaxTcbs = 3
  CountMod = 16
  Windows <- MCWindows
  Top = 22
  Bindings = {}
  ConfigParts = {}
  CreateArgs <- MCCreateArgs
SPECIFICATION PSpec
INVARIANT
  AdmittedFits
CHECK_DEADLOCK FALSE
