CONSTANTS
  NumColors = 4
  ColorsPerPartition = 2
  Spaces <- MCSpaces
  Partition <- MCPartition
  Fan = 2
  MaxPt = 4
  Top = 18
  Vaddrs = {2, 7}
  MaxLen = 2
  StackPages = 2
  Frames <- MCFrames
  NoPte = NoPte
SPECIFICATION VSpec
INVARIANTS
  VTypeOK
  TablesOwned
  RemapSucceeds
PROPERTY
  RefinesAddressSpace
CHECK_DEADLOCK FALSE
