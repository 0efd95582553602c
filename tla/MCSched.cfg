CONSTANTS
  MaxPartitions = 3
  MaxContexts = 2
  MajorFrame = 5
  Idle = Idle
  Threads <- MCThreads
  Windows <- MCWindows
  Bindings <- MCBindings
  Steps = {1, 3}
  MaxTime = 8
SPECIFICATION Spec
INVARIANTS
  TypeOK
  WindowsDisjoint
  FillsBounded
PROPERTY
  PickRespectsWindow
