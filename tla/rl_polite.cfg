SPECIFICATION Spec
CONSTANTS
  Drives <- MCDrives
  Cyls = 2
  Sectors = 1
  SectSpace = 2
  DirBit = 1
  HsBit = 1
  SeekTime = 2
  DaValues <- MCDaValues
  Counts = {2}
  HostFuncs <- PoliteFuncs
  HostReadsMp = TRUE
  Online <- MCOnline
  PoliteHost = TRUE
  Restarts = 0
INVARIANTS
  RlTypeOK
  CopyIsCurrent
  SeekIsSelected
PROPERTIES
  ImplementsController
  ReadsBackPosition
