SPECIFICATION Spec
CONSTANTS
  Drives <- MCDrives
  Cyls = 2
  Sectors = 1
  SectSpace = 2
  DirBit = 1
  HsBit = 1
  SeekTime = 2
  DaValues = {5}
  Counts = {}
  HostFuncs <- RestartFuncs
  HostReadsMp = FALSE
  Online <- MCOnline
  PoliteHost = FALSE
  Restarts = 1
INVARIANTS
  BusyHasWork
