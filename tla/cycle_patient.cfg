SPECIFICATION Spec
CONSTANTS
  Word = {0, 1}
  Zero = 0
  AddrSpace = 64
  LoSpace = 32
  Window = 16
  Decode = 8
  Reg <- MCReg
  CS = 0
  Base = 48
  Targets <- MCTargets
  ClocksPerAccess = 3
  PatientHost = TRUE
  Nothing = Nothing
INVARIANTS
  CycleTypeOK
  SsynOnlyWhenServed
  InterruptNotLost
PROPERTIES
  ServesExactlyOnce
