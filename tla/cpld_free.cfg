SPECIFICATION Spec
CONSTANTS
  Word = {0, 1}
  Zero = 0
  AddrSpace = 4
  LoSpace = 4
  Window = 2
  BusLevels <- MCBusLevels
  Strobes <- MCStrobes
INVARIANTS
  TypeOK
  OneMachine
PROPERTIES
  ReleaseNotInherited
  DrivenStable
