SPECIFICATION Spec
CONSTANTS
  Word = {0, 1, 2}
  Zero = 0
  AddrSpace = 32
  LoSpace = 16
  Window = 8
  Memory <- MCMemory
  Base = 24
  Start = 0
  Words = 2
  Buffers <- MCBuffers
  Vector = 1
  ClocksPerAccess = 1
  Prompt <- MCAll
  Nothing = Nothing
INVARIANTS
  MasterTypeOK
  OneMaster
  GrantNotForged
  BufferMoved
  VectorTaken
  CleanAfter
PROPERTIES
  WordInPlace
  CallsReturn
