SPECIFICATION Spec
CONSTANTS
  v1 = v1
  v2 = v2
  mbr = mbr
  Junk = junk
  CardSize = 3
  Data <- MCData
  BUSY_TIMEOUT = 3
  PromptCard = TRUE
  CardFails = TRUE
  CardLeaves = TRUE
  Parts <- MCParts
  Table <- MCTable
  Mbr = mbr
  Blank = v1
  BlockNos <- MCBlockNos
  BlockValues <- MCBlockValues
  Shows = {1}
INVARIANTS
  DiskTypeOK
PROPERTIES
  TableKept
  ImplementsBlockStore
  CallsReturn
