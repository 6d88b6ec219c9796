SPECIFICATION Spec
CONSTANTS
  NumPages = 2
  NumWords = 2
  Erased = erased
  Junk = junk
  ChipId = chip_id
  Version = version
  None = none
  a = a
  b = b
  Chips <- MCChips
  Values <- MCValues
  File <- MCFile
INVARIANTS
  LoaderTypeOK
  BanksAgree
  EndsAsAsked
PROPERTIES
  ImplementsRemoteMemory
  CommandsEnd
