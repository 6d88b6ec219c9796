SPECIFICATION Spec
CONSTANTS
  WordSpace = 64
  CharSpace = 16
  Block = 4
  Track = 3
  SectSpace = 8
  StartDa <- MCDa
  StartAddr <- MCAddr
  StartMp <- MCAnyMp
  Bad <- MCBad
INVARIANTS
  TransferTypeOK
  AddressFollows
  WordsCopied
  ShortMeansOpi
  StaysOnTrack
CHECK_DEADLOCK FALSE
