SPECIFICATION Spec
CONSTANTS
  RegBits <- MCRegBits
  DataBits <- MCDataBits
  ASSERT <- MCASSERT
  SUBREG <- MCSUBREG
  DATA <- MCDATA
  PORT <- MCPORT
  BBSY = "BBSY"
  LINE = "NPG"
  IsrAccesses = 2
  Unprotected = TRUE
INVARIANTS
  StrobesIntact
