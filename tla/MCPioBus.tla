------------------------------ MODULE MCPioBus ------------------------------
(* The addresses of cpld.h, and two bits of data.                          *)
EXTENDS PioBus

MCRegBits  == {"A0", "A1", "A2", "A3"}
MCDataBits == {"BBSY", "NPG"}
MCASSERT == {"A0"}
MCDATA   == {"A1", "A2"}
MCSUBREG == {"A0", "A1", "A2"}
MCPORT   == {"A0", "A3"}
=============================================================================
