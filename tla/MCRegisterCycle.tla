--------------------------- MODULE MCRegisterCycle ---------------------------
(* A window of eight words that holds two registers twice, CS at 0 and at  *)
(* 8 and BA at 2 and at 10, and holes; address 0 is memory.                *)
EXTENDS RegisterCycle

MCReg     == {0, 2}
MCTargets == {0, 48, 52, 56, 58}
=============================================================================
