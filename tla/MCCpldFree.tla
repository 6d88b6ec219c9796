----------------------------- MODULE MCCpldFree -----------------------------
(* Four addresses in two windows, two data words; the ARM strobes the      *)
(* registers that the state machines read.                                 *)
EXTENDS CpldFree

MCBusLevels ==
  [msyn : BOOLEAN, ssyn : BOOLEAN, bbsy : BOOLEAN, c1 : BOOLEAN,
   addr : {0, 2}, data : {0, 1}]
MCStrobes ==
  {NoOp, Rd("DATA"), Wr("DATA", 1), Wr("WR_ADDR_LO", 2),
   Wr("INT_RESET", Zero), Wr("CPU_RELEASE", Zero),
   Wr("DMA_MODE", TRUE), Wr("DMA_MODE", FALSE)}
=============================================================================
