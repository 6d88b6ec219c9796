---------------------------- MODULE MCBusMaster ----------------------------
(* Memory of three words, a buffer in the first ones and the word after    *)
(* it; the board's window is at 24.                                        *)
EXTENDS BusMaster

MCBuffers == {<<1, 2>>}
MCMemory == {0, 2, 4}
MCAll    == {"device", "slave", "cpu"}
=============================================================================
