---------------------------- MODULE MCRlTransfer ----------------------------
(* Words of 6 bits, characters of 4, blocks of 4 words and tracks of 3     *)
(* sectors in a sector field of 8 values.  Every word count is tried; the  *)
(* addresses end below, at and above a carry into BA16 and BA17.           *)
EXTENDS RlTransfer

MCDa     == {0, 1, 2, 8, 10}   \* sectors 0, 1, 2 of the first two tracks
MCAddr   == {0, 56, 60, 126, 252}
MCAnyMp  == 0 .. 63
MCNear   == {50, 58}
MCBad    == {60, 4}
=============================================================================
