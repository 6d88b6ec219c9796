------------------------------- MODULE MCRl11 -------------------------------
(* Two drives of two cylinders, tracks of one sector in a sector field of  *)
(* two values.  DA 5 is one cylinder forward with the second head, and a   *)
(* sector past the end of the track; DA 4 is one back, and the sector that *)
(* a count of two runs past.  A WRITECHK does what a READ does, and more.  *)
EXTENDS Rl11

MCDrives    == {0, 1}
MCOnline    == {0}
MCDaValues  == {5, 4}
PoliteFuncs  == {"SEEK", "WRITECHK", "READHDR", "READNOHDR"}
RestartFuncs == {"NOP", "SEEK", "GETSTATUS", "READNOHDR"}
=============================================================================
