------------------------------ MODULE MCLoader ------------------------------
(* Two pages of two words, which differ in the file.  A flash with locked  *)
(* regions is one that the monitor runs from; see README for the other.    *)
EXTENDS Loader

CONSTANTS a, b

MCValues == {a, b}
MCFile   == [p \in Pages |-> [i \in Words |-> IF i = p THEN a ELSE b]]
MCChips  == {[locked |-> {}, slow |-> TRUE, gpnvm |-> FALSE],
             [locked |-> {0}, slow |-> FALSE, gpnvm |-> TRUE],
             [locked |-> {0, 1}, slow |-> FALSE, gpnvm |-> FALSE]}
=============================================================================
