------------------------------- MODULE MCDisk -------------------------------
(* A card of three sectors: a table and two partitions of one sector, or   *)
(* no table and one partition.  Halves hold one of two values.             *)
EXTENDS Disk

CONSTANTS v1, v2, mbr

MCParts == {0, 1}
MCTable == [p \in MCParts |-> [start |-> p + 1, size |-> 1]]
MCData  == {v1, v2, mbr}
MCBlockNos == {1, 2}
MCBlockValues == {v2}
=============================================================================
