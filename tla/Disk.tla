-------------------------------- MODULE Disk --------------------------------
(***************************************************************************)
(* disk.c over the driver of ide.c: blocks of 256 bytes in sectors of 512, *)
(* so that a write reads the sector, changes a half and writes it back,    *)
(* and the partition table that says where a unit begins.  The CLI resets  *)
(* the card (ix), shows what it identifies as or a sector of it (ii, i0,   *)
(* i1), or sets up card and table again (is, as main does at the start).   *)
(***************************************************************************)
EXTENDS Ide

CONSTANTS
  Parts,   \* partitions of the table, 0 among them
  Table,   \* what a table in sector 0 says: the first sector and the size of each
  Mbr,     \* the half sector that holds such a table and its signature
  Blank,   \* one that holds none
  BlockNos,     \* the blocks of a unit that a controller asks for, its partition's or not
  BlockValues, \* what a controller writes to a block
  Shows        \* the sectors that the operator has read and shown, of 0 and 1

ASSUME DiskAssumption ==
  /\ 0 \in Parts /\ Table \in [Parts -> [start : Lbas, size : Nat]]
  /\ BlockNos \subseteq 0 .. 2 * CardSize - 1
  /\ Shows \subseteq {0, 1} \cap Lbas
  /\ BlockValues \cup {Mbr, Blank} \subseteq Data
  /\ Mbr \notin BlockValues \cup {Blank, Junk}
  /\ \A p \in Parts : Table[p].start + Table[p].size - 1 \in Lbas \cup {0 - 1}

VARIABLES
  part_map,     \* where the partitions begin, size 0 for none
  ide_present, disk_ok,
  pc,           \* what the main loop does: "idle", or the call of the driver it waits for
  call,         \* the block call it is in
  strayed       \* a block was written that is in no partition (for the properties)

diskVars == <<ideVars, part_map, ide_present, disk_ok, pc, call, strayed>>
setup    == <<part_map, ide_present, disk_ok, strayed>>

NoPart  == [start |-> 0, size |-> 0]
NoParts == [p \in Parts |-> NoPart]
NoCall  == [op |-> "none", block |-> <<0, 0>>, data |-> Junk]

\* The whole card, for one without a table.
Whole == [NoParts EXCEPT ![0] = [start |-> 0, size |-> CardSize]]
TableIn(sector) == IF sector[1] = Mbr THEN Table ELSE Whole

\* A block is a partition and a number.  Nothing looks at the size of the
\* partition: a unit without one begins at sector 0, as the card does.
Lba(b)    == (b[2] \div 2) + part_map[b[1]].start
Half(b)   == b[2] % 2
Blocks    == Parts \X (0 .. 2 * CardSize - 1)
Inside(b) == b[2] \div 2 < part_map[b[1]].size

-----------------------------------------------------------------------------
(* The calls of the controllers.                                           *)
read_disk_block256(b) ==
  /\ pc = "idle" /\ pc' = "read" /\ Start("READ", Lba(b), "buffer")
  /\ call' = [op |-> "read", block |-> b, data |-> Junk]
  /\ UNCHANGED <<cardVars, bufs, setup>>

write_disk_block256(b, v) ==
  /\ pc = "idle" /\ pc' = "rmw" /\ Start("READ", Lba(b), "buffer")
  /\ call' = [op |-> "write", block |-> b, data |-> v] /\ strayed' = (strayed \/ ~Inside(b))
  /\ UNCHANGED <<cardVars, bufs, part_map, ide_present, disk_ok>>

\* Mutant: the half is changed before the old sector is read.
ChangeOtherHalf ==
  /\ pc = "rmw" /\ hd.at = "done" /\ pc' = "write" /\ Start("WRITE", Lba(call.block), "buffer")
  /\ bufs' = [bufs EXCEPT !.buffer = Both(call.data)]
  /\ UNCHANGED <<cardVars, setup, call>>

\* The old sector was read, or not: ret is not looked at.
ChangeHalf ==
  /\ pc = "rmw" /\ hd.at = "done" /\ pc' = "write" /\ Start("WRITE", Lba(call.block), "buffer")
  /\ bufs' = [bufs EXCEPT !.buffer[Half(call.block)] = call.data]
  /\ UNCHANGED <<cardVars, setup, call>>

Returning == pc \in {"read", "write"} /\ hd.at = "done"
\* A read returns a pointer to its half of buffer.
Returned ==
  [rc |-> hd.rc, data |-> IF pc = "read" THEN bufs.buffer[Half(call.block)] ELSE call.data]

Return ==
  /\ Returning /\ pc' = "idle" /\ call' = NoCall /\ hd' = Done
  /\ UNCHANGED <<cardVars, count, bufs, setup>>

-----------------------------------------------------------------------------
(* The start, and the commands of the CLI.                                 *)
Reset ==
  /\ pc = "idle" /\ AssertReset
  /\ UNCHANGED <<hd, count, bufs, setup, pc, call>>

\* Identify or a sector, read into ide_buffer and shown (ii, i0, i1).
Show ==
  /\ pc = "idle" /\ pc' = "show" /\ UNCHANGED <<cardVars, setup, call>>
  /\ \/ /\ Start("IDENTIFY", 0, "ide_buffer")
        /\ bufs' = [bufs EXCEPT !.ide_buffer = Both(Junk)]
     \/ \E lba \in Shows : Start("READ", lba, "ide_buffer") /\ UNCHANGED bufs

Shown ==
  /\ pc = "show" /\ hd.at = "done" /\ pc' = "idle" /\ hd' = Done
  /\ UNCHANGED <<cardVars, count, bufs, setup, call>>

ide_setup ==
  /\ pc = "idle" /\ pc' = "identify" /\ AssertReset /\ ide_present' = FALSE
  /\ Start("IDENTIFY", 0, "ide_buffer") /\ bufs' = [bufs EXCEPT !.ide_buffer = Both(Junk)]
  /\ UNCHANGED <<part_map, disk_ok, call, strayed>>

disk_setup ==
  /\ pc = "identify" /\ hd.at = "done" /\ disk_ok' = FALSE
  /\ ide_present' = (hd.rc = 0)
  /\ IF hd.rc = 0 THEN pc' = "mbr" /\ Start("READ", 0, "ide_buffer")
                  ELSE pc' = "idle" /\ hd' = Done /\ UNCHANGED count
  /\ UNCHANGED <<cardVars, bufs, part_map, call, strayed>>

\* Mutant: the table is taken from what was read, or not.
TableUnchecked ==
  /\ pc = "mbr" /\ hd.at = "done" /\ pc' = "idle" /\ hd' = Done
  /\ part_map' = TableIn(bufs.ide_buffer) /\ disk_ok' = (bufs.ide_buffer[1] = Mbr)
  /\ UNCHANGED <<cardVars, count, bufs, ide_present, call, strayed>>

\* A card with no signature is one partition, and disk_ok stays FALSE.
disk_read_part ==
  /\ pc = "mbr" /\ hd.at = "done" /\ pc' = "idle" /\ hd' = Done
  /\ IF hd.rc = 0
       THEN /\ part_map' = TableIn(bufs.ide_buffer)
            /\ disk_ok' = (bufs.ide_buffer[1] = Mbr)
       ELSE UNCHANGED <<part_map, disk_ok>>
  /\ UNCHANGED <<cardVars, count, bufs, ide_present, call, strayed>>

-----------------------------------------------------------------------------
Init ==
  /\ present \in {TRUE, ~CardLeaves} /\ busy = FALSE /\ err = FALSE /\ command = NoCmd
  /\ \E head \in {Mbr, Blank}, v \in Data \ {Mbr} :
       store = [l \in Lbas |-> IF l = 0 THEN Both(head) ELSE Both(v)]
  /\ hd = Done /\ count = 0 /\ bufs = [b \in {"buffer", "ide_buffer"} |-> Both(Blank)]
  /\ part_map = NoParts /\ ide_present = FALSE /\ disk_ok = FALSE
  /\ pc = "idle" /\ call = NoCall /\ strayed = FALSE

MainLoop ==
  \/ ChangeHalf \/ Return \/ Shown \/ disk_setup \/ disk_read_part
  \/ Driver /\ UNCHANGED <<setup, pc, call>>
Controllers ==
  \E b \in Parts \X BlockNos :
    read_disk_block256(b) \/ \E v \in BlockValues : write_disk_block256(b, v)
Next ==
  \/ Controllers \/ Reset \/ Show \/ ide_setup \/ MainLoop
  \/ Card /\ UNCHANGED <<setup, pc, call>>

\* The main loop runs, and a card that is not hung ends what it is at.
Fairness ==
  /\ WF_diskVars(MainLoop)
  /\ WF_diskVars(CardAnswers /\ UNCHANGED <<setup, pc, call>>)
Spec == Init /\ [][Next]_diskVars /\ Fairness

-----------------------------------------------------------------------------
DiskTypeOK ==
  /\ {present, busy, err, ide_present, disk_ok, strayed} \subseteq BOOLEAN
  /\ store \in [Lbas -> Sector] /\ command.lba \in Reach /\ command.data \in Sector
  /\ command.op \in {"NONE", "READ", "WRITE", "COMMIT", "IDENTIFY", "RESET", "HANG"}
  /\ hd.lba \in Reach /\ hd.at \in {"pre", "command", "wait", "data", "status", "done"}
  /\ hd.rc \in {0, -1} /\ count \in 0 .. BUSY_TIMEOUT
  /\ bufs \in [{"buffer", "ide_buffer"} -> Sector]
  /\ part_map \in {NoParts, Table, Whole}
  /\ pc \in {"idle", "read", "rmw", "write", "show", "identify", "mbr"}
  /\ (pc = "idle") <=> (hd = Done)

\* The blocks of the card are its half sectors; a call is for one of them, or
\* for one the card does not have.
Address(b)  == <<Lba(b), Half(b)>>
HalvesOf(s) == [a \in Lbas \X {0, 1} |-> s[a[1]][a[2]]]

\* Blocks can be relied on as BlockStore says: a call that returns 0 has done
\* what it says to the half sector that its block is in and to no other, one
\* that returns -1 says that the card has failed, and what a card that failed
\* later loses is the last write at most.
Store == INSTANCE BlockStore WITH
  Blocks <- Lbas \X {0, 1}, Data <- Data \cup {Junk},
  Calls <- [op : {"read", "write"}, block : Reach \X {0, 1}, data : Data \cup {Junk}],
  content <- HalvesOf(Committed), durable <- HalvesOf(store),
  broken <- ~present \/ err \/ command.op = "HANG",
  taken <- pc = "write" /\ hd.at = "status" /\ present,
  call <- IF call = NoCall \/ Returning THEN NoCall
          ELSE [call EXCEPT !.block = Address(call.block)],
  result <- IF Returning THEN Returned ELSE Junk, NoResult <- Junk
ImplementsBlockStore == Store!Spec

\* The partitions of the card.
Layout == TableIn(store[0])

\* As long as every write was for a block of a partition, no step changes the
\* table of the card or makes one on a card without, whatever was read and
\* wherever a call or the card failed, and the map in use was taken from the
\* card and not from a read that failed.  disk.c itself keeps no write away
\* from the table.
TableKept ==
  [][~strayed' => /\ Layout' = Layout
                  /\ Layout = Table => store'[0] = store[0]
                  /\ part_map' \in {NoParts, Layout}]_diskVars

\* Every call of the driver returns, whatever the card does: the busy wait
\* has a limit.
CallsReturn == pc # "idle" ~> pc = "idle"
=============================================================================
