----------------------------- MODULE DiskProofs -----------------------------
(***************************************************************************)
(* Proofs about disk.c over the driver of ide.c (Disk), for every size of  *)
(* card, table and limit of the busy wait, and whatever the card does.     *)
(***************************************************************************)
EXTENDS Disk, TLAPS

(* The types of the card and of the driver.                                *)
CmdOps == {"NONE", "READ", "WRITE", "COMMIT", "IDENTIFY", "RESET", "HANG"}
HdOps  == {"NONE", "READ", "WRITE", "IDENTIFY"}
Bufs   == {"buffer", "ide_buffer"}
Ats    == {"pre", "command", "wait", "data", "status", "done"}
CmdType == [op : CmdOps, lba : Reach, data : Sector]
HdType  == [op : HdOps, lba : Reach, buf : Bufs, at : Ats, rc : {0, -1}]

IdeType ==
  /\ present \in BOOLEAN /\ busy \in BOOLEAN /\ err \in BOOLEAN
  /\ store \in [Lbas -> Sector] /\ command \in CmdType
  /\ hd \in HdType
  /\ count \in 0 .. BUSY_TIMEOUT /\ bufs \in [Bufs -> Sector]

DiskType ==
  /\ part_map \in {NoParts, Table, Whole}
  /\ ide_present \in BOOLEAN /\ disk_ok \in BOOLEAN /\ strayed \in BOOLEAN
  /\ call \in [op : {"none", "read", "write"}, block : Blocks, data : Data \cup {Junk}]

\* Which call of the driver each part of disk.c waits for.
CallInv ==
  /\ pc \in {"idle", "read", "rmw", "write", "show", "identify", "mbr"}
  /\ pc = "idle" => hd = Done
  /\ pc \in {"idle", "show", "identify", "mbr"} => call = NoCall
  /\ pc \in {"read", "rmw", "write"} =>
       /\ hd.lba = Lba(call.block) /\ hd.buf = "buffer"
       /\ hd.op = IF pc = "write" THEN "WRITE" ELSE "READ"
       /\ call.op = IF pc = "read" THEN "read" ELSE "write"
       /\ pc # "read" => call.data \in BlockValues
  /\ pc \in {"show", "identify", "mbr"} => hd.buf = "ide_buffer" /\ hd.op \in {"READ", "IDENTIFY"}
  /\ pc = "mbr" => hd.op = "READ" /\ hd.lba = 0

\* A read has its data, and is going to return 0 unless the card fails.
HasRead ==
  /\ hd.op = "READ"
  /\ \/ hd.at = "status" /\ present /\ ~err
     \/ hd.at = "done" /\ hd.rc = 0

\* How far the card is with the command of the driver.  In particular a read
\* that has ended well has read a sector of the card, as it still is.
CardInv ==
  /\ ~present => command = NoCmd /\ ~busy
  /\ ~busy => command.op \notin {"COMMIT", "RESET", "HANG"}
  /\ ~busy \/ command.op \in {"COMMIT", "HANG"} => command.lba \in Lbas
  /\ (hd.at \in {"wait", "data"} /\ present) =>
       \/ command.op = "HANG" \/ (err /\ command.op = "NONE")
       \/ command.op = hd.op /\ command.lba = hd.lba
  /\ (hd.at \in {"command", "data"} /\ present /\ ~err) => ~busy
  /\ HasRead => hd.lba \in Lbas /\ bufs[hd.buf] = store[hd.lba] /\ command.op # "COMMIT"

DiskInv == IdeType /\ DiskType /\ CallInv /\ CardInv

\* As long as no write has strayed, none is for the sector of the table; on a
\* card without a table no write makes one.
TableInv ==
  ~strayed =>
    /\ part_map \in {NoParts, Layout}
    /\ pc \in {"rmw", "write"} => Inside(call.block)
    /\ store[0][1] = Mbr =>
         store[0] = Both(Mbr) /\ (command.op = "COMMIT" => command.lba # 0)
    /\ store[0][1] # Mbr =>
         /\ \A l \in Lbas : store[l][1] # Mbr
         /\ bufs["buffer"][1] # Mbr
         /\ command.op = "COMMIT" => command.data[1] # Mbr

\* A card is partitioned as MBRs are: no partition begins at the table.
Partitioned == \A p \in Parts : Table[p].size > 0 => Table[p].start > 0

-----------------------------------------------------------------------------
LEMMA SectorTypes ==
  /\ Both(Junk) \in Sector /\ \A v \in Data : Both(v) \in Sector
  /\ \A v : Both(v)[0] = v /\ Both(v)[1] = v
  /\ \A s \in Sector : s[0] \in Data \cup {Junk} /\ s[1] \in Data \cup {Junk}
  /\ \A s \in Sector, v \in Data, h \in {0, 1} : [s EXCEPT ![h] = v] \in Sector
  /\ 0 \in Lbas /\ Lbas \subseteq Reach
BY IdeAssumption DEF Both, Sector, Lbas, Reach

\* Every block of every unit is a sector that the driver may be asked for.
LEMMA LbaRange ==
  ASSUME part_map \in {NoParts, Table, Whole}, NEW b \in Blocks
  PROVE  Lba(b) \in Reach /\ Half(b) \in {0, 1}
<1>1. b[1] \in Parts /\ b[2] \in 0 .. 2 * CardSize - 1 /\ CardSize \in Nat
  BY IdeAssumption DEF Blocks
<1>2. PICK n \in Nat : n = b[2] \div 2 /\ n <= CardSize - 1
  BY <1>1
<1>3. part_map[b[1]].start \in Lbas
  <2>1. NoPart.start = 0 /\ NoParts[b[1]] = NoPart
        /\ Whole[b[1]] = IF b[1] = 0 THEN [start |-> 0, size |-> CardSize] ELSE NoPart
    BY <1>1, DiskAssumption DEF NoPart, NoParts, Whole
  <2>2. NoParts[b[1]].start = 0 /\ Whole[b[1]].start = 0 /\ Table[b[1]].start \in Lbas
    BY <1>1, <2>1, DiskAssumption
  <2> QED
    BY <2>2, SectorTypes
<1>4. PICK m \in Nat : m = part_map[b[1]].start /\ m <= CardSize - 1
  BY <1>1, <1>3 DEF Lbas
<1>5. Half(b) \in {0, 1}
  BY <1>1 DEF Half
<1> QED
  BY <1>1, <1>2, <1>4, <1>5 DEF Lba, Reach

\* What the card has taken goes to a sector of the card.
LEMMA CommittedType ==
  ASSUME IdeType
  PROVE  /\ Committed \in [Lbas -> Sector]
         /\ command.op # "COMMIT" => Committed = store
BY DEF IdeType, CmdType, Committed

-----------------------------------------------------------------------------
(* The card on its own, and the reset of the card.                         *)
LEMMA CardStep ==
  ASSUME DiskInv, Card, UNCHANGED <<setup, pc, call>>
  PROVE  DiskInv'
<1> USE DEF DiskInv
<1>0. /\ UNCHANGED <<hd, count, bufs>> /\ store' \in {store, Committed}
      /\ busy' \in BOOLEAN /\ err' \in BOOLEAN /\ present' \in BOOLEAN
      /\ command' \in {command, NoCmd, Cmd("HANG", 0)}
      /\ present' /\ ~err' => present /\ ~err
  BY DEF Card, CardAnswers, CardReady, CardRefuse, CardError, CardHang, Pull, IdeType
<1>1. NoCmd \in CmdType
      /\ Cmd("HANG", 0) \in CmdType
      /\ NoCmd.op = "NONE" /\ Cmd("HANG", 0).op = "HANG"
  BY SectorTypes DEF NoCmd, Cmd, CmdOps, CmdType
<1>2. IdeType'
  BY <1>0, <1>1, CommittedType DEF IdeType
<1>3. DiskType' /\ CallInv'
  BY <1>0 DEF DiskType, CallInv, setup, Lba
<1>4. CardInv'
  <2>0. NoCmd.lba \in Lbas /\ Cmd("HANG", 0).lba \in Lbas
    BY SectorTypes DEF NoCmd, Cmd
  <2>1. HasRead' => /\ hd'.lba \in Lbas /\ bufs'[hd'.buf] = store'[hd'.lba]
                    /\ command'.op # "COMMIT"
    <3>1. HasRead' => HasRead
      BY <1>0 DEF HasRead
    <3> QED
      BY <1>0, <1>1, <3>1, CommittedType DEF CardInv
  <2>2. CASE CardReady
    <3>1. /\ present /\ busy /\ present' = present /\ err' = err /\ busy' = FALSE
          /\ command.op # "HANG" /\ store' = Committed /\ command.lba \in Lbas
          /\ command' = IF command.op \in {"COMMIT", "RESET"} THEN NoCmd ELSE command
      BY <2>2 DEF CardReady
    <3>2. hd.op \in HdOps
      BY DEF IdeType, HdType
    <3>3. command'.op \notin {"COMMIT", "RESET", "HANG"} /\ command'.lba \in Lbas
      BY <3>1, <1>1, <2>0
    <3>4. (hd.at \in {"wait", "data"} /\ present) =>
            \/ err /\ command'.op = "NONE"
            \/ command'.op = hd.op /\ command'.lba = hd.lba
      BY <1>1, <3>1, <3>2 DEF CardInv, HdOps
    <3> QED
      BY <1>0, <2>1, <3>1, <3>3, <3>4 DEF CardInv
  <2>3. CASE CardRefuse
    BY <1>0, <1>1, <2>0, <2>1, <2>3 DEF CardRefuse, CardInv
  <2>4. CASE CardError
    BY <1>0, <1>1, <2>0, <2>1, <2>4 DEF CardError, CardInv
  <2>5. CASE CardHang
    BY <1>0, <1>1, <2>0, <2>1, <2>5 DEF CardHang, CardInv
  <2>6. CASE Pull
    BY <1>0, <1>1, <2>0, <2>1, <2>6 DEF Pull, CardInv
  <2> QED
    BY <2>2, <2>3, <2>4, <2>5, <2>6 DEF Card, CardAnswers
<1> QED
  BY <1>2, <1>3, <1>4

-----------------------------------------------------------------------------
(* The driver.  It never touches what it was called for.                   *)
LEMMA DriverKeepsCall ==
  ASSUME DiskInv, UNCHANGED <<setup, pc, call>>, hd.at # "done",
         hd'.op = hd.op, hd'.lba = hd.lba, hd'.buf = hd.buf
  PROVE  DiskType' /\ CallInv'
<1>1. pc # "idle"
  BY DEF DiskInv, CallInv, Done
<1> QED
  BY <1>1 DEF DiskInv, DiskType, CallInv, setup, Lba

LEMMA BusyWaitStep ==
  ASSUME DiskInv, NEW at, NEW next,
         <<at, next>> \in {<<"pre", "command">>, <<"wait", "data">>},
         hd_busy_wait(at, next), UNCHANGED <<setup, pc, call>>
  PROVE  DiskInv'
<1>0. (at = "pre" /\ next = "command") \/ (at = "wait" /\ next = "data")
  OBVIOUS
<1>1. /\ hd.at = at /\ hd'.op = hd.op /\ hd'.lba = hd.lba /\ hd'.buf = hd.buf
      /\ hd' \in HdType
      /\ \/ hd' = hd
         \/ hd'.at = next /\ hd'.rc = hd.rc /\ present /\ ~busy /\ ~err
         \/ hd'.at = "done" /\ hd'.rc = -1
  <2>1. hd \in HdType /\ at \in Ats /\ next \in Ats /\ "done" \in Ats
    BY <1>0 DEF DiskInv, IdeType, Ats
  <2> DEFINE go == [hd EXCEPT !.at = next]
             failed == [hd EXCEPT !.at = "done", !.rc = -1]
  <2>2. go \in HdType /\ go.op = hd.op /\ go.lba = hd.lba /\ go.buf = hd.buf /\ go.at = next
        /\ go.rc = hd.rc
    BY <2>1 DEF HdType
  <2>3. failed \in HdType /\ failed.op = hd.op /\ failed.lba = hd.lba /\ failed.buf = hd.buf
        /\ failed.at = "done" /\ failed.rc = -1
    BY <2>1 DEF HdType
  <2>4. /\ hd.at = at
        /\ \/ hd' = hd
           \/ hd' = go /\ present /\ ~busy /\ ~err
           \/ hd' = failed
    BY IdeAssumption DEF hd_busy_wait, Poll, To, Fail, BUSY, ERROR, DiskInv, IdeType
  <2> HIDE DEF go, failed
  <2> QED
    BY <2>1, <2>2, <2>3, <2>4
<1>2. count' \in 0 .. BUSY_TIMEOUT
  BY IdeAssumption DEF hd_busy_wait, Poll, To, Fail, DiskInv, IdeType
<1>3. UNCHANGED <<cardVars, bufs>>
  BY DEF hd_busy_wait
<1>4. IdeType'
  BY <1>1, <1>2, <1>3 DEF DiskInv, IdeType, cardVars
<1>5. DiskType' /\ CallInv'
  BY <1>0, <1>1, DriverKeepsCall
<1>6. CardInv'
  <2>1. CASE hd' = hd
    BY <1>3, <2>1 DEF cardVars, DiskInv, CardInv, HasRead
  <2>2. CASE hd'.at = next /\ present /\ ~busy /\ ~err
    BY <1>0, <1>1, <1>3, <2>2 DEF cardVars, DiskInv, CardInv, HasRead
  <2>3. CASE hd'.at = "done" /\ hd'.rc = -1
    BY <1>3, <2>3 DEF cardVars, DiskInv, CardInv, HasRead
  <2> QED
    BY <1>1, <2>1, <2>2, <2>3
<1> QED
  BY <1>4, <1>5, <1>6 DEF DiskInv

LEMMA CommandStep ==
  ASSUME DiskInv, hd_command, UNCHANGED <<setup, pc, call>>
  PROVE  DiskInv'
<1>1. /\ hd.at = "command" /\ hd'.at = "wait" /\ hd'.op = hd.op /\ hd'.lba = hd.lba
      /\ hd'.buf = hd.buf /\ hd' \in HdType
  BY DEF hd_command, To, DiskInv, IdeType, HdType, Ats
<1>2. UNCHANGED <<present, store, count, bufs>>
  BY DEF hd_command
<1>3. /\ Cmd(hd.op, hd.lba) \in CmdType
      /\ Cmd(hd.op, hd.lba).op = hd.op /\ hd.op \in HdOps /\ Cmd(hd.op, hd.lba).lba = hd.lba
  BY SectorTypes DEF Cmd, NoCmd, CmdType, CmdOps, HdType, HdOps, DiskInv, IdeType
<1>4. \/ present /\ busy' = TRUE /\ err' = FALSE /\ command' = Cmd(hd.op, hd.lba)
      \/ ~present /\ UNCHANGED <<busy, err, command>>
  BY DEF hd_command
<1>5. IdeType'
  BY <1>1, <1>2, <1>3, <1>4 DEF DiskInv, IdeType
<1>6. DiskType' /\ CallInv'
  BY <1>1, DriverKeepsCall
<1>7. CardInv'
  BY <1>1, <1>2, <1>3, <1>4 DEF DiskInv, CardInv, HasRead, HdOps
<1> QED
  BY <1>5, <1>6, <1>7 DEF DiskInv

LEMMA WordsStep ==
  ASSUME DiskInv, Words, UNCHANGED <<setup, pc, call>>
  PROVE  DiskInv'
<1>1. /\ hd.at = "data" /\ hd'.at = "status" /\ hd'.op = hd.op /\ hd'.lba = hd.lba
      /\ hd'.buf = hd.buf /\ hd' \in HdType
      /\ hd.op \in HdOps /\ hd.lba \in Reach /\ hd.buf \in Bufs /\ hd' # hd
  BY DEF Words, To, DiskInv, IdeType, HdType, Ats
<1>2. UNCHANGED <<present, err, store, count>>
  BY DEF Words
<1>3. DiskType' /\ CallInv'
  BY <1>1, DriverKeepsCall
<1>4. /\ present /\ ~err => Transfers
      /\ Transfers /\ hd.op # "NONE" => hd.lba \in Lbas
  BY <1>1 DEF Transfers, DiskInv, CardInv, HdOps
<1>5. CASE hd.op = "WRITE"
  <2>1. /\ UNCHANGED bufs
        /\ IF Transfers THEN /\ command' = [op |-> "COMMIT", lba |-> hd.lba, data |-> bufs[hd.buf]]
                             /\ busy' = TRUE
                        ELSE UNCHANGED <<busy, command>>
    BY <1>5 DEF Words, DataOut
  <2>2. bufs[hd.buf] \in Sector
    BY <1>1 DEF DiskInv, IdeType
  <2>3. hd.buf = "buffer"
    BY <1>5 DEF DiskInv, CallInv, Done
  <2>4. IdeType'
    <3>1. [op |-> "COMMIT", lba |-> hd.lba, data |-> bufs[hd.buf]] \in CmdType
      BY <1>1, <2>2 DEF CmdType, CmdOps
    <3> QED
      BY <1>1, <1>2, <2>1, <3>1 DEF DiskInv, IdeType
  <2>5. CardInv'
    BY <1>1, <1>2, <1>4, <1>5, <2>1 DEF DiskInv, CardInv, HasRead, Transfers
  <2> QED
    BY <1>3, <2>4, <2>5 DEF DiskInv
<1>6. CASE hd.op # "WRITE"
  <2> DEFINE got == IF ~Transfers THEN Both(Junk)
                    ELSE IF hd.op = "READ" THEN store[hd.lba] ELSE Both(Junk)
  <2>1. /\ UNCHANGED busy /\ bufs' = [bufs EXCEPT ![hd.buf] = got]
        /\ command' = IF Transfers THEN NoCmd ELSE command
    BY <1>6 DEF Words, DataIn
  <2>2. got \in Sector /\ got \in {Both(Junk), store[hd.lba]}
        /\ (got # Both(Junk) => hd.op = "READ")
        /\ (present /\ ~err /\ hd.op = "READ" => got = store[hd.lba])
    <3>1. Transfers /\ hd.op = "READ" => store[hd.lba] \in Sector
      BY <1>4 DEF DiskInv, IdeType
    <3> QED
      BY <1>4, <3>1, SectorTypes
  <2> HIDE DEF got
  <2>3. bufs' \in [Bufs -> Sector] /\ bufs'[hd.buf] = got
        /\ (hd.buf # "buffer" => bufs'["buffer"] = bufs["buffer"])
    BY <1>1, <2>1, <2>2 DEF DiskInv, IdeType, Bufs
  <2>4. NoCmd \in CmdType /\ NoCmd.op = "NONE" /\ NoCmd.lba \in Lbas
    BY SectorTypes DEF NoCmd, CmdOps, CmdType
  <2>5. IdeType'
    BY <1>1, <1>2, <2>1, <2>3, <2>4 DEF DiskInv, IdeType
  <2>6. CardInv'
    <3>1. HasRead' => /\ hd'.lba \in Lbas /\ bufs'[hd'.buf] = store'[hd'.lba]
                      /\ command'.op # "COMMIT"
      BY <1>1, <1>2, <1>4, <2>1, <2>2, <2>3, <2>4 DEF HasRead
    <3> QED
      BY <1>1, <1>2, <2>1, <2>4, <3>1 DEF DiskInv, CardInv, Transfers
  <2> QED
    BY <1>3, <2>5, <2>6 DEF DiskInv
<1> QED
  BY <1>5, <1>6

LEMMA LastStatusStep ==
  ASSUME DiskInv, LastStatus, UNCHANGED <<setup, pc, call>>
  PROVE  DiskInv'
<1>1. /\ hd.at = "status" /\ hd'.at = "done" /\ hd'.op = hd.op /\ hd'.lba = hd.lba
      /\ hd'.buf = hd.buf /\ hd' \in HdType
      /\ (hd'.rc = 0 => present /\ ~err)
  <2>1. hd \in HdType /\ hd.at = "status" /\ present \in BOOLEAN
        /\ hd' = [hd EXCEPT !.at = "done", !.rc = IF ERROR THEN -1 ELSE 0]
    BY DEF LastStatus, DiskInv, IdeType
  <2>2. CASE ERROR
    <3> DEFINE c == [hd EXCEPT !.at = "done", !.rc = -1]
    <3>1. hd' = c
      BY <2>1, <2>2
    <3>2. c \in HdType /\ c.at = "done" /\ c.op = hd.op /\ c.lba = hd.lba /\ c.buf = hd.buf
          /\ c.rc = -1
      BY <2>1 DEF HdType, Ats
    <3> HIDE DEF c
    <3>3. hd'.rc # 0
      BY <3>1, <3>2
    <3> QED
      BY <2>1, <3>1, <3>2, <3>3
  <2>3. CASE ~ERROR
    BY <2>1, <2>3 DEF HdType, Ats, ERROR
  <2> QED
    BY <2>2, <2>3
<1>2. UNCHANGED <<cardVars, count, bufs>>
  BY DEF LastStatus
<1>3. DiskType' /\ CallInv'
  BY <1>1, DriverKeepsCall
<1>4. HasRead' => HasRead
  BY <1>1, <1>2 DEF HasRead, cardVars
<1>5. CardInv'
  BY <1>1, <1>2, <1>4 DEF DiskInv, CardInv, cardVars
<1> QED
  BY <1>1, <1>2, <1>3, <1>5 DEF DiskInv, IdeType, cardVars

LEMMA DriverStep ==
  ASSUME DiskInv, Driver, UNCHANGED <<setup, pc, call>>
  PROVE  DiskInv'
BY BusyWaitStep, CommandStep, WordsStep, LastStatusStep DEF Driver

-----------------------------------------------------------------------------
(* disk.c and the CLI.                                                     *)
LEMMA StartType ==
  ASSUME NEW op \in HdOps, NEW lba \in Reach, NEW buf \in Bufs, Start(op, lba, buf)
  PROVE  /\ hd' \in HdType /\ count' \in 0 .. BUSY_TIMEOUT
         /\ hd'.op = op /\ hd'.lba = lba /\ hd'.buf = buf /\ hd'.at = "pre"
BY IdeAssumption DEF Start, HdType, Ats

LEMMA DoneType == Done \in HdType /\ Done.op = "NONE" /\ Done.at = "done"
BY SectorTypes DEF Done, HdType, HdOps, Bufs, Ats

\* A call of the driver that begins finds the card as it is.
LEMMA StartStep ==
  ASSUME DiskInv, NEW op \in HdOps, NEW lba \in Reach, NEW buf \in Bufs, Start(op, lba, buf),
         UNCHANGED cardVars, bufs' \in [Bufs -> Sector]
  PROVE  IdeType' /\ CardInv'
<1>1. hd' \in HdType /\ count' \in 0 .. BUSY_TIMEOUT /\ hd'.at = "pre"
  BY StartType
<1>2. IdeType'
  BY <1>1 DEF DiskInv, IdeType, cardVars
<1>3. CardInv'
  BY <1>1 DEF DiskInv, CardInv, HasRead, cardVars
<1> QED
  BY <1>2, <1>3

\* The call of the driver is over, and the program goes on.
LEMMA DoneStep ==
  ASSUME DiskInv, hd' = Done, UNCHANGED <<cardVars, bufs>>, count' \in 0 .. BUSY_TIMEOUT
  PROVE  IdeType' /\ CardInv'
<1>1. hd' \in HdType /\ hd'.op = "NONE" /\ hd'.at = "done"
  BY DoneType
<1>2. IdeType'
  BY <1>1 DEF DiskInv, IdeType, cardVars
<1>3. CardInv'
  BY <1>1 DEF DiskInv, CardInv, HasRead, cardVars
<1> QED
  BY <1>2, <1>3

\* A controller asks for a block.
LEMMA BlockCallStep ==
  ASSUME DiskInv, NEW b \in Parts \X BlockNos,
         \/ read_disk_block256(b)
         \/ \E v \in BlockValues : write_disk_block256(b, v)
  PROVE  DiskInv'
<1>1. b \in Blocks
  BY DiskAssumption DEF Blocks
<1>2. Lba(b) \in Reach /\ "READ" \in HdOps /\ "buffer" \in Bufs
  BY <1>1, LbaRange DEF HdOps, Bufs, DiskInv, DiskType
<1>3. /\ Start("READ", Lba(b), "buffer") /\ UNCHANGED <<cardVars, bufs, part_map, ide_present, disk_ok>>
      /\ call'.block = b /\ strayed' \in {strayed, strayed \/ ~Inside(b)}
      /\ \/ pc' = "read" /\ call' = [op |-> "read", block |-> b, data |-> Junk]
         \/ pc' = "rmw" /\ \E v \in BlockValues : call' = [op |-> "write", block |-> b, data |-> v]
  BY DEF read_disk_block256, write_disk_block256, setup
<1>4. IdeType' /\ CardInv'
  BY <1>2, <1>3, StartStep DEF DiskInv, IdeType
<1>5. DiskType'
  <2>1. strayed' \in BOOLEAN
    <3>1. CASE strayed' = strayed
      BY <3>1 DEF DiskInv, DiskType
    <3>2. CASE strayed' = (strayed \/ ~Inside(b))
      BY <3>2 DEF Inside
    <3> QED
      BY <1>3, <3>1, <3>2
  <2>2. call' \in [op : {"none", "read", "write"}, block : Blocks, data : Data \cup {Junk}]
    BY <1>1, <1>3, DiskAssumption
  <2> QED
    BY <1>3, <2>1, <2>2 DEF DiskInv, DiskType
<1>6. CallInv'
  <2>1. hd'.op = "READ" /\ hd'.lba = Lba(b) /\ hd'.buf = "buffer"
    BY <1>2, <1>3, StartType
  <2>2. part_map' = part_map /\ Lba(b)' = Lba(b)
    BY <1>3 DEF Lba
  <2> QED
    BY <1>1, <1>3, <2>1, <2>2 DEF CallInv, Lba
<1> QED
  BY <1>4, <1>5, <1>6 DEF DiskInv

LEMMA ChangeHalfStep ==
  ASSUME DiskInv, ChangeHalf
  PROVE  DiskInv'
<1>1. /\ pc = "rmw" /\ pc' = "write" /\ Start("WRITE", Lba(call.block), "buffer")
      /\ bufs' = [bufs EXCEPT !["buffer"][Half(call.block)] = call.data]
      /\ UNCHANGED <<cardVars, setup, call>>
  BY DEF ChangeHalf
<1>2. call.block \in Blocks /\ call.data \in BlockValues /\ call.op = "write"
  BY <1>1 DEF DiskInv, CallInv, DiskType
<1>3. Lba(call.block) \in Reach /\ "WRITE" \in HdOps /\ "buffer" \in Bufs
  BY <1>2, LbaRange DEF HdOps, Bufs, DiskInv, DiskType
<1>4. bufs' \in [Bufs -> Sector]
  <2>1. Half(call.block) \in {0, 1}
    BY <1>2, LbaRange DEF DiskInv, DiskType
  <2>2. bufs["buffer"] \in Sector /\ call.data \in Data
    BY <1>2, <1>3, DiskAssumption DEF DiskInv, IdeType
  <2> DEFINE s == [bufs["buffer"] EXCEPT ![Half(call.block)] = call.data]
  <2>3. s \in Sector
    BY <2>1, <2>2, SectorTypes
  <2>4. bufs' = [bufs EXCEPT !["buffer"] = s]
    BY <1>1
  <2> HIDE DEF s
  <2> QED
    BY <1>3, <2>3, <2>4 DEF DiskInv, IdeType
<1>5. IdeType' /\ CardInv'
  BY <1>1, <1>3, <1>4, StartStep
<1>6. DiskType'
  BY <1>1 DEF DiskInv, DiskType, setup
<1>7. CallInv'
  <2>1. hd'.op = "WRITE" /\ hd'.lba = Lba(call.block) /\ hd'.buf = "buffer"
    BY <1>1, <1>3, StartType
  <2> QED
    BY <1>1, <1>2, <2>1 DEF CallInv, Lba, setup
<1> QED
  BY <1>5, <1>6, <1>7 DEF DiskInv

LEMMA ReturnStep ==
  ASSUME DiskInv, Return \/ Shown
  PROVE  DiskInv'
<1>1. /\ hd' = Done /\ pc' = "idle" /\ UNCHANGED <<cardVars, count, bufs, setup>>
      /\ call' \in {call, NoCall} /\ (pc = "show" => call = NoCall) /\ (pc # "show" => call' = NoCall)
  BY DEF Return, Shown, Returning, DiskInv, CallInv
<1>2. IdeType' /\ CardInv'
  BY <1>1, DoneStep DEF DiskInv, IdeType
<1>3. call' = NoCall /\ NoCall \in [op : {"none", "read", "write"}, block : Blocks, data : Data \cup {Junk}]
  BY <1>1, DiskAssumption, IdeAssumption DEF NoCall, Blocks
<1> QED
  BY <1>1, <1>2, <1>3 DEF DiskInv, DiskType, CallInv, setup

\* A reset, of an idle driver: the card forgets its command.
LEMMA ResetStep ==
  ASSUME DiskInv, AssertReset
  PROVE  /\ store' \in {store, Committed} /\ present' = present
         /\ busy' \in BOOLEAN /\ err' \in BOOLEAN /\ command' \in CmdType
         /\ command'.op = "COMMIT" => command' = command
         /\ ~present' => command' = NoCmd /\ ~busy'
         /\ ~busy' => command'.op \notin {"COMMIT", "RESET", "HANG"}
         /\ ~busy' \/ command'.op \in {"COMMIT", "HANG"} => command'.lba \in Lbas
         /\ store' \in [Lbas -> Sector]
<1>1. Cmd("RESET", 0) \in CmdType /\ Cmd("RESET", 0).op = "RESET"
  BY SectorTypes DEF Cmd, NoCmd, CmdType, CmdOps
<1>2. store' \in {store, Committed} /\ store' \in [Lbas -> Sector]
  BY CommittedType DEF AssertReset, DiskInv, IdeType
<1> QED
  BY <1>1, <1>2 DEF AssertReset, DiskInv, IdeType, CardInv

LEMMA IdleResetStep ==
  ASSUME DiskInv, Reset
  PROVE  DiskInv'
<1>1. AssertReset /\ pc = "idle" /\ UNCHANGED <<hd, count, bufs, setup, pc, call>>
  BY DEF Reset
<1>2. hd = Done
  BY <1>1 DEF DiskInv, CallInv
<1>3. IdeType'
  BY <1>1, ResetStep DEF DiskInv, IdeType
<1>4. CardInv'
  BY <1>1, <1>2, ResetStep, DoneType DEF DiskInv, CardInv, HasRead
<1> QED
  BY <1>1, <1>2, <1>3, <1>4 DEF DiskInv, DiskType, CallInv, setup

LEMMA ShowStep ==
  ASSUME DiskInv, Show
  PROVE  DiskInv'
<1>1. PICK op \in {"IDENTIFY", "READ"}, lba \in Lbas :
        /\ Start(op, lba, "ide_buffer")
        /\ bufs' \in {bufs, [bufs EXCEPT !["ide_buffer"] = Both(Junk)]}
  BY SectorTypes, DiskAssumption DEF Show
<1>2. pc = "idle" /\ pc' = "show" /\ UNCHANGED <<cardVars, setup, call>>
  BY DEF Show
<1>3. op \in HdOps /\ "ide_buffer" \in Bufs
  BY DEF HdOps, Bufs
<1>4. bufs' \in [Bufs -> Sector]
  BY <1>1, SectorTypes DEF DiskInv, IdeType, Bufs
<1>5. IdeType' /\ CardInv'
  BY <1>1, <1>2, <1>3, <1>4, SectorTypes, StartStep
<1>6. hd'.op = op /\ hd'.buf = "ide_buffer"
  BY <1>1, <1>3, SectorTypes, StartType
<1> QED
  BY <1>2, <1>5, <1>6 DEF DiskInv, DiskType, CallInv, setup

LEMMA SetupStep ==
  ASSUME DiskInv, ide_setup
  PROVE  DiskInv'
<1>1. /\ pc = "idle" /\ pc' = "identify" /\ AssertReset
      /\ Start("IDENTIFY", 0, "ide_buffer")
      /\ bufs' = [bufs EXCEPT !["ide_buffer"] = Both(Junk)]
      /\ UNCHANGED <<part_map, disk_ok, call, strayed>> /\ ide_present' = FALSE
  BY DEF ide_setup
<1>2. 0 \in Reach /\ "IDENTIFY" \in HdOps /\ "ide_buffer" \in Bufs
  BY SectorTypes DEF HdOps, Bufs
<1>3. /\ hd' \in HdType /\ count' \in 0 .. BUSY_TIMEOUT
      /\ hd'.op = "IDENTIFY" /\ hd'.buf = "ide_buffer" /\ hd'.at = "pre"
  BY <1>1, <1>2, StartType
<1>4. bufs' \in [Bufs -> Sector]
  BY <1>1, SectorTypes DEF DiskInv, IdeType, Bufs
<1>5. IdeType'
  BY <1>1, <1>3, <1>4, ResetStep DEF DiskInv, IdeType
<1>6. CardInv'
  BY <1>1, <1>3, ResetStep DEF CardInv, HasRead
<1>7. DiskType' /\ CallInv'
  BY <1>1, <1>3 DEF DiskInv, DiskType, CallInv
<1> QED
  BY <1>5, <1>6, <1>7 DEF DiskInv

LEMMA DiskSetupStep ==
  ASSUME DiskInv, disk_setup
  PROVE  DiskInv'
<1>1. /\ pc = "identify" /\ UNCHANGED <<cardVars, bufs, part_map, call, strayed>>
      /\ disk_ok' = FALSE /\ ide_present' = (hd.rc = 0)
      /\ \/ pc' = "mbr" /\ Start("READ", 0, "ide_buffer")
         \/ pc' = "idle" /\ hd' = Done /\ UNCHANGED count
  BY DEF disk_setup
<1>2. 0 \in Reach /\ "READ" \in HdOps /\ "ide_buffer" \in Bufs
  BY SectorTypes DEF HdOps, Bufs
<1>3. call = NoCall /\ bufs' \in [Bufs -> Sector]
  BY <1>1 DEF DiskInv, CallInv, IdeType
<1>4. DiskType'
  BY <1>1 DEF DiskInv, DiskType
<1>5. CASE pc' = "mbr" /\ Start("READ", 0, "ide_buffer")
  <2>1. IdeType' /\ CardInv'
    BY <1>1, <1>2, <1>3, <1>5, StartStep
  <2>2. hd'.op = "READ" /\ hd'.lba = 0 /\ hd'.buf = "ide_buffer"
    BY <1>2, <1>5, StartType
  <2> QED
    BY <1>1, <1>3, <1>4, <1>5, <2>1, <2>2 DEF DiskInv, CallInv
<1>6. CASE pc' = "idle" /\ hd' = Done /\ UNCHANGED count
  <2>1. IdeType' /\ CardInv'
    BY <1>1, <1>3, <1>6, DoneStep DEF DiskInv, IdeType
  <2> QED
    BY <1>1, <1>3, <1>4, <1>6, <2>1 DEF DiskInv, CallInv
<1> QED
  BY <1>1, <1>5, <1>6

\* The table is taken from what the read has brought.
LEMMA ReadPartStep ==
  ASSUME DiskInv, disk_read_part
  PROVE  DiskInv' /\ part_map' \in {part_map, Layout} /\ UNCHANGED <<cardVars, bufs, strayed>>
<1>1. /\ pc = "mbr" /\ hd.at = "done" /\ pc' = "idle" /\ hd' = Done
      /\ UNCHANGED <<cardVars, count, bufs, ide_present, call, strayed>>
  BY DEF disk_read_part
<1>2. \/ hd.rc = 0 /\ part_map' = TableIn(bufs["ide_buffer"])
         /\ disk_ok' = (bufs["ide_buffer"][1] = Mbr)
      \/ UNCHANGED <<part_map, disk_ok>>
  BY DEF disk_read_part
<1>3. hd.op = "READ" /\ hd.lba = 0 /\ hd.buf = "ide_buffer" /\ call = NoCall
  BY <1>1 DEF DiskInv, CallInv
<1>4. hd.rc = 0 => bufs["ide_buffer"] = store[0]
  BY <1>1, <1>3 DEF DiskInv, CardInv, HasRead
<1>5. part_map' \in {part_map, Layout}
  BY <1>2, <1>4 DEF Layout
<1>6. IdeType' /\ CardInv'
  BY <1>1, DoneStep DEF DiskInv, IdeType
<1>7. DiskType'
  BY <1>1, <1>2, <1>5 DEF DiskInv, DiskType, Layout, TableIn
<1> QED
  BY <1>1, <1>3, <1>5, <1>6, <1>7 DEF DiskInv, CallInv

LEMMA InitInv == Init => DiskInv
<1> SUFFICES ASSUME Init PROVE DiskInv
  OBVIOUS
<1> PICK head \in {Mbr, Blank}, v \in Data \ {Mbr} :
      store = [l \in Lbas |-> IF l = 0 THEN Both(head) ELSE Both(v)]
  BY DEF Init
<1>1. /\ present \in {TRUE, ~CardLeaves} /\ busy = FALSE /\ err = FALSE /\ command = NoCmd
      /\ hd = Done /\ count = 0 /\ bufs = [b \in Bufs |-> Both(Blank)]
      /\ part_map = NoParts /\ ide_present = FALSE /\ disk_ok = FALSE
      /\ pc = "idle" /\ call = NoCall /\ strayed = FALSE
  BY DEF Init, Bufs
<1>2. NoCmd \in CmdType /\ NoCmd.op = "NONE" /\ NoCmd.lba \in Lbas
  BY SectorTypes DEF NoCmd, CmdType, CmdOps
<1>3. store \in [Lbas -> Sector] /\ store[0] = Both(head) /\ \A l \in Lbas \ {0} : store[l] = Both(v)
  BY SectorTypes, DiskAssumption
<1>4. bufs \in [Bufs -> Sector] /\ bufs["buffer"] = Both(Blank)
  BY <1>1, SectorTypes, DiskAssumption DEF Bufs
<1>5. IdeType
  <2>1. CardLeaves \in BOOLEAN /\ 0 \in 0 .. BUSY_TIMEOUT
    BY IdeAssumption
  <2>2. present \in BOOLEAN
    BY <1>1, <2>1, Zenon
  <2> QED
    BY <1>1, <1>2, <1>3, <1>4, <2>1, <2>2, DoneType DEF IdeType
<1>6. DiskType /\ CallInv
  <2>1. NoCall \in [op : {"none", "read", "write"}, block : Blocks, data : Data \cup {Junk}]
    BY DiskAssumption, IdeAssumption DEF NoCall, Blocks
  <2> QED
    BY <1>1, <2>1 DEF DiskType, CallInv
<1>7. CardInv
  BY <1>1, <1>2, DoneType DEF CardInv, HasRead
<1> QED
  BY <1>5, <1>6, <1>7 DEF DiskInv

LEMMA NextStep ==
  ASSUME DiskInv, [Next]_diskVars
  PROVE  DiskInv'
<1>1. CASE Controllers
  BY <1>1, BlockCallStep DEF Controllers
<1>2. CASE MainLoop
  BY <1>2, ChangeHalfStep, ReturnStep, DiskSetupStep, ReadPartStep, DriverStep DEF MainLoop
<1>3. CASE Reset \/ Show \/ ide_setup
  BY <1>3, IdleResetStep, ShowStep, SetupStep
<1>4. CASE Card /\ UNCHANGED <<setup, pc, call>>
  BY <1>4, CardStep
<1>5. CASE UNCHANGED diskVars
  BY <1>5 DEF diskVars, ideVars, cardVars, DiskInv, IdeType, DiskType, CallInv, CardInv, HasRead, Lba
<1> QED
  BY <1>1, <1>2, <1>3, <1>4, <1>5 DEF Next

LEMMA DiskInvAlways == Spec => []DiskInv
<1>1. Init => DiskInv
  BY InitInv
<1>2. DiskInv /\ [Next]_diskVars => DiskInv'
  BY NextStep
<1> QED
  BY <1>1, <1>2, PTL DEF Spec

\* The program waits for a call of the driver exactly when one is going on,
\* and sectors, addresses and the count of polls stay in their ranges: an
\* address is within reach whatever unit and block it is made from.
THEOREM DiskTypeCorrect == Spec => []DiskTypeOK
<1>1. DiskInv => DiskTypeOK
  <2> SUFFICES ASSUME DiskInv PROVE DiskTypeOK
    OBVIOUS
  <2>1. /\ hd.lba \in Reach /\ hd.at \in Ats /\ hd.rc \in {0, -1}
        /\ command.lba \in Reach /\ command.data \in Sector /\ command.op \in CmdOps
    BY DEF DiskInv, IdeType, HdType, CmdType
  <2>2. (pc = "idle") <=> (hd = Done)
    BY DEF DiskInv, CallInv, Done
  <2>3. {present, busy, err, ide_present, disk_ok, strayed} \subseteq BOOLEAN
    BY DEF DiskInv, IdeType, DiskType
  <2>4. store \in [Lbas -> Sector] /\ count \in 0 .. BUSY_TIMEOUT /\ bufs \in [Bufs -> Sector]
    BY DEF DiskInv, IdeType
  <2>5. part_map \in {NoParts, Table, Whole}
        /\ pc \in {"idle", "read", "rmw", "write", "show", "identify", "mbr"}
    BY DEF DiskInv, DiskType, CallInv
  <2> QED
    BY <2>1, <2>2, <2>3, <2>4, <2>5 DEF DiskTypeOK, Ats, CmdOps, Bufs
<1> QED
  BY <1>1, DiskInvAlways, PTL

-----------------------------------------------------------------------------
(* The table, while every write is for a block of a partition.             *)
\* What the card has taken does not change whether there is a table, nor
\* what it says.
LEMMA TableCommitted ==
  ASSUME DiskInv, TableInv, ~strayed, NEW s \in {store, Committed}
  PROVE  /\ (s[0][1] = Mbr) = (store[0][1] = Mbr) /\ TableIn(s[0]) = Layout
         /\ s[0][1] = Mbr => s[0] = Both(Mbr)
         /\ store[0][1] # Mbr => \A l \in Lbas : s[l][1] # Mbr
<1> USE SectorTypes
<1>1. CASE s = store
  BY <1>1 DEF TableInv, Layout
<1>2. CASE command.op = "COMMIT" /\ s = [store EXCEPT ![command.lba] = command.data]
  <2>1. command.data \in Sector /\ command.lba \in Lbas
    BY <1>2 DEF DiskInv, IdeType, CmdType, CardInv
  <2>2. \A l \in Lbas : s[l] = IF l = command.lba THEN command.data ELSE store[l]
    BY <1>2, <2>1 DEF DiskInv, IdeType
  <2>3. CASE store[0][1] = Mbr
    <3>1. s[0] = store[0]
      BY <1>2, <2>2, <2>3 DEF TableInv
    <3> QED
      BY <2>3, <3>1 DEF TableInv, Layout
  <2>4. CASE store[0][1] # Mbr
    <3>1. \A l \in Lbas : s[l][1] # Mbr
      BY <1>2, <2>2, <2>4 DEF TableInv
    <3>2. TableIn(s[0]) = Whole /\ Layout = Whole
      BY <2>4, <3>1 DEF TableIn, Layout
    <3> QED
      BY <2>4, <3>1, <3>2
  <2> QED
    BY <2>3, <2>4
<1> QED
  BY <1>1, <1>2 DEF Committed

\* A step that gives the card nothing to write, and takes the map from the
\* card if it takes one, keeps the table.
LEMMA TableKeeps ==
  ASSUME DiskInv, TableInv, strayed \in BOOLEAN, strayed' \in BOOLEAN, strayed => strayed',
         store' \in {store, Committed}, part_map' \in {part_map, Layout},
         command'.op = "COMMIT" => command' = command,
         ~strayed /\ store[0][1] # Mbr => bufs'["buffer"][1] # Mbr,
         ~strayed' /\ pc' \in {"rmw", "write"} => Inside(call.block)'
  PROVE  TableInv'
<1> SUFFICES ASSUME ~strayed' PROVE TableInv'
  BY DEF TableInv
<1>1. ~strayed
  OBVIOUS
<1>2. /\ (store'[0][1] = Mbr) = (store[0][1] = Mbr) /\ TableIn(store'[0]) = Layout
      /\ store'[0][1] = Mbr => store'[0] = Both(Mbr)
      /\ store[0][1] # Mbr => \A l \in Lbas : store'[l][1] # Mbr
  BY <1>1, TableCommitted
<1>3. Layout' = Layout
  BY <1>2 DEF Layout
<1>4. part_map' \in {NoParts, Layout'}
  BY <1>1, <1>3 DEF TableInv
<1>5. CASE store[0][1] = Mbr
  <2>1. command'.op = "COMMIT" => command'.lba # 0
    BY <1>1, <1>5 DEF TableInv
  <2> QED
    BY <1>2, <1>4, <1>5, <2>1 DEF TableInv
<1>6. CASE store[0][1] # Mbr
  <2>1. command'.op = "COMMIT" => command'.data[1] # Mbr
    BY <1>1, <1>6 DEF TableInv
  <2> QED
    BY <1>1, <1>2, <1>4, <1>6, <2>1 DEF TableInv
<1> QED
  BY <1>5, <1>6

\* A block of a partition is not in the sector of the table.
LEMMA InsideMissesTable ==
  ASSUME Partitioned, DiskInv, TableInv, ~strayed, pc \in {"rmw", "write"}, store[0][1] = Mbr
  PROVE  hd.lba # 0
<1>1. /\ call.block \in Blocks /\ call.block[2] \div 2 < part_map[call.block[1]].size
      /\ hd.lba = (call.block[2] \div 2) + part_map[call.block[1]].start
      /\ part_map \in {NoParts, Table}
  BY DEF DiskInv, CallInv, DiskType, TableInv, Inside, Lba, Layout, TableIn
<1>2. call.block[1] \in Parts /\ call.block[2] \in Nat
  BY <1>1 DEF Blocks
<1>3. PICK n \in Nat : n = call.block[2] \div 2
  BY <1>2
<1>4. part_map = Table
  <2>1. NoParts[call.block[1]].size = 0
    BY <1>2 DEF NoParts, NoPart
  <2> QED
    BY <1>1, <1>3, <2>1
<1>5. Table[call.block[1]].size \in Nat /\ Table[call.block[1]].start \in Nat
  BY <1>2, DiskAssumption DEF Lbas
<1>6. Table[call.block[1]].start > 0
  BY <1>1, <1>2, <1>3, <1>4, <1>5 DEF Partitioned
<1> QED
  BY <1>1, <1>3, <1>4, <1>5, <1>6

LEMMA TableWords ==
  ASSUME Partitioned, DiskInv, TableInv, Words, UNCHANGED <<setup, pc, call>>
  PROVE  TableInv'
<1>1. /\ hd.at = "data" /\ UNCHANGED <<store, part_map, pc, call, strayed>>
      /\ hd \in HdType /\ bufs \in [Bufs -> Sector] /\ strayed \in BOOLEAN
      /\ Inside(call.block)' = Inside(call.block)
  BY DEF Words, setup, DiskInv, IdeType, DiskType, Inside
<1>2. CASE hd.op = "WRITE"
  <2>1. pc = "write" /\ hd.buf = "buffer"
    BY <1>1, <1>2 DEF DiskInv, CallInv, Done
  <2>2. /\ UNCHANGED bufs
        /\ \/ command' = [op |-> "COMMIT", lba |-> hd.lba, data |-> bufs["buffer"]]
           \/ command' = command
    BY <1>2, <2>1 DEF Words, DataOut
  <2>3. CASE command' = command
    BY <1>1, <2>2, <2>3, TableKeeps DEF TableInv
  <2>4. CASE command' = [op |-> "COMMIT", lba |-> hd.lba, data |-> bufs["buffer"]]
    <3>1. command'.lba = hd.lba /\ command'.data = bufs["buffer"]
      BY <2>4
    <3>2. ~strayed /\ store[0][1] = Mbr => hd.lba # 0
      BY <2>1, InsideMissesTable
    <3> QED
      BY <1>1, <2>2, <3>1, <3>2 DEF TableInv, Layout
  <2> QED
    BY <2>2, <2>3, <2>4
<1>3. CASE hd.op # "WRITE"
  <2> DEFINE got == IF ~Transfers THEN Both(Junk)
                    ELSE IF hd.op = "READ" THEN store[hd.lba] ELSE Both(Junk)
  <2>1. bufs' = [bufs EXCEPT ![hd.buf] = got] /\ command' \in {NoCmd, command}
    BY <1>3 DEF Words, DataIn
  <2>2. got = Both(Junk) \/ (got = store[hd.lba] /\ hd.lba \in Lbas)
    BY <1>1 DEF Transfers, DiskInv, CardInv
  <2> HIDE DEF got
  <2>3. ~strayed /\ store[0][1] # Mbr => bufs'["buffer"][1] # Mbr
    BY <1>1, <2>1, <2>2, SectorTypes, DiskAssumption DEF TableInv, HdType, Bufs
  <2>4. command'.op = "COMMIT" => command' = command
    BY <2>1 DEF NoCmd
  <2> QED
    BY <1>1, <2>3, <2>4, TableKeeps DEF TableInv
<1> QED
  BY <1>2, <1>3

LEMMA TableStep ==
  ASSUME Partitioned, DiskInv, DiskInv', TableInv, [Next]_diskVars
  PROVE  TableInv'
<1>0. /\ strayed \in BOOLEAN /\ strayed' \in BOOLEAN /\ Mbr \notin BlockValues
      /\ ~strayed /\ store[0][1] # Mbr => bufs["buffer"][1] # Mbr
      /\ ~strayed /\ pc \in {"rmw", "write"} => Inside(call.block)
      /\ bufs \in [Bufs -> Sector]
  BY DiskAssumption DEF DiskInv, DiskType, IdeType, TableInv
<1>1. ASSUME NEW b \in Parts \X BlockNos,
             read_disk_block256(b) \/ \E v \in BlockValues : write_disk_block256(b, v)
      PROVE  TableInv'
  <2>1. /\ UNCHANGED <<cardVars, bufs, part_map>> /\ call'.block = b
        /\ \/ pc' = "read" /\ strayed' = strayed
           \/ pc' = "rmw" /\ strayed' = (strayed \/ ~Inside(b))
    BY <1>1 DEF read_disk_block256, write_disk_block256, setup
  <2>2. Inside(call.block)' = Inside(b)
    BY <2>1 DEF Inside
  <2> QED
    BY <1>0, <2>1, <2>2, TableKeeps DEF cardVars
<1>2. CASE ChangeHalf
  <2>1. /\ UNCHANGED <<cardVars, part_map, strayed, call>> /\ pc = "rmw"
        /\ bufs' = [bufs EXCEPT !["buffer"][Half(call.block)] = call.data]
        /\ call.data \in BlockValues /\ Half(call.block) \in {0, 1}
    BY <1>2, LbaRange DEF ChangeHalf, setup, DiskInv, CallInv, DiskType
  <2>2. ~strayed /\ store[0][1] # Mbr => bufs'["buffer"][1] # Mbr
    BY <1>0, <2>1 DEF Bufs, Sector
  <2>3. Inside(call.block)' = Inside(call.block)
    BY <2>1 DEF Inside
  <2> QED
    BY <1>0, <2>1, <2>2, <2>3, TableKeeps DEF cardVars
<1>3. CASE Return \/ Shown \/ Show \/ disk_setup \/ disk_read_part
  <2>1. /\ UNCHANGED <<store, command, strayed>> /\ pc' \notin {"rmw", "write"}
        /\ part_map' \in {part_map, Layout}
        /\ bufs' \in {bufs, [bufs EXCEPT !["ide_buffer"] = Both(Junk)]}
    BY <1>3, ReadPartStep DEF Return, Shown, Show, disk_setup, disk_read_part, setup, cardVars
  <2>2. bufs'["buffer"] = bufs["buffer"]
    BY <1>0, <2>1 DEF Bufs
  <2> QED
    BY <1>0, <2>1, <2>2, TableKeeps
<1>4. CASE Reset \/ ide_setup
  <2>1. /\ AssertReset /\ UNCHANGED <<part_map, strayed>> /\ pc' \notin {"rmw", "write"}
        /\ bufs' \in {bufs, [bufs EXCEPT !["ide_buffer"] = Both(Junk)]}
    BY <1>4 DEF Reset, ide_setup, setup
  <2>2. bufs'["buffer"] = bufs["buffer"]
    BY <1>0, <2>1 DEF Bufs
  <2> QED
    BY <1>0, <2>1, <2>2, ResetStep, TableKeeps
<1>5. ASSUME Driver, UNCHANGED <<setup, pc, call>> PROVE TableInv'
  <2>1. CASE Words
    BY <1>5, <2>1, TableWords
  <2>2. CASE ~Words
    <3>1. /\ UNCHANGED <<store, bufs, part_map, strayed, pc, call>>
          /\ command' \in {command, Cmd(hd.op, hd.lba)} /\ hd.op # "COMMIT"
      BY <1>5, <2>2
      DEF Driver, hd_busy_wait, hd_command, LastStatus, setup, cardVars, DiskInv, IdeType, HdType, HdOps
    <3>2. Inside(call.block)' = Inside(call.block) /\ Cmd(hd.op, hd.lba).op = hd.op
      BY <3>1 DEF Inside, Cmd, NoCmd
    <3> QED
      BY <1>0, <3>1, <3>2, TableKeeps
  <2> QED
    BY <2>1, <2>2
<1>6. ASSUME Card, UNCHANGED <<setup, pc, call>> PROVE TableInv'
  <2>1. /\ UNCHANGED <<bufs, part_map, strayed, pc, call>> /\ store' \in {store, Committed}
        /\ command' \in {command, NoCmd, Cmd("HANG", 0)}
    BY <1>6 DEF Card, CardAnswers, CardReady, CardRefuse, CardError, CardHang, Pull, setup
  <2>2. /\ Inside(call.block)' = Inside(call.block)
        /\ NoCmd.op # "COMMIT" /\ Cmd("HANG", 0).op # "COMMIT"
    BY <2>1 DEF Inside, Cmd, NoCmd
  <2> QED
    BY <1>0, <2>1, <2>2, TableKeeps
<1>7. CASE UNCHANGED diskVars
  <2>1. /\ UNCHANGED <<cardVars, bufs, part_map, strayed, pc, call>>
        /\ Inside(call.block)' = Inside(call.block)
    BY <1>7 DEF diskVars, ideVars, Inside
  <2> QED
    BY <1>0, <2>1, TableKeeps DEF cardVars
<1> QED
  BY <1>1, <1>2, <1>3, <1>4, <1>5, <1>6, <1>7 DEF Next, Controllers, MainLoop

\* Only what the card has taken gets to its sectors.
LEMMA StoreStep ==
  ASSUME DiskInv, [Next]_diskVars
  PROVE  store' \in {store, Committed} /\ (strayed => strayed')
<1>1. ASSUME NEW b \in Parts \X BlockNos,
             read_disk_block256(b) \/ \E v \in BlockValues : write_disk_block256(b, v)
      PROVE  store' = store /\ (strayed => strayed')
  <2>1. /\ UNCHANGED store
        /\ strayed' = strayed \/ strayed' = (strayed \/ ~Inside(b))
    BY <1>1 DEF read_disk_block256, write_disk_block256, cardVars, setup
  <2>2. strayed \in BOOLEAN
    BY DEF DiskInv, DiskType
  <2>3. CASE strayed' = strayed
    BY <2>1, <2>3
  <2>4. CASE strayed' = (strayed \/ ~Inside(b))
    BY <2>1, <2>2, <2>4
  <2> QED
    BY <2>1, <2>3, <2>4
<1>2. CASE ChangeHalf \/ Return \/ Shown \/ Show \/ disk_setup \/ disk_read_part
  BY <1>2 DEF ChangeHalf, Return, Shown, Show, disk_setup, disk_read_part, cardVars, setup
<1>3. CASE Reset \/ ide_setup
  BY <1>3 DEF Reset, ide_setup, AssertReset, setup
<1>4. CASE Driver /\ UNCHANGED <<setup, pc, call>>
  BY <1>4 DEF Driver, hd_busy_wait, hd_command, Words, LastStatus, cardVars, setup
<1>5. CASE Card /\ UNCHANGED <<setup, pc, call>>
  BY <1>5 DEF Card, CardAnswers, CardReady, CardRefuse, CardError, CardHang, Pull, setup
<1>6. CASE UNCHANGED diskVars
  BY <1>6 DEF diskVars, ideVars, cardVars
<1> QED
  BY <1>1, <1>2, <1>3, <1>4, <1>5, <1>6 DEF Next, Controllers, MainLoop

\* What TableKept says of a step.
TableStays ==
  ~strayed' => /\ Layout' = Layout
               /\ Layout = Table => store'[0] = store[0]
               /\ part_map' \in {NoParts, Layout}

\* As long as every write was for a block of a partition, nothing the
\* controllers or the operator do, and no failure of the card, changes the
\* partition table, and the program uses that of the card.
THEOREM TableKeptAlways ==
  ASSUME Partitioned
  PROVE  Spec => TableKept
<1>1. Table # Whole
  <2>1. 0 \in Parts /\ CardSize > 0
    BY DiskAssumption, IdeAssumption
  <2>2. Whole[0] = [start |-> 0, size |-> CardSize]
    BY <2>1 DEF Whole, NoParts
  <2>3. Whole[0].size > 0 /\ ~(Whole[0].start > 0)
    BY <2>1, <2>2
  <2> QED
    BY <2>1, <2>3 DEF Partitioned
<1>2. DiskInv /\ DiskInv' /\ TableInv /\ [Next]_diskVars => TableInv' /\ [TableStays]_diskVars
  <2> SUFFICES ASSUME DiskInv, DiskInv', TableInv, [Next]_diskVars PROVE TableInv' /\ TableStays
    OBVIOUS
  <2>1. TableInv'
    BY TableStep
  <2> SUFFICES ASSUME ~strayed' PROVE TableStays
    BY <2>1 DEF TableStays
  <2>2. ~strayed /\ store' \in {store, Committed}
    BY StoreStep
  <2>3. TableIn(store'[0]) = Layout /\ (store'[0][1] = Mbr) = (store[0][1] = Mbr)
        /\ (store'[0][1] = Mbr => store'[0] = Both(Mbr))
    BY <2>2, TableCommitted
  <2>4. Layout' = Layout
    BY <2>3 DEF Layout
  <2>5. Layout = Table => store'[0] = store[0]
    BY <1>1, <2>2, <2>3 DEF TableInv, Layout, TableIn
  <2>6. part_map' \in {NoParts, Layout'}
    BY <2>1 DEF TableInv
  <2> QED
    BY <2>4, <2>5, <2>6 DEF TableStays
<1>3. Init => TableInv
  <2> SUFFICES ASSUME Init PROVE TableInv
    OBVIOUS
  <2> PICK head \in {Mbr, Blank}, v \in Data \ {Mbr} :
        store = [l \in Lbas |-> IF l = 0 THEN Both(head) ELSE Both(v)]
    BY DEF Init
  <2>1. /\ part_map = NoParts /\ pc = "idle" /\ command.op = "NONE"
        /\ bufs["buffer"] = Both(Blank)
    BY DEF Init, NoCmd
  <2>2. store[0] = Both(head) /\ \A l \in Lbas \ {0} : store[l] = Both(v)
    BY SectorTypes
  <2> QED
    BY <2>1, <2>2, SectorTypes, DiskAssumption DEF TableInv
<1> QED
  BY <1>2, <1>3, DiskInvAlways, PTL DEF Spec, TableKept, TableStays

-----------------------------------------------------------------------------
(* The blocks of disk.c are a BlockStore.                                  *)
Broken == ~present \/ err \/ command.op = "HANG"
Taken  == pc = "write" /\ hd.at = "status" /\ present
Asked  == IF call = NoCall \/ Returning THEN NoCall
          ELSE [call EXCEPT !.block = Address(call.block)]
Answer == IF Returning THEN Returned ELSE Junk

\* The sector that a write sends is the old one with the half changed.
Merged == bufs["buffer"] = [store[hd.lba] EXCEPT ![Half(call.block)] = call.data]

\* A card that is prompt fails a call of the driver only when it is broken,
\* and stays broken at least until the call has returned.
WaitInv ==
  /\ (hd.at \in {"command", "data"} /\ present) => ~err /\ ~busy
  /\ (hd.at = "status" /\ hd.op # "WRITE" /\ present /\ ~err) => ~busy
  /\ count \in Nat /\ (count > 0 => hd.at \in {"pre", "wait"})
  /\ count >= BUSY_TIMEOUT => ~present \/ command.op = "HANG"
  /\ (hd.at = "done" /\ hd.rc # 0) => Broken
  /\ (pc = "write" /\ hd.at \in {"pre", "command", "wait", "data"}) =>
       Broken \/ (Merged /\ command.op # "COMMIT")

LEMMA NoCmdType == NoCmd.op = "NONE" /\ \A op \in CmdOps, lba \in Reach : Cmd(op, lba).op = op
BY DEF NoCmd, Cmd

LEMMA WaitCard ==
  ASSUME DiskInv, WaitInv, Card, UNCHANGED <<setup, pc, call>>
  PROVE  WaitInv'
<1>1. UNCHANGED <<hd, count, bufs>> /\ Cmd("HANG", 0).op = "HANG"
  BY NoCmdType, SectorTypes
  DEF Card, CardAnswers, CardReady, CardRefuse, CardError, CardHang, Pull, CmdOps
<1>2. CASE CardReady
  <2>1. /\ present /\ busy /\ present' = present /\ err' = err /\ ~busy'
        /\ command.op # "HANG" /\ store' = Committed
        /\ command' \in {command, NoCmd}
    BY <1>2 DEF CardReady
  <2>2. Broken' = Broken /\ (command.op # "COMMIT" => store' = store)
    BY <2>1, NoCmdType DEF Broken, Committed
  <2>3. command'.op # "COMMIT" \/ command' = command
    BY <2>1, NoCmdType
  <2> QED
    BY <1>1, <2>1, <2>2, <2>3 DEF WaitInv, Merged, Half
<1>3. CASE CardRefuse \/ CardError \/ CardHang \/ Pull
  <2>0. command.op = "HANG" => command.lba \in Lbas
    BY DEF DiskInv, CardInv
  <2>1. /\ Broken' /\ (~present' \/ busy)
        /\ ~present \/ command.op = "HANG" => ~present' \/ command'.op = "HANG"
        /\ present' /\ ~err' => present /\ ~err /\ busy
        /\ present' => present
    BY <1>1, <1>3, <2>0 DEF CardRefuse, CardError, CardHang, Pull, Broken
  <2> QED
    BY <1>1, <2>1 DEF WaitInv
<1> QED
  BY <1>2, <1>3 DEF Card, CardAnswers

LEMMA WaitBusy ==
  ASSUME PromptCard, DiskInv, WaitInv, NEW at, NEW next,
         <<at, next>> \in {<<"pre", "command">>, <<"wait", "data">>},
         hd_busy_wait(at, next), UNCHANGED <<setup, pc, call>>
  PROVE  /\ WaitInv'
         /\ \/ hd' = hd
            \/ hd' = [hd EXCEPT !.at = next]
            \/ hd' = [hd EXCEPT !.at = "done", !.rc = -1] /\ Broken
<1>1. /\ hd.at = at /\ at \in {"pre", "wait"} /\ next \in {"command", "data"}
      /\ hd \in HdType /\ count \in Nat /\ BUSY_TIMEOUT \in Nat /\ BUSY_TIMEOUT >= 2
      /\ present \in BOOLEAN /\ busy \in BOOLEAN
  BY IdeAssumption DEF hd_busy_wait, DiskInv, IdeType, WaitInv
<1>2. UNCHANGED <<present, busy, err, command, store, bufs, pc, call>>
  BY DEF hd_busy_wait, cardVars
<1> DEFINE go == [hd EXCEPT !.at = next]
           failed == [hd EXCEPT !.at = "done", !.rc = -1]
<1>3. go.op = hd.op /\ go.lba = hd.lba /\ go.at = next /\ failed.at = "done" /\ failed.op = hd.op
  BY <1>1 DEF HdType
<1>4. \/ hd' = hd /\ count' = 1
      \/ hd' = hd /\ count' = count + 1 /\ count' <= BUSY_TIMEOUT /\ (~present \/ busy)
      \/ hd' = go /\ count' = 0 /\ present /\ ~busy /\ ~err
      \/ hd' = failed /\ count' = 0 /\ Broken
  BY <1>1 DEF hd_busy_wait, Poll, To, Fail, BUSY, ERROR, WaitInv, Broken
<1>5. Broken' = Broken
  BY <1>2 DEF Broken
<1>6. ASSUME hd' = hd /\ count' \in {1, count + 1} PROVE WaitInv'
  <2>1. count' >= BUSY_TIMEOUT => ~present \/ command.op = "HANG"
    BY <1>1, <1>4 DEF hd_busy_wait, InTime, HdType, WaitInv
  <2> QED
    BY <1>1, <1>2, <1>5, <1>6, <2>1 DEF WaitInv, Merged, Half
<1>7. ASSUME hd' = go /\ count' = 0 /\ present /\ ~busy /\ ~err PROVE WaitInv'
  <2> HIDE DEF go, failed
  <2>1. pc = "write" => Broken \/ (Merged /\ command.op # "COMMIT")
    BY <1>1 DEF WaitInv
  <2> QED
    BY <1>1, <1>2, <1>3, <1>5, <1>7, <2>1 DEF WaitInv, Merged, Half
<1>8. ASSUME hd' = failed /\ count' = 0 /\ Broken PROVE WaitInv'
  <2> HIDE DEF go, failed
  <2> QED
    BY <1>1, <1>2, <1>3, <1>5, <1>8 DEF WaitInv
<1> HIDE DEF go, failed
<1>9. WaitInv'
  BY <1>4, <1>6, <1>7, <1>8
<1> QED
  BY <1>4, <1>9 DEF go, failed

LEMMA WaitDriver ==
  ASSUME DiskInv, WaitInv, hd_command \/ Words \/ LastStatus, UNCHANGED <<setup, pc, call>>
  PROVE  WaitInv'
<1>1. CASE hd_command
  <2>1. /\ hd.at = "command" /\ hd'.at = "wait" /\ hd'.op = hd.op /\ hd'.lba = hd.lba
        /\ UNCHANGED <<present, store, count, bufs>>
    BY <1>1 DEF hd_command, To, DiskInv, IdeType, HdType
  <2>2. /\ Cmd(hd.op, hd.lba).op = hd.op /\ hd.op \notin {"COMMIT", "HANG"}
    BY DEF Cmd, NoCmd, HdType, HdOps, DiskInv, IdeType
  <2>3. \/ present /\ ~err' /\ command' = Cmd(hd.op, hd.lba) /\ ~err /\ ~busy
        \/ ~present /\ UNCHANGED <<busy, err, command>>
    BY <1>1, <2>1 DEF hd_command, WaitInv
  <2>4. Broken => Broken'
    BY <2>1, <2>2, <2>3 DEF Broken, WaitInv, DiskInv, CardInv
  <2> QED
    BY <2>1, <2>2, <2>3, <2>4, IdeAssumption DEF WaitInv, Merged, Half
<1>2. CASE Words
  <2>1. /\ hd.at = "data" /\ hd'.at = "status" /\ hd'.op = hd.op
        /\ UNCHANGED <<present, err, store, count>>
        /\ hd.op # "WRITE" => busy' = busy
    BY <1>2 DEF Words, To, DiskInv, IdeType, HdType
  <2>2. count = 0 /\ count >= BUSY_TIMEOUT => ~present
    BY <2>1, IdeAssumption DEF WaitInv
  <2> QED
    BY <2>1, <2>2, IdeAssumption DEF WaitInv
<1>3. CASE LastStatus
  <2> DEFINE c == [hd EXCEPT !.at = "done", !.rc = IF ERROR THEN -1 ELSE 0]
  <2>1. c.at = "done" /\ (c.rc # 0 => ERROR)
    BY DEF DiskInv, IdeType, HdType
  <2>2. hd.at = "status" /\ hd' = c /\ UNCHANGED <<cardVars, count, bufs>>
    BY <1>3 DEF LastStatus
  <2> HIDE DEF c
  <2> QED
    BY <2>1, <2>2 DEF WaitInv, cardVars, ERROR, Broken
<1> QED
  BY <1>1, <1>2, <1>3

\* The driver is idle, or begins a call that is not a write.
LEMMA WaitDisk ==
  ASSUME DiskInv, WaitInv,
         \/ \E b \in Parts \X BlockNos :
              read_disk_block256(b) \/ \E v \in BlockValues : write_disk_block256(b, v)
         \/ Reset \/ Show \/ ide_setup \/ Return \/ Shown \/ disk_setup \/ disk_read_part
  PROVE  WaitInv'
<1>1. pc' # "write" /\ ((hd' = hd /\ hd = Done) \/ hd' = Done \/ hd'.at = "pre")
  BY DEF read_disk_block256, write_disk_block256, Reset, Show, ide_setup, Return, Shown, disk_setup,
         disk_read_part, Start, DiskInv, CallInv
<1>2. hd'.at \in {"pre", "done"} /\ (hd'.at = "done" => hd'.rc = 0)
  BY <1>1 DEF Done
<1>3. count' = 0
  <2>1. (hd.at = "done" => count = 0) /\ Done.at = "done" /\ (pc = "idle" => hd = Done)
    BY DEF WaitInv, Done, DiskInv, CallInv
  <2> QED
    BY <2>1
    DEF read_disk_block256, write_disk_block256, Reset, Show, ide_setup, Return, Shown, disk_setup,
        disk_read_part, Start, Returning
<1> QED
  BY <1>1, <1>2, <1>3, IdeAssumption DEF WaitInv

LEMMA WaitChange ==
  ASSUME DiskInv, WaitInv, ChangeHalf
  PROVE  WaitInv'
<1>1. /\ pc = "rmw" /\ hd.at = "done" /\ pc' = "write" /\ count' = 0
      /\ Start("WRITE", Lba(call.block), "buffer")
      /\ bufs' = [bufs EXCEPT !["buffer"] = [bufs["buffer"] EXCEPT ![Half(call.block)] = call.data]]
      /\ UNCHANGED <<cardVars, setup, call>>
  BY DEF ChangeHalf, Start
<1>2. hd'.at = "pre" /\ hd'.lba = hd.lba /\ hd.op = "READ" /\ hd.buf = "buffer"
  BY <1>1 DEF Start, DiskInv, CallInv
<1>3. hd.rc = 0 => bufs["buffer"] = store[hd.lba] /\ command.op # "COMMIT"
  BY <1>1, <1>2 DEF DiskInv, CardInv, HasRead
<1>4. hd.rc # 0 => Broken'
  BY <1>1 DEF WaitInv, Broken, cardVars
<1>5. hd.rc = 0 => Merged'
  <2>1. bufs'["buffer"] = [bufs["buffer"] EXCEPT ![Half(call.block)] = call.data]
    BY <1>1 DEF DiskInv, IdeType, Bufs
  <2> QED
    BY <1>1, <1>2, <1>3, <2>1 DEF Merged, cardVars, Half
<1> QED
  BY <1>1, <1>2, <1>3, <1>4, <1>5, IdeAssumption DEF WaitInv, cardVars

LEMMA WaitAlways ==
  ASSUME PromptCard
  PROVE  Spec => []WaitInv
<1>1. Init => WaitInv
  BY IdeAssumption DEF Init, WaitInv, Done
<1>2. DiskInv /\ WaitInv /\ [Next]_diskVars => WaitInv'
  <2> SUFFICES ASSUME DiskInv, WaitInv, [Next]_diskVars PROVE WaitInv'
    OBVIOUS
  <2>1. CASE Driver /\ UNCHANGED <<setup, pc, call>>
    BY <2>1, WaitBusy, WaitDriver DEF Driver
  <2>2. CASE Card /\ UNCHANGED <<setup, pc, call>>
    BY <2>2, WaitCard
  <2>3. CASE UNCHANGED diskVars
    BY <2>3 DEF diskVars, ideVars, cardVars, WaitInv, Broken, Merged, Half
  <2> QED
    BY <2>1, <2>2, <2>3, WaitDisk, WaitChange DEF Next, Controllers, MainLoop
<1> QED
  BY <1>1, <1>2, DiskInvAlways, PTL DEF Spec

-----------------------------------------------------------------------------
(* The half sectors of the card, and the write of one.                     *)
LEMMA HalvesIn ==
  ASSUME DiskInv, NEW s \in {store, Committed}
  PROVE  /\ HalvesOf(s) \in [Lbas \X {0, 1} -> Data \cup {Junk}]
         /\ \A l \in Lbas, h \in {0, 1} : HalvesOf(s)[<<l, h>>] = s[l][h]
<1>1. s \in [Lbas -> Sector]
  BY CommittedType DEF DiskInv, IdeType
<1>2. \A l \in Lbas, h \in {0, 1} : s[l][h] \in Data \cup {Junk}
  BY <1>1, SectorTypes
<1> QED
  BY <1>1, <1>2 DEF HalvesOf

\* The driver is asked for the sector of the block.
LEMMA CallBlock ==
  ASSUME DiskInv, pc \in {"read", "rmw", "write"}
  PROVE  /\ call.block \in Blocks /\ Half(call.block) \in {0, 1} /\ hd.buf = "buffer"
         /\ Address(call.block) = <<hd.lba, Half(call.block)>> /\ hd.lba \in Reach
         /\ call # NoCall /\ call.op \in {"read", "write"}
         /\ call \in [op : {"none", "read", "write"}, block : Blocks, data : Data \cup {Junk}]
BY LbaRange DEF DiskInv, CallInv, DiskType, IdeType, HdType, Address, NoCall

LEMMA AskedCall ==
  ASSUME DiskInv, pc \in {"read", "rmw", "write"}, ~Returning
  PROVE  /\ Asked # NoCall /\ Asked.op = call.op /\ Asked.data = call.data
         /\ Asked.block = <<hd.lba, Half(call.block)>>
<1> DEFINE a == [call EXCEPT !.block = Address(call.block)]
<1>1. /\ a.op = call.op /\ a.data = call.data /\ a.block = Address(call.block)
      /\ a \in [op : {"none", "read", "write"}, block : {Address(call.block)}, data : Data \cup {Junk}]
  BY CallBlock
<1>2. Asked = a
  BY CallBlock DEF Asked
<1>3. a # NoCall
  BY <1>1, CallBlock DEF NoCall
<1> QED
  BY <1>1, <1>2, <1>3, CallBlock

-----------------------------------------------------------------------------
(* The steps of the program are steps of a BlockStore, or stutter.         *)
LEMMA Stutters ==
  ASSUME HalvesOf(Committed)' = HalvesOf(Committed), HalvesOf(store)' = HalvesOf(store),
         Broken' = Broken, Asked' = Asked, Answer' = Answer, Taken' <=> Taken
  PROVE  UNCHANGED Store!storeVars
<1>1. Taken' = Taken
  BY Zenon DEF Taken
<1> QED
  BY <1>1 DEF Store!storeVars, Broken, Asked, Taken, Answer

\* Steps that leave the card alone.
LEMMA SameCard ==
  ASSUME UNCHANGED cardVars
  PROVE  /\ HalvesOf(Committed)' = HalvesOf(Committed) /\ HalvesOf(store)' = HalvesOf(store)
         /\ Broken' = Broken
BY DEF cardVars, Committed, Broken, HalvesOf

\* A call that goes on is for the same half sector.
LEMMA SameAsked ==
  ASSUME UNCHANGED <<part_map, call>>, Returning' <=> Returning
  PROVE  Asked' = Asked
<1>1. Address(call.block)' = Address(call.block)
  BY DEF Address, Lba, Half
<1>2. CASE Returning
  BY <1>2 DEF Asked
<1>3. CASE ~Returning
  BY <1>1, <1>3 DEF Asked
<1> QED
  BY <1>2, <1>3

LEMMA CallSimulated ==
  ASSUME DiskInv, DiskInv', NEW b \in Parts \X BlockNos,
         \/ read_disk_block256(b)
         \/ \E v \in BlockValues : write_disk_block256(b, v)
  PROVE  Store!Next
<1>1. /\ pc = "idle" /\ pc' \in {"read", "rmw"} /\ hd'.at = "pre" /\ UNCHANGED cardVars
      /\ call' \in [op : {"read", "write"}, block : Blocks, data : Data \cup {Junk}]
  <2>1. b \in Blocks /\ BlockValues \subseteq Data
    BY DiskAssumption DEF Blocks
  <2> QED
    BY <2>1 DEF read_disk_block256, write_disk_block256, Start
<1>2. call = NoCall /\ ~Returning /\ ~Returning'
  BY <1>1 DEF DiskInv, CallInv, Returning
<1>4. Address(call.block)' \in Reach \X {0, 1}
  <2>1. part_map' \in {NoParts, Table, Whole} /\ call'.block \in Blocks
    BY DEF DiskInv, DiskType
  <2>2. \A c \in Blocks : part_map' = part_map => Lba(c)' = Lba(c)
    BY DEF Lba
  <2>3. part_map' = part_map /\ part_map \in {NoParts, Table, Whole}
    BY DEF read_disk_block256, write_disk_block256, setup, DiskInv, DiskType
  <2>4. Lba(call.block)' \in Reach /\ Half(call.block)' \in {0, 1}
    <3>1. call'.block = b
      BY DEF read_disk_block256, write_disk_block256
    <3>2. b \in Blocks
      BY DiskAssumption DEF Blocks
    <3>3. Lba(b) \in Reach /\ Half(b) \in {0, 1}
      BY <2>3, <3>2, LbaRange
    <3> QED
      BY <2>3, <3>1, <3>3 DEF Lba, Half
  <2> QED
    BY <2>4 DEF Address
<1>5. Asked = NoCall /\ Asked' = [call' EXCEPT !.block = Address(call.block)']
  <2>1. call' # NoCall
    BY <1>1 DEF NoCall
  <2> QED
    BY <1>2, <2>1 DEF Asked
<1>6. Asked' \in [op : {"read", "write"}, block : Reach \X {0, 1}, data : Data \cup {Junk}]
  BY <1>1, <1>4, <1>5
<1>7. Store!Call(Asked')
  BY <1>1, <1>2, <1>5, SameCard DEF Store!Call, Broken, Asked
<1> QED
  BY <1>6, <1>7 DEF Store!Next

\* The controller's call is over: the result is collected, or nothing of it
\* is left to see.
LEMMA QuietSimulated ==
  ASSUME DiskInv, Show \/ Shown \/ disk_setup \/ disk_read_part \/ ChangeHalf
  PROVE  UNCHANGED Store!storeVars
<1>1. /\ UNCHANGED <<cardVars, call>> /\ ~Returning /\ ~Returning' /\ ~Taken /\ ~Taken'
      /\ call = NoCall \/ part_map' = part_map
  BY DEF Show, Shown, disk_setup, disk_read_part, ChangeHalf, Returning, Taken, Start, setup,
         DiskInv, CallInv
<1>2. Asked' = Asked
  <2>1. CASE call = NoCall
    BY <1>1, <2>1 DEF Asked
  <2>2. CASE part_map' = part_map
    BY <1>1, <2>2, SameAsked
  <2> QED
    BY <1>1, <2>1, <2>2
<1> QED
  BY <1>1, <1>2, SameCard, Stutters DEF Answer

LEMMA ReturnSimulated ==
  ASSUME DiskInv, Return
  PROVE  Store!Next
<1>1. UNCHANGED cardVars /\ Returning /\ pc' = "idle" /\ call' = NoCall /\ hd.at = "done"
  BY DEF Return, Returning
<1>2. ~Returning'
  BY <1>1 DEF Returning
<1>3. Store!Collect
  BY <1>1, <1>2, SameCard DEF Store!Collect, Broken
<1> QED
  BY <1>3 DEF Store!Next

\* The reset repairs a card that is in its socket.
LEMMA ResetSimulated ==
  ASSUME DiskInv, Reset \/ ide_setup
  PROVE  Store!Next \/ UNCHANGED Store!storeVars
<1>1. /\ AssertReset /\ pc = "idle" /\ pc' \in {"idle", "identify"} /\ call' = call /\ call = NoCall
  BY DEF Reset, ide_setup, DiskInv, CallInv
<1>2. ~Returning /\ ~Returning' /\ ~Taken /\ ~Taken'
  BY <1>1 DEF Returning, Taken
<1>3. CASE present
  <2>1. /\ store' \in {store, Committed} /\ present' /\ ~err' /\ command' = Cmd("RESET", 0)
        /\ command'.op = "RESET"
    BY <1>1, <1>3, SectorTypes, NoCmdType DEF AssertReset, CmdOps
  <2>2. ~Broken' /\ Committed' = store'
    BY <2>1 DEF Broken, Committed
  <2>3. HalvesOf(Committed)' \in {HalvesOf(Committed), HalvesOf(store)}
        /\ HalvesOf(store)' = HalvesOf(Committed)'
    BY <2>1, <2>2 DEF HalvesOf
  <2>5. Asked = NoCall /\ Asked' = NoCall /\ Answer = Junk /\ Answer' = Junk
    BY <1>1, <1>2 DEF Asked, Answer
  <2>4. Store!Repair
    BY <1>1, <1>2, <2>2, <2>3, <2>5 DEF Store!Repair, Store!Resolve, Broken, Taken, Asked, Answer
  <2> QED
    BY <2>4 DEF Store!Next
<1>4. CASE ~present
  <2>1. command = NoCmd /\ command.op # "COMMIT"
    BY <1>4, NoCmdType DEF DiskInv, CardInv
  <2>2. UNCHANGED cardVars
    BY <1>1, <1>4, <2>1 DEF AssertReset, cardVars, Committed
  <2> QED
    BY <1>1, <1>2, <2>2, SameCard, Stutters DEF Asked, Answer
<1> QED
  BY <1>3, <1>4

\* The card ends what it has taken, or fails.
LEMMA CardSimulated ==
  ASSUME DiskInv, Card, UNCHANGED <<setup, pc, call>>
  PROVE  Store!Next
<1>1. UNCHANGED <<hd, count, bufs, pc, call>> /\ Cmd("HANG", 0).op = "HANG"
  BY NoCmdType, SectorTypes
  DEF Card, CardAnswers, CardReady, CardRefuse, CardError, CardHang, Pull, CmdOps
<1>2. Asked' = Asked /\ Answer' = Answer
  BY <1>1, SameAsked DEF Answer, Returning, Returned, Half, setup
<1>3. CASE CardReady
  <2>1. /\ present /\ present' = present /\ err' = err /\ command.op # "HANG"
        /\ store' = Committed
        /\ command' = IF command.op \in {"COMMIT", "RESET"} THEN NoCmd ELSE command
    BY <1>3 DEF CardReady
  <2>2. Committed' = store'
    BY <2>1, NoCmdType DEF Committed
  <2>3. Broken' = Broken /\ Taken' = Taken
    BY <1>1, <2>1, NoCmdType DEF Broken, Taken
  <2>4. Store!Settle
    BY <1>2, <2>1, <2>2, <2>3 DEF Store!Settle, Broken, Taken, Asked, Answer, HalvesOf
  <2> QED
    BY <2>4 DEF Store!Next
<1>4. CASE CardRefuse \/ CardError \/ CardHang \/ Pull
  <2>1. /\ store' \in {store, Committed} /\ Broken' /\ command'.op # "COMMIT"
        /\ (present' = present \/ ~present')
    BY <1>1, <1>4, NoCmdType DEF CardRefuse, CardError, CardHang, Pull, Broken
  <2>2. Committed' = store'
    BY <2>1 DEF Committed
  <2>3. Broken' = TRUE
    BY <2>1 DEF Broken
  <2>5. Taken' \in {Taken, FALSE}
    <3>1. CASE present' = present
      <4>1. Taken' = Taken
        BY <1>1, <3>1 DEF Taken
      <4> QED
        BY <4>1
    <3>2. CASE ~present'
      <4>1. Taken' = FALSE
        BY <3>2 DEF Taken
      <4> QED
        BY <4>1, Zenon
    <3> QED
      BY <2>1, <3>1, <3>2
  <2>4. Store!Break
    BY <1>2, <2>1, <2>2, <2>3, <2>5
    DEF Store!Break, Store!Resolve, Broken, Taken, Asked, Answer, HalvesOf
  <2> QED
    BY <2>4 DEF Store!Next
<1> QED
  BY <1>3, <1>4 DEF Card, CardAnswers

\* A call that fails reports it of a card that is broken.
LEMMA FailSimulated ==
  ASSUME DiskInv, DiskInv', pc \in {"read", "write"}, hd.at # "done", hd'.at = "done", hd'.rc = -1,
         Broken, UNCHANGED <<cardVars, bufs, pc, call>>
  PROVE  Store!Report
<1>1. ~Returning /\ Returning' /\ ~Taken'
  BY DEF Returning, Taken
<1>2. Answer'.data \in Data \cup {Junk} /\ Answer' = [rc |-> -1, data |-> Answer'.data]
  <2>1. call'.block \in Blocks /\ call'.data \in Data \cup {Junk} /\ bufs'["buffer"] \in Sector
    BY DEF DiskInv, DiskType, IdeType, Bufs
  <2>2. bufs'["buffer"][Half(call'.block)] \in Data \cup {Junk}
    BY <2>1, CallBlock, SectorTypes
  <2> QED
    BY <1>1, <2>1, <2>2 DEF Answer, Returned, Half
<1>3. Asked # NoCall /\ Asked' = NoCall
  BY <1>1, AskedCall DEF Asked
<1> QED
  BY <1>1, <1>2, <1>3, SameCard DEF Store!Report, Broken, Asked, Answer, Taken

LEMMA BusySimulated ==
  ASSUME PromptCard, DiskInv, DiskInv', WaitInv, NEW at, NEW next,
         <<at, next>> \in {<<"pre", "command">>, <<"wait", "data">>},
         hd_busy_wait(at, next), UNCHANGED <<setup, pc, call>>
  PROVE  Store!Next \/ UNCHANGED Store!storeVars
<1>1. /\ hd.at = at /\ at \in {"pre", "wait"} /\ next \in {"command", "data"} /\ hd \in HdType
      /\ UNCHANGED <<cardVars, bufs, pc, call>> /\ ~Returning /\ ~Taken
  BY DEF hd_busy_wait, DiskInv, IdeType, Returning, Taken
<1>2. \/ hd'.at \in {at, next}
      \/ hd'.at = "done" /\ hd'.rc = -1 /\ Broken
  <2>1. [hd EXCEPT !.at = next].at = next
    BY <1>1 DEF HdType
  <2>2. [hd EXCEPT !.at = "done", !.rc = -1].at = "done"
        /\ [hd EXCEPT !.at = "done", !.rc = -1].rc = -1
    BY <1>1 DEF HdType
  <2>3. \/ hd' = hd
        \/ hd' = [hd EXCEPT !.at = next]
        \/ hd' = [hd EXCEPT !.at = "done", !.rc = -1] /\ Broken
    BY WaitBusy
  <2> QED
    BY <1>1, <2>1, <2>2, <2>3
<1>3. CASE hd'.at \in {at, next} \/ pc \notin {"read", "write"}
  <2>1. ~Returning' /\ ~Taken'
    BY <1>1, <1>2, <1>3 DEF Returning, Taken
  <2> QED
    BY <1>1, <2>1, SameCard, SameAsked, Stutters DEF Answer, setup
<1>4. CASE hd'.at = "done" /\ hd'.rc = -1 /\ Broken /\ pc \in {"read", "write"}
  BY <1>1, <1>4, FailSimulated DEF Store!Next
<1> QED
  BY <1>2, <1>3, <1>4

LEMMA CommandSimulated ==
  ASSUME DiskInv, WaitInv, hd_command, UNCHANGED <<setup, pc, call>>
  PROVE  UNCHANGED Store!storeVars
<1>1. /\ hd.at = "command" /\ hd'.at = "wait"
      /\ UNCHANGED <<present, store, pc, call>>
  BY DEF hd_command, To, DiskInv, IdeType, HdType
<1>2. Cmd(hd.op, hd.lba).op \notin {"COMMIT", "HANG"}
  BY DEF Cmd, NoCmd, HdType, HdOps, DiskInv, IdeType
<1>3. command.op # "COMMIT" /\ (present => command.op # "HANG" /\ ~err)
  BY <1>1, NoCmdType DEF WaitInv, DiskInv, CardInv
<1>4. \/ present /\ err' = FALSE /\ command' = Cmd(hd.op, hd.lba)
      \/ ~present /\ UNCHANGED <<busy, err, command>>
  BY DEF hd_command
<1>5. Committed' = Committed /\ HalvesOf(Committed)' = HalvesOf(Committed)
  BY <1>1, <1>2, <1>3, <1>4 DEF Committed, HalvesOf
<1>6. Broken' = Broken
  <2>1. Broken' <=> Broken
    BY <1>1, <1>2, <1>3, <1>4 DEF Broken
  <2> QED
    BY <2>1, Zenon DEF Broken
<1>7. ~Returning /\ ~Taken /\ ~Returning' /\ ~Taken'
  BY <1>1 DEF Returning, Taken
<1> QED
  BY <1>1, <1>5, <1>6, <1>7, SameAsked, Stutters DEF Answer, setup, HalvesOf

\* A write takes effect when the card has its words; a card that has been
\* pulled, or a read, changes no block.
LEMMA WordsSimulated ==
  ASSUME DiskInv, DiskInv', WaitInv, Words, UNCHANGED <<setup, pc, call>>
  PROVE  Store!Next \/ UNCHANGED Store!storeVars
<1>1. /\ hd.at = "data" /\ hd'.at = "status" /\ hd'.op = hd.op /\ hd'.lba = hd.lba
      /\ UNCHANGED <<present, err, store, pc, call>> /\ hd.op \in HdOps
  BY DEF Words, To, DiskInv, IdeType, HdType
<1>2. command.op # "COMMIT" /\ (present => command.op # "HANG" /\ ~err /\ ~busy)
  BY <1>1, NoCmdType DEF WaitInv, DiskInv, CardInv
<1>3. present => Transfers /\ (hd.op # "NONE" => hd.lba \in Lbas)
  BY <1>1, <1>2 DEF Transfers, DiskInv, CardInv
<1>4. ~Returning /\ ~Returning' /\ ~Taken
  BY <1>1 DEF Returning, Taken
<1>5. CASE pc = "write" /\ present
  <2>1. hd.op = "WRITE" /\ call.op = "write" /\ hd.buf = "buffer" /\ Half(call.block) \in {0, 1}
    BY <1>5, CallBlock DEF DiskInv, CallInv
  <2>2. command' = [op |-> "COMMIT", lba |-> hd.lba, data |-> bufs[hd.buf]]
    BY <1>3, <1>5, <2>1 DEF Words, DataOut
  <2>3. Committed' = [store EXCEPT ![hd.lba] = bufs[hd.buf]] /\ Committed = store
    BY <1>1, <1>2, <2>2 DEF Committed
  <2>4. Merged
    BY <1>1, <1>2, <1>5 DEF WaitInv, Broken
  <2>8. HalvesOf(Committed') =
          [HalvesOf(Committed) EXCEPT ![<<hd.lba, Half(call.block)>>] = call.data]
    <3>1. store \in [Lbas -> Sector] /\ hd.lba \in Lbas
      BY <1>3, <1>5, <2>1 DEF DiskInv, IdeType
    <3> DEFINE at == hd.lba
               half == Half(call.block)
               v == call.data
               words == bufs["buffer"]
    <3>2. at \in Lbas /\ half \in {0, 1} /\ words = [store[at] EXCEPT ![half] = v]
      BY <2>1, <2>4, <3>1 DEF Merged
    <3>3. Committed' = [store EXCEPT ![at] = words] /\ Committed = store
      BY <2>1, <2>3
    <3> HIDE DEF at, half, v, words
    <3>4. \A l \in Lbas, h \in {0, 1} :
            Committed'[l][h] = IF l = at /\ h = half THEN v ELSE Committed[l][h]
      BY <3>1, <3>2, <3>3 DEF Sector
    <3>5. \A a \in Lbas \X {0, 1} :
            Committed'[a[1]][a[2]] = IF a = <<at, half>> THEN v ELSE Committed[a[1]][a[2]]
      BY <3>4
    <3>6. HalvesOf(Committed') = [HalvesOf(Committed) EXCEPT ![<<at, half>>] = v]
      BY <3>5 DEF HalvesOf
    <3> QED
      BY <3>6 DEF at, half, v
  <2>9. ~Broken /\ ~Broken' /\ Taken' = TRUE
    BY <1>1, <1>2, <1>5, <2>2 DEF Broken, Taken
  <2>10. /\ Asked # NoCall /\ Asked' = Asked /\ Asked.op = "write" /\ Asked.data = call.data
         /\ Asked.block = <<hd.lba, Half(call.block)>>
    BY <1>1, <1>4, <1>5, <2>1, AskedCall, SameAsked DEF setup
  <2>11. Answer' = Answer
    BY <1>4 DEF Answer
  <2>12. Store!Take
    BY <1>1, <1>3, <1>4, <1>5, <2>1, <2>8, <2>9, <2>10, <2>11
    DEF Store!Take, Broken, Taken, Asked, Answer, HalvesOf
  <2> QED
    BY <2>12 DEF Store!Next
<1>6. CASE ~(pc = "write" /\ present)
  <2>1. ~Taken'
    BY <1>1, <1>6 DEF Taken
  <2>2. command'.op # "COMMIT" /\ (present => command'.op # "HANG")
    <3>1. CASE ~present
      BY <1>2, <3>1, NoCmdType DEF Words, DataOut, DataIn, Transfers
    <3>2. CASE present
      <4>1. hd.op # "WRITE"
        BY <1>6, <3>2 DEF DiskInv, CallInv, Done
      <4> QED
        BY <1>2, <4>1, NoCmdType DEF Words, DataIn
    <3> QED
      BY <3>1, <3>2
  <2>3. HalvesOf(Committed)' = HalvesOf(Committed) /\ HalvesOf(store)' = HalvesOf(store)
    BY <1>1, <1>2, <2>2 DEF Committed, HalvesOf
  <2>4. Broken' = Broken
    <3>1. Broken' <=> Broken
      BY <1>1, <1>2, <2>2 DEF Broken
    <3> QED
      BY <3>1, Zenon DEF Broken
  <2> QED
    BY <1>1, <1>4, <2>1, <2>3, <2>4, SameAsked, Stutters DEF Answer, setup
<1> QED
  BY <1>5, <1>6

LEMMA StatusSimulated ==
  ASSUME DiskInv, DiskInv', WaitInv, LastStatus, UNCHANGED <<setup, pc, call>>
  PROVE  Store!Next \/ UNCHANGED Store!storeVars
<1> DEFINE done == [hd EXCEPT !.at = "done", !.rc = IF ERROR THEN -1 ELSE 0]
<1>1. done.at = "done" /\ (ERROR => done.rc = -1) /\ (~ERROR => done.rc = 0)
  BY DEF DiskInv, IdeType, HdType
<1>2. hd.at = "status" /\ hd' = done /\ UNCHANGED <<cardVars, count, bufs, pc, call>>
  BY DEF LastStatus
<1> HIDE DEF done
<1>3. ~Returning /\ ~Taken'
  BY <1>1, <1>2 DEF Returning, Taken
<1>4. CASE pc \notin {"read", "write"}
  <2>1. ~Returning' /\ ~Taken
    BY <1>2, <1>4 DEF Returning, Taken
  <2> QED
    BY <1>2, <1>3, <2>1, SameCard, SameAsked, Stutters DEF Answer, setup
<1>5. CASE pc \in {"read", "write"} /\ ERROR
  <2>1. Broken
    BY <1>5 DEF ERROR, Broken
  <2> QED
    BY <1>1, <1>2, <1>5, <2>1, FailSimulated DEF Store!Next
<1>6. CASE pc \in {"read", "write"} /\ ~ERROR
  <2>1. /\ Returning' /\ Asked # NoCall /\ Asked' = NoCall /\ present /\ ~err
        /\ Asked.op = call.op /\ Asked.data = call.data
        /\ Asked.block = <<hd.lba, Half(call.block)>>
    <3>1. Returning' /\ present /\ ~err
      BY <1>1, <1>2, <1>6 DEF Returning, ERROR
    <3>2. Asked' = NoCall
      BY <3>1 DEF Asked
    <3> QED
      BY <1>3, <1>6, <3>1, <3>2, AskedCall
  <2>2. Answer' = [rc |-> 0, data |-> IF pc = "read" THEN bufs["buffer"][Half(call.block)]
                                                     ELSE call.data]
    BY <1>1, <1>2, <1>6, <2>1 DEF Answer, Returned, Half
  <2>3. CASE pc = "write"
    <3>1. Taken /\ call.op = "write" /\ Answer' = [rc |-> 0, data |-> call.data]
      BY <1>2, <2>1, <2>2, <2>3 DEF Taken, DiskInv, CallInv
    <3>2. Store!Succeed
      BY <1>2, <1>3, <2>1, <3>1, SameCard DEF Store!Succeed, Broken, Asked, Answer, Taken
    <3> QED
      BY <3>2 DEF Store!Next
  <2>4. CASE pc = "read"
    <3>1. call.op = "read" /\ hd.op = "READ"
      BY <2>4 DEF DiskInv, CallInv
    <3>2. bufs[hd.buf] = store[hd.lba] /\ hd.lba \in Lbas /\ command.op # "COMMIT" /\ ~busy
      BY <1>2, <2>1, <3>1 DEF DiskInv, CardInv, HasRead, WaitInv
    <3>3. ~Broken /\ Committed = store
      BY <2>1, <3>2 DEF Broken, Committed, DiskInv, CardInv
    <3>4. bufs["buffer"][Half(call.block)] = HalvesOf(Committed)[<<hd.lba, Half(call.block)>>]
      <4>1. HalvesOf(store)[<<hd.lba, Half(call.block)>>] = store[hd.lba][Half(call.block)]
        BY <2>4, <3>2, CallBlock, HalvesIn
      <4> QED
        BY <2>4, <3>2, <3>3, <4>1, CallBlock
    <3>5. Store!Succeed
      BY <1>2, <1>3, <2>1, <2>2, <2>4, <3>1, <3>2, <3>3, <3>4, SameCard, CallBlock
      DEF Store!Succeed, Broken, Asked, Answer, Taken
    <3> QED
      BY <3>5 DEF Store!Next
  <2> QED
    BY <1>6, <2>3, <2>4
<1> QED
  BY <1>4, <1>5, <1>6

\* disk.c over ide.c is a BlockStore: with a prompt card, whatever the card
\* fails to do and whenever it leaves, and for a block inside a partition or
\* not, a call that returns 0 has done what it says to its half sector and to
\* no other, one that fails says that the card has failed, and the rest is
\* not lost.
THEOREM BlockStoreImplemented ==
  ASSUME PromptCard
  PROVE  Spec => ImplementsBlockStore
<1>1. Init => Store!Init
  <2> SUFFICES ASSUME Init PROVE Store!Init
    OBVIOUS
  <2>1. DiskInv
    BY InitInv
  <2>2. Committed = store
    BY NoCmdType DEF Init, Committed
  <2>3. HalvesOf(Committed) \in [Lbas \X {0, 1} -> Data \cup {Junk}]
    BY <2>1, HalvesIn
  <2>4. ~Returning /\ call = NoCall /\ ~Taken
    BY DEF Init, Returning, Taken
  <2> QED
    BY <2>2, <2>3, <2>4 DEF Store!Init, Taken, Asked, Answer
<1>2. DiskInv /\ DiskInv' /\ WaitInv /\ [Next]_diskVars => [Store!Next]_(Store!storeVars)
  <2> SUFFICES ASSUME DiskInv, DiskInv', WaitInv, [Next]_diskVars
               PROVE  Store!Next \/ UNCHANGED Store!storeVars
    OBVIOUS
  <2>1. CASE Driver /\ UNCHANGED <<setup, pc, call>>
    BY <2>1, BusySimulated, CommandSimulated, WordsSimulated, StatusSimulated DEF Driver
  <2>2. CASE MainLoop /\ ~(Driver /\ UNCHANGED <<setup, pc, call>>)
    BY <2>2, QuietSimulated, ReturnSimulated DEF MainLoop
  <2>3. CASE Controllers
    BY <2>3, CallSimulated DEF Controllers
  <2>4. CASE Reset \/ Show \/ ide_setup
    BY <2>4, ResetSimulated, QuietSimulated
  <2>5. CASE Card /\ UNCHANGED <<setup, pc, call>>
    BY <2>5, CardSimulated
  <2>6. CASE UNCHANGED diskVars
    <3>1. UNCHANGED <<cardVars, hd, bufs, part_map, pc, call>>
      BY <2>6 DEF diskVars, ideVars
    <3> QED
      BY <3>1, SameCard, SameAsked, Stutters DEF cardVars, Answer, Returning, Returned, Taken, Half
  <2> QED
    BY <2>1, <2>2, <2>3, <2>4, <2>5, <2>6 DEF Next
<1> QED
  BY <1>1, <1>2, DiskInvAlways, WaitAlways, PTL DEF Spec, ImplementsBlockStore, Store!Spec
=============================================================================
