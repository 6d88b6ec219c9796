----------------------------- MODULE RlTransfer -----------------------------
(***************************************************************************)
(* The arithmetic of an RL11 data transfer: the cases READ, WRITE and      *)
(* WRITECHK of rl11_poll (rl.c), with the widths of its variables, which   *)
(* Rl11 leaves out.  A word of memory is known by its address and a word   *)
(* of the disk by its block and its place there, so that a copy shows      *)
(* where each word came from.                                              *)
(***************************************************************************)
EXTENDS Integers

CONSTANTS
  WordSpace,   \* values of a u_short (2^16)
  CharSpace,   \* values of a u_char (2^8)
  Block,       \* words of a block (128)
  Track,       \* sectors of a track (40)
  SectSpace,   \* values of the sector field of DA (64)
  StartDa, StartAddr, StartMp, \* the registers a host sets: DA, the address in
                               \* BA and CS, and the word count in MP
  Bad          \* words of memory that differ from the disk

ASSUME TransferAssumption ==
  /\ {WordSpace, CharSpace, Block, Track, SectSpace} \subseteq Nat \ {0}
  /\ WordSpace % 2 = 0 /\ WordSpace % SectSpace = 0
  /\ StartDa \subseteq 0 .. WordSpace - 1
  /\ StartAddr \subseteq {a \in 0 .. 4 * WordSpace - 1 : a % 2 = 0}
  /\ StartMp \subseteq 0 .. WordSpace - 1

VARIABLES
  step,        \* "setup", "loop" or "done"
  func,
  ba, ba1617, da, mp0,  \* the registers
  err, e,      \* CS_ERR, and the error field of CS
  phys_addr, wlen, blockno,
  buffer2,     \* bytes of the block to be written
  memory,      \* what a READ put into memory
  disk,        \* the bytes of the blocks a WRITE wrote
  start        \* history: the registers at the start

transferVars == <<step, func, ba, ba1617, da, mp0, err, e, phys_addr, wlen,
                  blockno, buffer2, memory, disk, start>>

Bytes  == 0 .. 2 * Block - 1
Blocks == 0 .. (WordSpace \div SectSpace) * Track - 1  \* of the tracks that DA can name
Zero  == -1   \* a byte that memset cleared
Stale == -2   \* a byte of an earlier command

CS_E_OPI  == 1
CS_E_DCRC == 2
\* cs |= x: the codes share bits.
Or(a, b) == CHOOSE c \in 0 .. 3 :
  \A bit \in {1, 2} : ((c \div bit) % 2 = 1) <=> ((a \div bit) % 2 = 1 \/ (b \div bit) % 2 = 1)

Short(n) == LET u == n % WordSpace IN IF u >= WordSpace \div 2 THEN u - WordSpace ELSE u
Wrap18(a) == a % (4 * WordSpace)

-----------------------------------------------------------------------------
\* Mutant: clamps to a whole track.
SectorsLeftTrack(d) == Track
\* max_sectors, a u_char.
SectorsLeft(d) == (Track - (d % SectSpace)) % CharSpace

Setup ==
  LET n     == Short(-mp0)
      left  == SectorsLeft(da) * Block
      words == IF n > left THEN left ELSE n
  IN /\ step = "setup"
     /\ phys_addr' = ba1617 * WordSpace + ba
     /\ wlen' = words
     /\ blockno' = (da \div SectSpace) * Track + (da % SectSpace)
     /\ IF words < 0 THEN step' = "done" /\ e' = Or(e, CS_E_OPI)
                     ELSE step' = "loop" /\ UNCHANGED e
     /\ UNCHANGED <<func, ba, ba1617, da, mp0, err, buffer2, memory, disk, start>>

swlen == IF wlen > Block THEN Block ELSE wlen

\* Mutant: the block is written at the next place.
WriteNext(buf) == [disk EXCEPT ![blockno + 1] = buf]
WriteBlock(buf) == [disk EXCEPT ![blockno] = buf]

\* One block between the disk and memory.  A short block is filled up by a
\* memset that starts at byte swlen, not at word swlen.
Read ==
  /\ func = "READ"
  /\ memory' = memory \cup {<<Wrap18(phys_addr + 2 * i), blockno, i>> : i \in 0 .. swlen - 1}
  /\ UNCHANGED <<err, e, buffer2, disk>>
Check ==
  /\ func = "WRITECHK"
  /\ IF \E i \in 0 .. swlen - 1 : Wrap18(phys_addr + 2 * i) \in Bad
       THEN err' = TRUE /\ e' = Or(e, CS_E_DCRC) ELSE UNCHANGED <<err, e>>
  /\ buffer2' = [j \in Bytes |-> IF j < 2 * swlen THEN Wrap18(phys_addr + j) ELSE buffer2[j]]
  /\ UNCHANGED <<memory, disk>>
Write ==
  /\ func = "WRITE"
  /\ buffer2' = [j \in Bytes |->
       IF swlen < Block /\ j \in swlen .. swlen + 2 * (Block - swlen) - 1 THEN Zero
       ELSE IF j < 2 * swlen THEN Wrap18(phys_addr + j) ELSE buffer2[j]]
  /\ disk' = WriteBlock(buffer2')
  /\ UNCHANGED <<err, e, memory>>

\* Mutant: the address bits in CS do not take the carry.
MoveOnNoCarry ==
  /\ mp0' = (mp0 + swlen) % WordSpace
  /\ phys_addr' = phys_addr + 2 * swlen
  /\ ba' = phys_addr' % WordSpace /\ UNCHANGED ba1617
  /\ da' = (da + 1) % WordSpace
  /\ blockno' = blockno + 1 /\ wlen' = wlen - swlen

\* Mutant: MP is not kept to 16 bits.
MoveOnWide ==
  /\ mp0' = mp0 + swlen
  /\ phys_addr' = phys_addr + 2 * swlen
  /\ ba' = phys_addr' % WordSpace /\ ba1617' = (phys_addr' \div WordSpace) % 4
  /\ da' = (da + 1) % WordSpace
  /\ blockno' = blockno + 1 /\ wlen' = wlen - swlen

\* The registers and the variables of the loop after a block.
MoveOn ==
  /\ mp0' = (mp0 + swlen) % WordSpace
  /\ phys_addr' = phys_addr + 2 * swlen
  /\ ba' = (phys_addr' % WordSpace) - (phys_addr' % 2)
  /\ ba1617' = (phys_addr' \div WordSpace) % 4
  /\ da' = (da + 1) % WordSpace
  /\ blockno' = blockno + 1 /\ wlen' = wlen - swlen

Sector ==
  /\ step = "loop" /\ wlen > 0
  /\ Read \/ Check \/ Write
  /\ MoveOn
  /\ UNCHANGED <<step, func, start>>

\* Mutant: the word count is not looked at.
EndNoCheck ==
  /\ step = "loop" /\ wlen <= 0 /\ step' = "done"
  /\ UNCHANGED <<func, ba, ba1617, da, mp0, err, e, phys_addr, wlen, blockno,
                 buffer2, memory, disk, start>>

\* A word count that is not used up is an error.
End ==
  /\ step = "loop" /\ wlen <= 0 /\ step' = "done"
  /\ IF mp0 # 0 THEN err' = TRUE /\ e' = Or(e, CS_E_OPI) ELSE UNCHANGED <<err, e>>
  /\ UNCHANGED <<func, ba, ba1617, da, mp0, phys_addr, wlen, blockno, buffer2,
                 memory, disk, start>>

Init ==
  /\ step = "setup" /\ func \in {"READ", "WRITE", "WRITECHK"}
  /\ \E addr \in StartAddr : ba = addr % WordSpace /\ ba1617 = addr \div WordSpace
  /\ da \in StartDa /\ mp0 \in StartMp /\ err = FALSE /\ e = 0
  /\ phys_addr = 0 /\ wlen = 0 /\ blockno = 0
  /\ buffer2 = [j \in Bytes |-> Stale] /\ memory = {}
  /\ disk = [b \in Blocks |-> [j \in Bytes |-> Stale]]
  /\ start = [addr |-> ba1617 * WordSpace + ba, da |-> da, mp |-> mp0]
Next == Setup \/ Sector \/ End
Spec == Init /\ [][Next]_transferVars

-----------------------------------------------------------------------------
(* What the transfer of start is to do, without the code's arithmetic.     *)
Count     == IF start.mp = 0 THEN 0 ELSE WordSpace - start.mp
FirstSect == start.da % SectSpace
OnTrack   == (start.da \div SectSpace) * Track
\* wlen is a short: it takes half of the counts of MP to be negative, and
\* the code moves nothing.
Refused   == Count >= WordSpace \div 2
Room      == (Track - FirstSect) * Block
Wanted    == IF Count > Room THEN Room ELSE Count
Moved     == (mp0 - start.mp) % WordSpace
BlockOf(i) == OnTrack + FirstSect + i \div Block

TransferTypeOK ==
  /\ step \in {"setup", "loop", "done"} /\ ba \in 0 .. WordSpace - 1 /\ ba1617 \in 0 .. 3
  /\ da \in 0 .. WordSpace - 1 /\ mp0 \in 0 .. WordSpace - 1 /\ e \in 0 .. 3 /\ err \in BOOLEAN
  /\ wlen \in -(WordSpace \div 2) .. WordSpace \div 2 - 1

\* BA, BA16 and BA17 follow the words moved across the 64K boundaries.
AddressFollows ==
  step = "loop" => ba1617 * WordSpace + ba = Wrap18(start.addr + 2 * Moved)

\* A READ copies the words of the track from the sector in DA on to
\* consecutive addresses, as many as were asked for and the track has; none
\* when the count is refused.
ReadCopies ==
  (step = "done" /\ func = "READ") =>
    memory = IF Refused THEN {}
             ELSE {<<Wrap18(start.addr + 2 * i), BlockOf(i), i % Block>> : i \in 0 .. Wanted - 1}

\* A WRITE copies consecutive words to every sector that they fill; it writes
\* none when the count is refused.
WriteCopies ==
  (step = "done" /\ func = "WRITE") =>
    IF Refused THEN \A b \in DOMAIN disk : disk[b][0] = Stale
    ELSE \A i \in 0 .. (Wanted \div Block) * Block - 1 : \A j \in {0, 1} :
           disk[BlockOf(i)][2 * (i % Block) + j] = Wrap18(start.addr + 2 * i + j)

\* A transfer copies the words it was asked to, and all of them, or, for a
\* count that wlen takes to be negative, nothing at all.
WordsCopied == ReadCopies /\ WriteCopies

\* OPI tells a transfer that left words of its count unmoved from one that
\* moved them all, and CS_ERR comes with it where the track was too short.  A
\* count of half of all words or more is the exception, and a defect: it is
\* refused with OPI (rl.c:426) but without the CS_ERR that a driver looks at.
ShortMeansOpi == step = "done" =>
  /\ e % 2 = CS_E_OPI <=> Refused \/ Wanted < Count
  /\ ~Refused /\ Wanted < Count => err
  /\ Refused => ~err

\* rl.c:419, "clamp wlen at remaining sectors": a transfer that begins on its
\* track touches no block of another.
StaysOnTrack ==
  /\ \A w \in memory : w[2] \in OnTrack .. OnTrack + Track - 1
  /\ \A b \in DOMAIN disk \ (OnTrack .. OnTrack + Track - 1) : disk[b][0] = Stale

\* rl.c:487, "resid_bytes": a last block that the words do not fill holds
\* them, and zeros after them.
ResidueZeroed ==
  (step = "done" /\ func = "WRITE" /\ wlen >= 0 /\ Wanted % Block # 0) =>
    disk[BlockOf(Wanted)] = [j \in Bytes |->
      IF j < 2 * (Wanted % Block)
        THEN Wrap18(start.addr + 2 * (Wanted - (Wanted % Block)) + j) ELSE Zero]

=============================================================================
