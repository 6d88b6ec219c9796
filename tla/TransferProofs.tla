--------------------------- MODULE TransferProofs ---------------------------
(***************************************************************************)
(* Proofs about the arithmetic of an RL11 transfer (RlTransfer), for words *)
(* of any even number of values, blocks and tracks of any size, any        *)
(* registers the host sets and any number of blocks.                       *)
(***************************************************************************)
EXTENDS RlTransfer, TLAPS

\* The sectors of a track fit max_sectors, a u_char, and the sector that the
\* host names is one of the track.
SectorOfTrack == Track < CharSpace /\ \A d \in StartDa : d % SectSpace < Track

-----------------------------------------------------------------------------
(* What holds after every block.                                           *)
Funcs  == {"READ", "WRITE", "WRITECHK"}
Base   == OnTrack + FirstSect  \* the first block
SoFar  == Wanted - wlen        \* words moved
BlocksMoved == blockno - Base      \* blocks moved

Moves(n) == {<<Wrap18(start.addr + 2 * i), BlockOf(i), i % Block>> : i \in 0 .. n - 1}

RegType ==
  /\ step \in {"setup", "loop", "done"} /\ func \in Funcs
  /\ ba \in 0 .. WordSpace - 1 /\ ba1617 \in 0 .. 3 /\ da \in 0 .. WordSpace - 1
  /\ mp0 \in 0 .. WordSpace - 1 /\ e \in 0 .. 3 /\ err \in BOOLEAN
  /\ wlen \in -(WordSpace \div 2) .. WordSpace \div 2 - 1
  /\ start \in [addr : 0 .. 4 * WordSpace - 1, da : 0 .. WordSpace - 1, mp : 0 .. WordSpace - 1]
  /\ start.addr % 2 = 0 /\ FirstSect < Track
  /\ buffer2 \in [Bytes -> Int] /\ disk \in [Blocks -> [Bytes -> Int]]

Untouched == memory = {} /\ \A b \in Blocks : disk[b][0] = Stale

AtStart ==
  /\ start.addr = ba1617 * WordSpace + ba /\ start.da = da /\ start.mp = mp0
  /\ wlen = 0 /\ Untouched

Numbers ==
  /\ wlen \in 0 .. Wanted /\ Wanted < WordSpace \div 2
  /\ blockno \in Int /\ BlocksMoved \in Nat
  /\ wlen > 0 => SoFar = Block * BlocksMoved
  /\ phys_addr = start.addr + 2 * SoFar
  /\ mp0 = (start.mp + SoFar) % WordSpace
  /\ ba1617 * WordSpace + ba = Wrap18(phys_addr)

Copied ==
  /\ memory = IF func = "READ" THEN Moves(SoFar) ELSE {}
  /\ func = "WRITE" => \A i \in 0 .. SoFar - 1 : i < (Wanted \div Block) * Block =>
       \A j \in {0, 1} : disk[BlockOf(i)][2 * (i % Block) + j] = Wrap18(start.addr + 2 * i + j)
  /\ \A b \in Blocks : b < Base \/ b >= OnTrack + Track => disk[b][0] = Stale

TransferInv ==
  /\ RegType
  /\ step = "setup" => AtStart
  /\ step = "loop" => Numbers /\ Copied
  /\ step = "done" /\ wlen < 0 => Untouched
  /\ step = "done" /\ wlen >= 0 =>
       Numbers /\ Copied /\ wlen = 0 /\ (mp0 # 0 => err = TRUE /\ e % 2 = 1)

-----------------------------------------------------------------------------
(* Remainders.                                                             *)
LEMMA DivMod ==
  ASSUME NEW a \in Int, NEW b \in Nat \ {0}
  PROVE  /\ a \div b \in Int /\ a % b \in 0 .. b - 1
         /\ a = b * (a \div b) + (a % b)
BY Z3

LEMMA TimesAtLeast ==
  ASSUME NEW k \in Int, NEW b \in Nat \ {0}
  PROVE  /\ k >= 1 => b * k >= b
         /\ k <= -1 => b * k <= -b
BY Z3

LEMMA DivUnique ==
  ASSUME NEW a \in Int, NEW b \in Nat \ {0}, NEW q \in Int, NEW r \in 0 .. b - 1, a = b * q + r
  PROVE  a \div b = q /\ a % b = r
<1>1. /\ a \div b \in Int /\ a % b \in 0 .. b - 1
      /\ a = b * (a \div b) + (a % b)
  BY DivMod
<1> DEFINE p == a \div b
           s == a % b
           d == p - q
<1>2. p \in Int /\ s \in 0 .. b - 1 /\ a = b * p + s
  BY <1>1
<1> HIDE DEF p, s
<1>3. d \in Int /\ b * d = b * p - b * q
  BY <1>2
<1>4. b * d = r - s
  BY <1>2, <1>3
<1>5. b * d < b /\ b * d > -b
  BY <1>2, <1>4
<1>6. (d >= 1 => b * d >= b) /\ (d <= -1 => b * d <= -b)
  BY <1>3, TimesAtLeast
<1>7. d = 0
  BY <1>3, <1>5, <1>6
<1> QED
  BY <1>2, <1>4, <1>7 DEF p, s

LEMMA ModOfSum ==
  ASSUME NEW a \in Int, NEW c \in Int, NEW b \in Nat \ {0}
  PROVE  ((a % b) + c) % b = (a + c) % b
<1>0. a + c \in Int
  OBVIOUS
<1> DEFINE q == (a + c) \div b - (a \div b)
           r == (a + c) % b
<1>1. /\ a \div b \in Int /\ a % b \in Int /\ a = b * (a \div b) + (a % b)
      /\ (a + c) \div b \in Int /\ r \in 0 .. b - 1 /\ a + c = b * ((a + c) \div b) + r
  <2>1. \A x \in Int : /\ x \div b \in Int /\ x % b \in Int /\ x % b \in 0 .. b - 1
                       /\ x = b * (x \div b) + (x % b)
    BY DivMod
  <2> QED
    BY <1>0, <2>1
<1>2. q \in Int /\ (a % b) + c \in Int /\ b * q = b * ((a + c) \div b) - b * (a \div b)
  BY <1>1
<1>3. (a % b) + c = b * q + r
  BY <1>1, <1>2
<1> HIDE DEF q, r
<1> QED
  BY <1>1, <1>2, <1>3, DivUnique DEF r

LEMMA DivBlock ==
  ASSUME NEW a \in Int, NEW b \in Nat \ {0}
  PROVE  a \div b \in Int /\ a % b \in 0 .. b - 1 /\ a = b * (a \div b) + (a % b) /\ a % b \in Int
<1>1. a \div b \in Int /\ a % b \in 0 .. b - 1 /\ a = b * (a \div b) + (a % b)
  BY DivMod
<1>2. \A x \in 0 .. b - 1 : x \in Int
  OBVIOUS
<1> QED
  BY <1>1, <1>2

LEMMA SmallMod ==
  ASSUME NEW b \in Nat \ {0}, NEW a \in 0 .. b - 1
  PROVE  a % b = a /\ a \div b = 0
BY Z3

\* Twice half a word.
LEMMA Halves ==
  /\ WordSpace \in Nat \ {0} /\ CharSpace \in Nat \ {0} /\ Block \in Nat \ {0}
  /\ Track \in Nat \ {0} /\ SectSpace \in Nat \ {0}
  /\ WordSpace \div 2 \in Nat \ {0} /\ WordSpace = 2 * (WordSpace \div 2)
<1>1. /\ WordSpace \in Nat \ {0} /\ CharSpace \in Nat \ {0} /\ Block \in Nat \ {0}
      /\ Track \in Nat \ {0} /\ SectSpace \in Nat \ {0} /\ WordSpace % 2 = 0
  BY TransferAssumption
<1> QED
  BY <1>1

\* The word count of a command: what the two's complement in MP stands for.
LEMMA ShortOf ==
  ASSUME NEW mp \in 0 .. WordSpace - 1
  PROVE  Short(-mp) = IF mp = 0 THEN 0 ELSE IF WordSpace - mp >= WordSpace \div 2 THEN -mp
                      ELSE WordSpace - mp
<1>1. CASE mp = 0
  <2>1. (-mp) % WordSpace = 0
    <3>1. 0 \in 0 .. WordSpace - 1 /\ -mp = WordSpace * 0 + 0 /\ -mp \in Int
      BY <1>1, Halves
    <3> QED
      BY <3>1, Halves, DivUnique
  <2> QED
    BY <1>1, <2>1, Halves DEF Short
<1>2. CASE mp # 0
  <2>1. (-mp) % WordSpace = WordSpace - mp
    <3>1. WordSpace - mp \in 0 .. WordSpace - 1 /\ -mp = WordSpace * (-1) + (WordSpace - mp)
          /\ -mp \in Int /\ -1 \in Int
      BY <1>2, Halves
    <3> QED
      BY <3>1, Halves, DivUnique
  <2> QED
    BY <1>2, <2>1, Halves DEF Short
<1> QED
  BY <1>1, <1>2

\* Where a word of the transfer goes: the k-th block, the i-th word there.
LEMMA WordAt ==
  ASSUME NEW k \in Nat, NEW i \in 0 .. Block - 1
  PROVE  (Block * k + i) \div Block = k /\ (Block * k + i) % Block = i
<1>1. Block \in Nat \ {0} /\ Block * k \in Int
  BY Halves
<1>2. Block * k + i \in Int
  BY <1>1
<1> QED
  BY <1>1, <1>2, DivUnique

LEMMA LessTimes ==
  ASSUME NEW k \in Int, NEW r \in Int, Block * k < Block * r
  PROVE  k < r
<1>1. Block \in Nat \ {0}
  BY Halves
<1>2. k - r \in Int /\ Block * (k - r) = Block * k - Block * r
  BY <1>1
<1>3. k - r >= 1 => Block * (k - r) >= Block
  BY <1>1, <1>2, TimesAtLeast
<1>4. Block * k \in Int /\ Block * r \in Int
  BY <1>1
<1>5. Block * k = Block * r => FALSE
  BY <1>4
<1> QED
  BY <1>1, <1>2, <1>3, <1>5

\* BA, BA16 and BA17 hold an address modulo 2^18.
LEMMA AddressBits ==
  ASSUME NEW a \in Nat, a % 2 = 0
  PROVE  /\ (a % WordSpace) - (a % 2) \in 0 .. WordSpace - 1
         /\ (a \div WordSpace) % 4 \in 0 .. 3
         /\ ((a \div WordSpace) % 4) * WordSpace + ((a % WordSpace) - (a % 2)) = Wrap18(a)
<1> DEFINE q == a \div WordSpace
           r == a % WordSpace
           c == q \div 4
           d == q % 4
<1>1. q \in Int /\ r \in 0 .. WordSpace - 1 /\ a = WordSpace * q + r
  BY Halves, DivMod
<1> HIDE DEF q, r
<1>2. c \in Int /\ d \in 0 .. 3 /\ q = 4 * c + d
  BY <1>1
<1> HIDE DEF c, d
<1>3. WordSpace * q = (4 * WordSpace) * c + WordSpace * d
  BY <1>2, Halves
<1>4. d = 0 \/ d = 1 \/ d = 2 \/ d = 3
  BY <1>2
<1>5. WordSpace * d + r \in 0 .. 4 * WordSpace - 1
  BY <1>1, <1>4, Halves
<1>6. 4 * WordSpace \in Nat \ {0} /\ a = (4 * WordSpace) * c + (WordSpace * d + r)
  <2>1. (4 * WordSpace) * c \in Int /\ WordSpace * d \in Int
    BY <1>2, Halves
  <2> QED
    BY <1>1, <1>3, <2>1, Halves
<1>7. a % (4 * WordSpace) = WordSpace * d + r
  BY <1>2, <1>5, <1>6, DivUnique
<1>8. a % 2 = 0 /\ r - 0 = r /\ d * WordSpace = WordSpace * d
  BY <1>1, <1>2, Halves
<1> QED
  BY <1>1, <1>2, <1>7, <1>8 DEF Wrap18, q, r, c, d

LEMMA OrBits ==
  ASSUME NEW a \in 0 .. 3, NEW b \in {1, 2}
  PROVE  Or(a, b) \in 0 .. 3 /\ (b = 1 => Or(a, b) % 2 = 1) /\ (b = 2 => Or(a, b) % 2 = a % 2)
<1>2. \E c \in 0 .. 3 :
        \A bit \in {1, 2} : ((c \div bit) % 2 = 1) <=> ((a \div bit) % 2 = 1 \/ (b \div bit) % 2 = 1)
  <2>1. a = 0 \/ a = 1 \/ a = 2 \/ a = 3
    OBVIOUS
  <2> QED
    BY <2>1
<1> QED
  <2>1. /\ Or(a, b) \in 0 .. 3
        /\ \A bit \in {1, 2} : ((Or(a, b) \div bit) % 2 = 1)
                                <=> ((a \div bit) % 2 = 1 \/ (b \div bit) % 2 = 1)
    BY <1>2 DEF Or
  <2>2. ((Or(a, b) \div 1) % 2 = 1) <=> ((a \div 1) % 2 = 1 \/ (b \div 1) % 2 = 1)
    BY <2>1
  <2>3. ASSUME b = 1 PROVE Or(a, b) % 2 = 1
    <3> DEFINE c == Or(a, b)
    <3>1. c \in 0 .. 3 /\ (c \div 1) % 2 = 1
      BY <2>1, <2>2, <2>3
    <3> HIDE DEF c
    <3>2. c % 2 = 1
      BY <3>1
    <3> QED
      BY <3>2 DEF c
  <2>4. ASSUME b = 2 PROVE Or(a, b) % 2 = a % 2
    <3> DEFINE c == Or(a, b)
    <3>1. c \in 0 .. 3 /\ ((c \div 1) % 2 = 1 <=> (a \div 1) % 2 = 1)
      BY <2>1, <2>2, <2>4
    <3> HIDE DEF c
    <3>2. \A x \in 0 .. 3 : x \div 1 = x /\ x % 2 \in {0, 1}
      OBVIOUS
    <3>3. c % 2 = a % 2
      BY <3>1, <3>2
    <3> QED
      BY <3>3 DEF c
  <2> QED
    BY <2>1, <2>3, <2>4

-----------------------------------------------------------------------------
(* The command as the host gave it.                                        *)
LEMMA Asked ==
  ASSUME RegType, SectorOfTrack
  PROVE  /\ FirstSect \in 0 .. Track - 1 /\ Room \in Nat \ {0} /\ Room = Block * (Track - FirstSect)
         /\ Count \in 0 .. WordSpace /\ Wanted \in 0 .. Count /\ Wanted <= Room
         /\ SectorsLeft(start.da) = Track - FirstSect
         /\ OnTrack \in Nat /\ Base \in Nat
         /\ OnTrack + Track <= (WordSpace \div SectSpace) * Track
<1>1. start.da \in 0 .. WordSpace - 1 /\ start.mp \in 0 .. WordSpace - 1 /\ FirstSect < Track
  BY DEF RegType
<1>0. \A a \in Int : /\ a \div SectSpace \in Int /\ a % SectSpace \in 0 .. SectSpace - 1
                     /\ a = SectSpace * (a \div SectSpace) + (a % SectSpace)
  BY Halves, DivMod
<1>2. FirstSect \in 0 .. Track - 1 /\ FirstSect \in 0 .. SectSpace - 1
  BY <1>0, <1>1, Halves DEF FirstSect
<1>3. Track - FirstSect \in Nat \ {0} /\ Track - FirstSect \in 0 .. CharSpace - 1
  BY <1>2, Halves DEF SectorOfTrack
<1>4. SectorsLeft(start.da) = Track - FirstSect
  BY <1>3, Halves, SmallMod DEF SectorsLeft, FirstSect
<1>5. Room = Block * (Track - FirstSect) /\ Room \in Nat \ {0}
  <2> DEFINE l == Track - FirstSect
  <2>1. l \in Nat \ {0}
    BY <1>3
  <2> HIDE DEF l
  <2>2. l * Block = Block * l /\ Block * l >= Block
    BY <2>1, Halves, TimesAtLeast
  <2> QED
    BY <2>1, <2>2, Halves DEF Room, l
<1>6. Count \in 0 .. WordSpace
  BY <1>1, Halves DEF Count
<1>7. Wanted \in 0 .. Count /\ Wanted <= Room
  BY <1>5, <1>6 DEF Wanted
<1>8. OnTrack \in Nat /\ OnTrack + Track <= (WordSpace \div SectSpace) * Track
  <2> DEFINE q == start.da \div SectSpace
             n == WordSpace \div SectSpace
  <2>1. q \in Int /\ FirstSect \in Nat /\ start.da = SectSpace * q + FirstSect
    BY <1>0, <1>1, <1>2 DEF FirstSect
  <2>2. n \in Int /\ WordSpace = SectSpace * n
    BY Halves, DivMod, TransferAssumption
  <2> HIDE DEF q, n
  <2>4. q >= 0
    <3>1. q <= -1 => SectSpace * q <= -SectSpace
      BY <2>1, Halves, TimesAtLeast
    <3>2. SectSpace * q \in Int
      BY <2>1, Halves
    <3> QED
      BY <1>1, <1>2, <2>1, <3>1, <3>2, Halves
  <2>5. n - q >= 1
    <3>1. n - q \in Int /\ SectSpace * (n - q) = SectSpace * n - SectSpace * q
      BY <2>1, <2>2, Halves
    <3>2. SectSpace * (n - q) >= 1
      BY <1>1, <2>1, <2>2, <3>1, Halves
    <3>3. n - q <= -1 => SectSpace * (n - q) <= -SectSpace
      BY <3>1, Halves, TimesAtLeast
    <3>4. n - q = 0 => SectSpace * (n - q) = 0
      BY Halves
    <3> QED
      BY <3>1, <3>2, <3>3, <3>4, Halves
  <2>6. (n - q) * Track = Track * (n - q) /\ Track * (n - q) >= Track
    BY <2>1, <2>2, <2>5, Halves, TimesAtLeast
  <2>7. q * Track \in Nat /\ n * Track = q * Track + (n - q) * Track
    BY <2>1, <2>2, <2>4, Halves
  <2>8. q * Track + Track <= n * Track
    <3>1. (n - q) * Track >= Track /\ (n - q) * Track \in Int
      BY <2>1, <2>2, <2>6, Halves
    <3> QED
      BY <2>7, <3>1, Halves
  <2> QED
    BY <2>7, <2>8 DEF OnTrack, q, n
<1> QED
  BY <1>2, <1>4, <1>5, <1>6, <1>7, <1>8 DEF Base

\* The next block is on the track, while there are words to be moved.
LEMMA NextBlock ==
  ASSUME RegType, SectorOfTrack, Numbers, wlen > 0
  PROVE  /\ blockno = Base + BlocksMoved /\ blockno < OnTrack + Track /\ blockno \in Blocks
         /\ SoFar = Block * BlocksMoved /\ SoFar \in 0 .. Wanted - 1 /\ swlen \in 1 .. Block
         /\ swlen <= wlen /\ (swlen < Block => swlen = wlen)
<1> DEFINE k == BlocksMoved
           l == Track - FirstSect
<1>1. /\ FirstSect \in 0 .. Track - 1 /\ Room = Block * (Track - FirstSect) /\ Wanted \in Nat
      /\ Wanted <= Room /\ OnTrack \in Nat /\ Base \in Nat
      /\ OnTrack + Track <= (WordSpace \div SectSpace) * Track
  BY Asked
<1>2. k \in Nat /\ SoFar = Block * k /\ wlen \in 0 .. Wanted /\ SoFar = Wanted - wlen
  BY DEF Numbers, SoFar
<1>3. l \in Int /\ Room = Block * l
  BY <1>1, Halves
<1>4. k < l
  <2> HIDE DEF k, l
  <2>1. Block * k < Block * l
    BY <1>1, <1>2, <1>3
  <2> QED
    BY <1>2, <1>3, <2>1, LessTimes
<1>5. blockno = Base + k
  BY <1>1, <1>2 DEF BlocksMoved, Numbers
<1>6. blockno < OnTrack + Track /\ blockno \in Nat
  BY <1>1, <1>2, <1>4, <1>5, Halves DEF Base
<1>7. blockno \in Blocks
  <2>1. (WordSpace \div SectSpace) * Track \in Int
    BY Halves, DivMod
  <2> QED
    BY <1>1, <1>6, <2>1, Halves DEF Blocks
<1>8. swlen \in 1 .. Block /\ swlen <= wlen /\ (swlen < Block => swlen = wlen)
  BY <1>2, Halves DEF swlen
<1>9. SoFar \in 0 .. Wanted - 1
  BY <1>1, <1>2
<1> QED
  BY <1>2, <1>5, <1>6, <1>7, <1>8, <1>9

LEMMA SameStart ==
  ASSUME start' = start
  PROVE  /\ Wanted' = Wanted /\ Base' = Base /\ Count' = Count /\ OnTrack' = OnTrack
         /\ FirstSect' = FirstSect /\ \A i : (BlockOf(i))' = BlockOf(i)
BY DEF Wanted, Count, Room, FirstSect, Base, OnTrack, BlockOf

\* The registers after a block.
LEMMA MoveOnKeeps ==
  ASSUME RegType, SectorOfTrack, Numbers, wlen > 0, MoveOn, UNCHANGED start
  PROVE  /\ Numbers' /\ SoFar' = SoFar + swlen /\ blockno' = blockno + 1
         /\ ba' \in 0 .. WordSpace - 1 /\ ba1617' \in 0 .. 3 /\ da' \in 0 .. WordSpace - 1
         /\ mp0' \in 0 .. WordSpace - 1
         /\ wlen' \in -(WordSpace \div 2) .. WordSpace \div 2 - 1
<1>1. /\ blockno = Base + BlocksMoved /\ SoFar = Block * BlocksMoved /\ SoFar \in 0 .. Wanted - 1
      /\ swlen \in 1 .. Block /\ swlen <= wlen /\ (swlen < Block => swlen = wlen)
  BY NextBlock
<1>2. /\ Wanted \in Nat /\ Wanted < WordSpace \div 2 /\ Base \in Nat
      /\ start.addr \in Nat /\ start.addr % 2 = 0 /\ start.mp \in Nat
  BY Asked, Halves DEF Numbers, RegType
<1>3. /\ wlen \in 0 .. Wanted /\ blockno \in Int /\ BlocksMoved \in Nat
      /\ phys_addr = start.addr + 2 * SoFar /\ mp0 = (start.mp + SoFar) % WordSpace
  BY DEF Numbers
<1>4. Wanted' = Wanted /\ Base' = Base
  BY SameStart
<1>5. wlen' = wlen - swlen /\ blockno' = blockno + 1 /\ phys_addr' = phys_addr + 2 * swlen
  BY DEF MoveOn
<1>6. wlen' \in 0 .. Wanted /\ SoFar' = SoFar + swlen
  BY <1>1, <1>2, <1>3, <1>4, <1>5 DEF SoFar
<1>7. BlocksMoved' = BlocksMoved + 1
  BY <1>2, <1>3, <1>4, <1>5 DEF BlocksMoved
<1>8. wlen' > 0 => SoFar' = Block * (BlocksMoved + 1)
  <2>1. Block * (BlocksMoved + 1) = Block * BlocksMoved + Block
    BY <1>3, Halves
  <2>2. wlen' > 0 => swlen = Block
    BY <1>1, <1>3, <1>5, Halves
  <2> QED
    BY <1>1, <1>6, <2>1, <2>2
<1>9. phys_addr' = start.addr + 2 * SoFar' /\ phys_addr' \in Nat
  BY <1>1, <1>2, <1>3, <1>5, <1>6, Halves
<1>10. phys_addr' % 2 = 0
  <2> DEFINE s == SoFar'
  <2>1. s \in Nat
    BY <1>1, <1>6, Halves
  <2> HIDE DEF s
  <2>2. \A x, y \in Nat : x % 2 = 0 => (x + 2 * y) % 2 = 0
    OBVIOUS
  <2> QED
    BY <1>2, <1>9, <2>1, <2>2 DEF s
<1>11. mp0' = (start.mp + SoFar') % WordSpace /\ mp0' \in 0 .. WordSpace - 1
  <2>1. mp0' = (((start.mp + SoFar) % WordSpace) + swlen) % WordSpace
    BY <1>3 DEF MoveOn
  <2>2. start.mp + SoFar \in Int /\ swlen \in Int
    BY <1>1, <1>2, Halves
  <2>3. mp0' = ((start.mp + SoFar) + swlen) % WordSpace
    BY <2>1, <2>2, Halves, ModOfSum
  <2>4. (start.mp + SoFar) + swlen = start.mp + SoFar' /\ start.mp + SoFar' \in Int
    BY <1>1, <1>2, <1>6, <2>2
  <2>5. (start.mp + SoFar') % WordSpace \in 0 .. WordSpace - 1
    BY <2>4, Halves, DivMod
  <2> QED
    BY <2>3, <2>4, <2>5
<1>12. /\ ba' \in 0 .. WordSpace - 1 /\ ba1617' \in 0 .. 3
       /\ ba1617' * WordSpace + ba' = Wrap18(phys_addr')
  BY <1>9, <1>10, AddressBits DEF MoveOn
<1>13. da' \in 0 .. WordSpace - 1
  <2>1. da + 1 \in Int
    BY Halves DEF RegType
  <2> QED
    BY <2>1, Halves, DivMod DEF MoveOn
<1>14. Numbers'
  BY <1>2, <1>3, <1>4, <1>5, <1>6, <1>7, <1>8, <1>9, <1>11, <1>12 DEF Numbers
<1>15. wlen' \in -(WordSpace \div 2) .. WordSpace \div 2 - 1
  BY <1>2, <1>6, Halves
<1> QED
  BY <1>5, <1>6, <1>11, <1>12, <1>13, <1>14, <1>15

\* A block is words SoFar to SoFar + swlen - 1.
LEMMA BlockWords ==
  ASSUME RegType, SectorOfTrack, Numbers, wlen > 0, NEW i \in 0 .. swlen - 1
  PROVE  /\ SoFar + i \in 0 .. SoFar + swlen - 1
         /\ BlockOf(SoFar + i) = blockno /\ (SoFar + i) % Block = i
         /\ phys_addr + 2 * i = start.addr + 2 * (SoFar + i)
<1>1. /\ blockno = Base + BlocksMoved /\ SoFar = Block * BlocksMoved /\ SoFar \in 0 .. Wanted - 1
      /\ swlen \in 1 .. Block /\ BlocksMoved \in Nat /\ phys_addr = start.addr + 2 * SoFar
  BY NextBlock DEF Numbers
<1>2. i \in 0 .. Block - 1 /\ i \in Nat /\ SoFar \in Nat /\ start.addr \in Nat
  BY <1>1, Asked, Halves DEF RegType
<1>3. (SoFar + i) \div Block = BlocksMoved /\ (SoFar + i) % Block = i
  BY <1>1, <1>2, WordAt
<1>4. BlockOf(SoFar + i) = blockno
  BY <1>1, <1>3 DEF BlockOf, Base
<1> QED
  BY <1>1, <1>2, <1>3, <1>4

LEMMA ReadMoves ==
  ASSUME RegType, SectorOfTrack, Numbers, wlen > 0, memory = Moves(SoFar),
         memory' = memory \cup {<<Wrap18(phys_addr + 2 * i), blockno, i>> : i \in 0 .. swlen - 1}
  PROVE  memory' = Moves(SoFar + swlen)
<1> DEFINE At(i) == <<Wrap18(start.addr + 2 * i), BlockOf(i), i % Block>>
<1>1. SoFar \in Nat /\ swlen \in Nat
  BY NextBlock, Asked, Halves
<1>2. \A i \in 0 .. swlen - 1 : <<Wrap18(phys_addr + 2 * i), blockno, i>> = At(SoFar + i)
  BY BlockWords
<1>3. {<<Wrap18(phys_addr + 2 * i), blockno, i>> : i \in 0 .. swlen - 1}
        = {At(SoFar + i) : i \in 0 .. swlen - 1}
  BY <1>2
<1>4. /\ Moves(SoFar) = {At(i) : i \in 0 .. SoFar - 1}
      /\ Moves(SoFar + swlen) = {At(i) : i \in 0 .. (SoFar + swlen) - 1}
  BY DEF Moves
<1>5. memory' = {At(i) : i \in 0 .. SoFar - 1} \cup {At(SoFar + i) : i \in 0 .. swlen - 1}
  BY <1>3, <1>4
<1> DEFINE s == SoFar
           n == swlen
<1> HIDE DEF At, s, n
<1>6. {At(i) : i \in 0 .. s - 1} \cup {At(s + i) : i \in 0 .. n - 1} = {At(i) : i \in 0 .. (s + n) - 1}
  <2>0. s \in Nat /\ n \in Nat
    BY <1>1 DEF s, n
  <2>1. \A i \in 0 .. s - 1 : i \in 0 .. (s + n) - 1
    BY <2>0
  <2>2. \A i \in 0 .. n - 1 : s + i \in 0 .. (s + n) - 1
    BY <2>0
  <2>3. \A i \in 0 .. (s + n) - 1 : i \in 0 .. s - 1 \/ \E k \in 0 .. n - 1 : i = s + k
    <3> TAKE i \in 0 .. (s + n) - 1
    <3>1. CASE i < s
      BY <2>0, <3>1
    <3>2. CASE i >= s
      <4>1. i - s \in 0 .. n - 1 /\ i = s + (i - s)
        BY <2>0, <3>2
      <4> QED
        BY <4>1
    <3> QED
      BY <2>0, <3>1, <3>2
  <2> QED
    BY <2>1, <2>2, <2>3
<1>7. {At(i) : i \in 0 .. SoFar - 1} \cup {At(SoFar + i) : i \in 0 .. swlen - 1}
        = {At(i) : i \in 0 .. (SoFar + swlen) - 1}
  BY <1>6 DEF s, n
<1> QED
  BY <1>4, <1>5, <1>7

\* What a WRITE puts into the block, up to where the words end.
LEMMA WriteMoves ==
  ASSUME RegType, SectorOfTrack, Numbers, wlen > 0, Write,
         \A i \in 0 .. SoFar - 1 : i < (Wanted \div Block) * Block =>
           \A j \in {0, 1} : disk[BlockOf(i)][2 * (i % Block) + j] = Wrap18(start.addr + 2 * i + j)
  PROVE  \A i \in 0 .. SoFar + swlen - 1 : i < (Wanted \div Block) * Block =>
           \A j \in {0, 1} : disk'[BlockOf(i)][2 * (i % Block) + j] = Wrap18(start.addr + 2 * i + j)
<1>1. /\ blockno = Base + BlocksMoved /\ SoFar = Block * BlocksMoved /\ SoFar \in 0 .. Wanted - 1
      /\ swlen \in 1 .. Block /\ BlocksMoved \in Nat /\ phys_addr = start.addr + 2 * SoFar
      /\ blockno \in Blocks /\ (swlen < Block => swlen = wlen) /\ wlen \in 0 .. Wanted
      /\ SoFar = Wanted - wlen
  BY NextBlock DEF Numbers, SoFar
<1>2. SoFar \in Nat /\ swlen \in Nat /\ Base \in Nat /\ Wanted \in Nat /\ start.addr \in Nat
  BY <1>1, Asked, Halves DEF RegType
<1>3. disk' = [disk EXCEPT ![blockno] = buffer2'] /\ disk \in [Blocks -> [Bytes -> Int]]
  BY DEF Write, WriteBlock, RegType
<1> SUFFICES ASSUME NEW i \in 0 .. SoFar + swlen - 1, i < (Wanted \div Block) * Block, NEW j \in {0, 1}
             PROVE  disk'[BlockOf(i)][2 * (i % Block) + j] = Wrap18(start.addr + 2 * i + j)
  OBVIOUS
<1>4. CASE i < SoFar
  <2>1. i \in 0 .. SoFar - 1
    BY <1>2, <1>4
  <2>2. i \div Block \in Int /\ i \div Block < BlocksMoved
    <3>1. i \in Int /\ i \div Block \in Int /\ i % Block \in 0 .. Block - 1
          /\ i = Block * (i \div Block) + (i % Block)
      BY <1>2, Halves, DivMod
    <3>2. Block * (i \div Block) \in Int /\ Block * BlocksMoved \in Int
      BY <1>1, <3>1, Halves
    <3>3. Block * (i \div Block) < Block * BlocksMoved
      BY <1>1, <1>2, <1>4, <3>1, <3>2, Halves
    <3> QED
      BY <1>1, <3>1, <3>3, LessTimes
  <2>3. BlockOf(i) # blockno
    BY <1>1, <1>2, <2>2 DEF BlockOf, Base
  <2>4. disk'[BlockOf(i)] = disk[BlockOf(i)]
    BY <1>3, <2>3
  <2> QED
    BY <2>1, <2>4
<1>5. CASE i >= SoFar
  <2> DEFINE k == i - SoFar
  <2>1. k \in 0 .. swlen - 1 /\ i = SoFar + k /\ k \in Nat
    BY <1>2, <1>5
  <2>2. BlockOf(i) = blockno /\ i % Block = k /\ phys_addr + 2 * k = start.addr + 2 * i
    BY <2>1, BlockWords
  <2>3. swlen = Block
    <3>1. CASE swlen < Block
      <4>1. SoFar + swlen = Wanted
        BY <1>1, <1>2, <3>1
      <4>2. Wanted = Block * BlocksMoved + swlen /\ swlen \in 0 .. Block - 1
        BY <1>1, <1>2, <3>1, <4>1, Halves
      <4>3. Wanted \div Block = BlocksMoved
        BY <1>1, <4>2, WordAt
      <4>4. BlocksMoved * Block = Block * BlocksMoved
        BY <1>1, Halves
      <4> QED
        BY <1>1, <1>2, <1>5, <4>3, <4>4
    <3> QED
      BY <1>1, <3>1, Halves
  <2>4. 2 * k + j \in Bytes /\ 2 * k + j < 2 * swlen
    BY <2>1, <2>3, Halves DEF Bytes
  <2>5. buffer2'[2 * k + j] = Wrap18(phys_addr + (2 * k + j))
    <3> DEFINE x == 2 * k + j
    <3>1. x \in Bytes /\ x < 2 * swlen /\ ~(swlen < Block)
      BY <2>3, <2>4, Halves
    <3> HIDE DEF x
    <3>2. buffer2'[x] = Wrap18(phys_addr + x)
      BY <3>1 DEF Write
    <3> QED
      BY <3>2 DEF x
  <2>6. phys_addr + (2 * k + j) = start.addr + 2 * i + j
    BY <1>1, <1>2, <2>1
  <2>7. disk'[blockno] = buffer2'
    BY <1>1, <1>3
  <2> QED
    BY <2>2, <2>5, <2>6, <2>7
<1> QED
  BY <1>2, <1>4, <1>5

-----------------------------------------------------------------------------
(* The steps.                                                              *)
LEMMA SetupKeeps ==
  ASSUME TransferInv, SectorOfTrack, Setup
  PROVE  TransferInv'
<1> DEFINE n     == Short(-mp0)
           left  == SectorsLeft(da) * Block
           words == IF n > left THEN left ELSE n
<1>1. /\ phys_addr' = ba1617 * WordSpace + ba /\ wlen' = words
      /\ blockno' = (da \div SectSpace) * Track + (da % SectSpace)
      /\ IF words < 0 THEN step' = "done" /\ e' = Or(e, CS_E_OPI) ELSE step' = "loop" /\ e' = e
      /\ UNCHANGED <<func, ba, ba1617, da, mp0, err, buffer2, memory, disk, start>>
  BY DEF Setup
<1>2. RegType /\ AtStart
  BY DEF TransferInv, Setup
<1>3. /\ FirstSect \in 0 .. Track - 1 /\ Room \in Nat \ {0} /\ Room = Block * (Track - FirstSect)
      /\ Count \in 0 .. WordSpace /\ Wanted \in 0 .. Count /\ Wanted <= Room
      /\ SectorsLeft(start.da) = Track - FirstSect /\ OnTrack \in Nat /\ Base \in Nat
  BY <1>2, Asked
<1>4. mp0 \in 0 .. WordSpace - 1 /\ start.mp = mp0 /\ start.da = da
  BY <1>2 DEF RegType, AtStart
<1>5. n = IF mp0 = 0 THEN 0 ELSE IF WordSpace - mp0 >= WordSpace \div 2 THEN -mp0
          ELSE WordSpace - mp0
  BY <1>4, ShortOf
<1>6. left = Room
  <2>1. SectorsLeft(da) = Track - FirstSect
    BY <1>3, <1>4
  <2>2. (Track - FirstSect) * Block = Block * (Track - FirstSect)
    BY <1>3, Halves
  <2> QED
    BY <1>3, <2>1, <2>2
<1> HIDE DEF n, left
<1>7. n \in -(WordSpace \div 2) .. WordSpace \div 2 - 1 /\ (n >= 0 => n = Count)
  BY <1>4, <1>5, Halves DEF Count
<1>8. words \in -(WordSpace \div 2) .. WordSpace \div 2 - 1 /\ (words >= 0 => words = Wanted)
      /\ (words < 0 => n < 0)
  BY <1>3, <1>6, <1>7, Halves DEF Wanted
<1> HIDE DEF words
<1>9. e \in 0 .. 3 /\ e' \in 0 .. 3 /\ step' \in {"loop", "done"}
  <2>1. e \in 0 .. 3 /\ CS_E_OPI \in {1, 2}
    BY <1>2 DEF RegType, CS_E_OPI
  <2> QED
    BY <1>1, <2>1, OrBits
<1>10. FirstSect' = FirstSect /\ Wanted' = Wanted /\ Base' = Base /\ OnTrack' = OnTrack
  BY <1>1, SameStart
<1>11. RegType'
  BY <1>1, <1>2, <1>8, <1>9, <1>10 DEF RegType
<1>12. CASE words < 0
  <2>1. step' = "done" /\ wlen' < 0
    BY <1>1, <1>12
  <2>2. Untouched'
    BY <1>1, <1>2 DEF AtStart, Untouched
  <2>3. ~(wlen' >= 0)
    BY <1>1, <1>8, <1>12, Halves
  <2> QED
    BY <1>11, <2>1, <2>2, <2>3 DEF TransferInv
<1>13. CASE ~(words < 0)
  <2>1. step' = "loop" /\ wlen' = Wanted /\ Wanted \in 0 .. WordSpace \div 2 - 1
    BY <1>1, <1>3, <1>8, <1>13, Halves
  <2>2. SoFar' = 0
    BY <1>3, <1>10, <2>1 DEF SoFar
  <2>3. blockno' = Base /\ BlocksMoved' = 0
    <3>1. blockno' = Base
      BY <1>1, <1>4 DEF Base, OnTrack, FirstSect
    <3> QED
      BY <1>3, <1>10, <3>1 DEF BlocksMoved
  <2>4. phys_addr' = start.addr /\ start.addr \in 0 .. 4 * WordSpace - 1
    BY <1>1, <1>2 DEF AtStart, RegType
  <2>5. Wrap18(phys_addr') = phys_addr'
    <3>1. 4 * WordSpace \in Nat \ {0}
      BY Halves
    <3> QED
      BY <2>4, <3>1, SmallMod DEF Wrap18
  <2>6. (start.mp + 0) % WordSpace = mp0
    BY <1>4, Halves, SmallMod
  <2>7. Numbers'
    <3>1. wlen' \in 0 .. Wanted' /\ Wanted' < WordSpace \div 2 /\ blockno' \in Int
          /\ BlocksMoved' \in Nat
      BY <1>3, <1>10, <2>1, <2>3, Halves
    <3>2. SoFar' = Block * BlocksMoved' /\ phys_addr' = start'.addr + 2 * SoFar'
      BY <1>1, <2>2, <2>3, <2>4, Halves
    <3>3. mp0' = (start'.mp + SoFar') % WordSpace
      BY <1>1, <2>2, <2>6
    <3>4. ba1617' * WordSpace + ba' = Wrap18(phys_addr')
      BY <1>1, <2>5
    <3> QED
      BY <3>1, <3>2, <3>3, <3>4 DEF Numbers
  <2>8. Copied'
    <3>1. memory' = {} /\ \A b \in Blocks : disk'[b][0] = Stale
      BY <1>1, <1>2 DEF AtStart, Untouched
    <3>2. 0 .. SoFar' - 1 = {}
      BY <2>2
    <3>3. Moves(SoFar)' = {}
      BY <3>2 DEF Moves
    <3> QED
      BY <3>1, <3>2, <3>3 DEF Copied
  <2> QED
    BY <1>11, <2>1, <2>7, <2>8 DEF TransferInv
<1> QED
  BY <1>12, <1>13

LEMMA SectorKeeps ==
  ASSUME TransferInv, SectorOfTrack, Sector
  PROVE  TransferInv'
<1>1. step = "loop" /\ wlen > 0 /\ MoveOn /\ UNCHANGED <<step, func, start>> /\ (Read \/ Check \/ Write)
  BY DEF Sector
<1>2. RegType /\ Numbers /\ Copied
  BY <1>1 DEF TransferInv
<1>3. /\ Numbers' /\ SoFar' = SoFar + swlen /\ blockno' = blockno + 1
      /\ ba' \in 0 .. WordSpace - 1 /\ ba1617' \in 0 .. 3 /\ da' \in 0 .. WordSpace - 1
      /\ mp0' \in 0 .. WordSpace - 1
      /\ wlen' \in -(WordSpace \div 2) .. WordSpace \div 2 - 1
  BY <1>1, <1>2, MoveOnKeeps
<1>4. /\ Wanted' = Wanted /\ Base' = Base /\ OnTrack' = OnTrack /\ FirstSect' = FirstSect
      /\ \A i : (BlockOf(i))' = BlockOf(i)
  BY <1>1, SameStart
<1>5. blockno \in Blocks /\ blockno < OnTrack + Track /\ blockno >= Base
      /\ OnTrack \in Nat /\ Base \in Nat /\ swlen \in 1 .. Block
  <2>1. /\ blockno = Base + BlocksMoved /\ blockno < OnTrack + Track /\ blockno \in Blocks
        /\ BlocksMoved \in Nat /\ Base \in Nat /\ OnTrack \in Nat /\ swlen \in 1 .. Block
    BY <1>1, <1>2, NextBlock, Asked DEF Numbers
  <2> QED
    BY <2>1
<1>6. e' \in 0 .. 3 /\ err' \in BOOLEAN
  <2>1. e \in 0 .. 3 /\ err \in BOOLEAN /\ CS_E_DCRC \in {1, 2}
    BY <1>2 DEF RegType, CS_E_DCRC
  <2> QED
    BY <1>1, <2>1, OrBits DEF Read, Check, Write
<1>7. buffer2' \in [Bytes -> Int]
  <2>1. buffer2 \in [Bytes -> Int] /\ phys_addr \in Int
    BY <1>1, <1>2, NextBlock, Asked, Halves DEF RegType, Numbers
  <2>2. \A j \in Bytes : j \in Int /\ Wrap18(phys_addr + j) \in Int
    <3> TAKE j \in Bytes
    <3>1. j \in Int /\ phys_addr + j \in Int /\ 4 * WordSpace \in Nat \ {0}
      BY <2>1, Halves DEF Bytes
    <3> QED
      <4>1. (phys_addr + j) % (4 * WordSpace) \in 0 .. 4 * WordSpace - 1
        BY <3>1, DivMod
      <4> QED
        BY <3>1, <4>1 DEF Wrap18
  <2>3. CASE Read
    BY <2>1, <2>3 DEF Read
  <2>4. CASE Check
    <3>1. \A j \in Bytes : (IF j < 2 * swlen THEN Wrap18(phys_addr + j) ELSE buffer2[j]) \in Int
      BY <2>1, <2>2
    <3> QED
      BY <2>4, <3>1 DEF Check
  <2>5. CASE Write
    <3>1. Zero \in Int
      BY DEF Zero
    <3>2. \A j \in Bytes :
            (IF swlen < Block /\ j \in swlen .. swlen + 2 * (Block - swlen) - 1 THEN Zero
             ELSE IF j < 2 * swlen THEN Wrap18(phys_addr + j) ELSE buffer2[j]) \in Int
      BY <2>1, <2>2, <3>1
    <3> QED
      BY <2>5, <3>2 DEF Write
  <2> QED
    BY <1>1, <2>3, <2>4, <2>5
<1>8. disk' \in [Blocks -> [Bytes -> Int]]
  <2>1. disk \in [Blocks -> [Bytes -> Int]]
    BY <1>2 DEF RegType
  <2> QED
    BY <1>1, <1>7, <2>1 DEF Read, Check, Write, WriteBlock
<1>9. RegType'
  BY <1>1, <1>2, <1>3, <1>4, <1>6, <1>7, <1>8 DEF RegType
<1>10. memory' = IF func = "READ" THEN Moves(SoFar + swlen) ELSE {}
  <2>1. CASE Read
    BY <1>1, <1>2, <2>1, ReadMoves DEF Read, Copied
  <2>2. CASE Check \/ Write
    BY <1>2, <2>2 DEF Check, Write, Copied
  <2> QED
    BY <1>1, <2>1, <2>2
<1>11. Moves(SoFar)' = Moves(SoFar + swlen)
  BY <1>1, <1>3, <1>4 DEF Moves
<1>12. func = "WRITE" => \A i \in 0 .. SoFar' - 1 : i < (Wanted \div Block) * Block =>
         \A j \in {0, 1} : disk'[BlockOf(i)][2 * (i % Block) + j] = Wrap18(start.addr + 2 * i + j)
  <2>1. CASE Write
    <3>1. \A i \in 0 .. SoFar - 1 : i < (Wanted \div Block) * Block =>
            \A j \in {0, 1} : disk[BlockOf(i)][2 * (i % Block) + j] = Wrap18(start.addr + 2 * i + j)
      BY <1>2, <2>1 DEF Write, Copied
    <3>2. \A i \in 0 .. SoFar + swlen - 1 : i < (Wanted \div Block) * Block =>
            \A j \in {0, 1} : disk'[BlockOf(i)][2 * (i % Block) + j] = Wrap18(start.addr + 2 * i + j)
      BY <1>1, <1>2, <2>1, <3>1, WriteMoves
    <3>3. SoFar' = SoFar + swlen
      BY <1>3
    <3> SUFFICES ASSUME NEW i \in 0 .. SoFar' - 1, i < (Wanted \div Block) * Block
                 PROVE  \A j \in {0, 1} : disk'[BlockOf(i)][2 * (i % Block) + j]
                                          = Wrap18(start.addr + 2 * i + j)
      OBVIOUS
    <3>4. i \in 0 .. SoFar + swlen - 1
      <4>1. SoFar \in Int /\ swlen \in Int
        BY <1>1, <1>2, NextBlock, Asked, Halves
      <4> QED
        BY <3>3, <4>1
    <3> QED
      BY <3>2, <3>4
  <2>2. CASE Read \/ Check
    BY <2>2 DEF Read, Check
  <2> QED
    BY <1>1, <2>1, <2>2
<1>13. \A b \in Blocks : b < Base \/ b >= OnTrack + Track => disk'[b][0] = Stale
  <2> TAKE b \in Blocks
  <2>0. b \in Int
    BY DEF Blocks
  <2>1. b < Base \/ b >= OnTrack + Track => b # blockno /\ disk[b][0] = Stale
    <3>1. blockno \in Int
      BY <1>5 DEF Blocks
    <3> QED
      BY <1>2, <1>5, <2>0, <3>1, Halves DEF Copied
  <2>2. b # blockno => disk'[b] = disk[b]
    <3>1. disk \in [Blocks -> [Bytes -> Int]]
      BY <1>2 DEF RegType
    <3> QED
      BY <1>1, <3>1 DEF Read, Check, Write, WriteBlock
  <2> QED
    BY <2>1, <2>2
<1>14. Copied'
  BY <1>1, <1>4, <1>10, <1>11, <1>12, <1>13 DEF Copied
<1> QED
  BY <1>1, <1>3, <1>9, <1>14 DEF TransferInv

LEMMA EndKeeps ==
  ASSUME TransferInv, End
  PROVE  TransferInv'
<1>1. /\ step = "loop" /\ wlen <= 0 /\ step' = "done"
      /\ IF mp0 # 0 THEN err' = TRUE /\ e' = Or(e, CS_E_OPI) ELSE UNCHANGED <<err, e>>
      /\ UNCHANGED <<func, ba, ba1617, da, mp0, phys_addr, wlen, blockno, buffer2,
                     memory, disk, start>>
  BY DEF End
<1>2. RegType /\ Numbers /\ Copied
  BY <1>1 DEF TransferInv
<1>3. /\ Wanted' = Wanted /\ Base' = Base /\ OnTrack' = OnTrack /\ FirstSect' = FirstSect
      /\ \A i : (BlockOf(i))' = BlockOf(i)
  BY <1>1, SameStart
<1>4. SoFar' = SoFar /\ BlocksMoved' = BlocksMoved /\ Moves(SoFar)' = Moves(SoFar)
  BY <1>1, <1>3 DEF SoFar, BlocksMoved, Moves
<1>5. wlen = 0
  BY <1>1, <1>2 DEF Numbers
<1>6. /\ e' \in 0 .. 3 /\ err' \in BOOLEAN /\ (mp0' # 0 => err' = TRUE /\ e' % 2 = 1)
  <2>1. e \in 0 .. 3 /\ err \in BOOLEAN /\ CS_E_OPI = 1
    BY <1>2 DEF RegType, CS_E_OPI
  <2>2. Or(e, CS_E_OPI) \in 0 .. 3 /\ Or(e, CS_E_OPI) % 2 = 1
    BY <2>1, OrBits
  <2> QED
    BY <1>1, <2>1, <2>2
<1>7. RegType'
  BY <1>1, <1>2, <1>3, <1>6 DEF RegType
<1>8. Numbers'
  BY <1>1, <1>2, <1>3, <1>4 DEF Numbers
<1>9. Copied'
  BY <1>1, <1>2, <1>3, <1>4 DEF Copied
<1>10. step' = "done" /\ wlen' = 0 /\ ~(wlen' < 0)
  BY <1>1, <1>5
<1> QED
  BY <1>6, <1>7, <1>8, <1>9, <1>10 DEF TransferInv

LEMMA TransferStarts ==
  ASSUME Init, SectorOfTrack
  PROVE  TransferInv
<1>1. PICK addr \in StartAddr : ba = addr % WordSpace /\ ba1617 = addr \div WordSpace
  BY DEF Init
<1>2. addr \in 0 .. 4 * WordSpace - 1 /\ addr % 2 = 0
  BY TransferAssumption
<1>3. ba \in 0 .. WordSpace - 1 /\ ba1617 \in Int /\ addr = WordSpace * ba1617 + ba
  BY <1>1, <1>2, Halves, DivMod
<1>4. ba1617 \in 0 .. 3
  <2>1. ba1617 <= -1 => WordSpace * ba1617 <= -WordSpace
    BY <1>3, Halves, TimesAtLeast
  <2>2. ba1617 - 4 >= 1 => WordSpace * (ba1617 - 4) >= WordSpace
    BY <1>3, Halves, TimesAtLeast
  <2>3. WordSpace * (ba1617 - 4) = WordSpace * ba1617 - 4 * WordSpace /\ WordSpace * ba1617 \in Int
    BY <1>3, Halves
  <2>4. ba1617 = 4 => WordSpace * ba1617 = 4 * WordSpace
    BY Halves
  <2> QED
    BY <1>2, <1>3, <2>1, <2>2, <2>3, <2>4, Halves
<1>5. start = [addr |-> ba1617 * WordSpace + ba, da |-> da, mp |-> mp0]
      /\ ba1617 * WordSpace + ba = addr
  <2>1. ba1617 * WordSpace = WordSpace * ba1617
    BY <1>3, Halves
  <2> QED
    BY <1>3, <2>1 DEF Init
<1>6. da \in 0 .. WordSpace - 1 /\ mp0 \in 0 .. WordSpace - 1 /\ FirstSect < Track
  BY <1>5, TransferAssumption DEF Init, FirstSect, SectorOfTrack
<1>7. buffer2 \in [Bytes -> Int] /\ disk \in [Blocks -> [Bytes -> Int]]
      /\ \A b \in Blocks : disk[b][0] = Stale
  <2>1. 0 \in Bytes /\ Stale \in Int
    BY Halves DEF Bytes, Stale
  <2> QED
    BY <2>1 DEF Init
<1>8. RegType
  <2>1. 0 \in -(WordSpace \div 2) .. WordSpace \div 2 - 1 /\ 0 \in 0 .. 3
    BY Halves
  <2>2. start \in [addr : 0 .. 4 * WordSpace - 1, da : 0 .. WordSpace - 1, mp : 0 .. WordSpace - 1]
        /\ start.addr % 2 = 0
    BY <1>2, <1>5, <1>6
  <2> QED
    BY <1>3, <1>4, <1>6, <1>7, <2>1, <2>2 DEF Init, RegType, Funcs
<1>9. AtStart
  BY <1>5, <1>7 DEF AtStart, Untouched, Init
<1> QED
  BY <1>8, <1>9 DEF TransferInv, Init

LEMMA TransferStutters == TransferInv /\ UNCHANGED transferVars => TransferInv'
<1> SUFFICES ASSUME TransferInv, UNCHANGED transferVars PROVE TransferInv'
  OBVIOUS
<1>1. /\ step' = step /\ func' = func /\ ba' = ba /\ ba1617' = ba1617 /\ da' = da /\ mp0' = mp0
      /\ err' = err /\ e' = e /\ phys_addr' = phys_addr /\ wlen' = wlen /\ blockno' = blockno
      /\ buffer2' = buffer2 /\ memory' = memory /\ disk' = disk /\ start' = start
  BY DEF transferVars
<1>2. /\ Wanted' = Wanted /\ Base' = Base /\ OnTrack' = OnTrack /\ FirstSect' = FirstSect
      /\ \A i : (BlockOf(i))' = BlockOf(i)
  BY <1>1, SameStart
<1>3. SoFar' = SoFar /\ BlocksMoved' = BlocksMoved /\ Moves(SoFar)' = Moves(SoFar)
  BY <1>1, <1>2 DEF SoFar, BlocksMoved, Moves
<1>4. RegType'
  BY <1>1, <1>2 DEF TransferInv, RegType
<1>5. (step = "setup" => AtStart') /\ (Untouched => Untouched')
  BY <1>1 DEF TransferInv, AtStart, Untouched
<1>6. (Numbers => Numbers') /\ (Copied => Copied')
  BY <1>1, <1>2, <1>3 DEF Numbers, Copied
<1> QED
  BY <1>1, <1>4, <1>5, <1>6 DEF TransferInv

LEMMA TransferHolds ==
  ASSUME SectorOfTrack
  PROVE  Spec => []TransferInv
<1>1. TransferInv /\ [Next]_transferVars => TransferInv'
  <2> SUFFICES ASSUME TransferInv, [Next]_transferVars PROVE TransferInv'
    OBVIOUS
  <2>1. CASE Setup
    BY <2>1, SetupKeeps
  <2>2. CASE Sector
    BY <2>2, SectorKeeps
  <2>3. CASE End
    BY <2>3, EndKeeps
  <2>4. CASE UNCHANGED transferVars
    BY <2>4, TransferStutters
  <2> QED
    BY <2>1, <2>2, <2>3, <2>4 DEF Next
<1> QED
  BY <1>1, TransferStarts, PTL DEF Spec

-----------------------------------------------------------------------------
(* The error bits, and the count that is refused.                          *)
StatusInv ==
  /\ step = "setup" => ~err /\ e % 2 = 0
  /\ step = "loop" => ~Refused /\ e % 2 = 0
  /\ step = "done" => (wlen < 0 <=> Refused)
  /\ step = "done" /\ Refused => ~err /\ e % 2 = 1
  /\ step = "done" /\ ~Refused => (e % 2 = 1 <=> mp0 # 0)

LEMMA StatusStep ==
  ASSUME TransferInv, StatusInv, SectorOfTrack, [Next]_transferVars
  PROVE  StatusInv'
<1>0. RegType /\ e \in 0 .. 3 /\ CS_E_OPI = 1 /\ CS_E_DCRC = 2
  BY DEF TransferInv, RegType, CS_E_OPI, CS_E_DCRC
<1>r. start' = start => Refused' = Refused
  BY DEF Refused, Count
<1>1. CASE Setup
  <2> DEFINE n     == Short(-mp0)
             left  == SectorsLeft(da) * Block
             words == IF n > left THEN left ELSE n
  <2>1. /\ step = "setup" /\ wlen' = words /\ UNCHANGED <<err, mp0, start>>
        /\ IF words < 0 THEN step' = "done" /\ e' = Or(e, CS_E_OPI) ELSE step' = "loop" /\ e' = e
    BY <1>1 DEF Setup
  <2>2. mp0 \in 0 .. WordSpace - 1 /\ start.mp = mp0 /\ start.da = da
    BY <2>1 DEF TransferInv, RegType, AtStart
  <2>3. n = IF mp0 = 0 THEN 0 ELSE IF WordSpace - mp0 >= WordSpace \div 2 THEN -mp0
            ELSE WordSpace - mp0
    BY <2>2, ShortOf
  <2>4. left \in Nat
    <3>1. SectorsLeft(da) = Track - FirstSect /\ FirstSect \in 0 .. Track - 1
      BY <1>0, <2>2, Asked
    <3> QED
      BY <3>1, Halves
  <2> HIDE DEF n, left
  <2>5. Refused <=> n < 0
    BY <2>2, <2>3, Halves DEF Refused, Count
  <2>6. words < 0 <=> n < 0
    BY <2>2, <2>3, <2>4, Halves
  <2> HIDE DEF words
  <2>7. Or(e, CS_E_OPI) % 2 = 1
    BY <1>0, OrBits
  <2> QED
    BY <1>r, <2>1, <2>5, <2>6, <2>7 DEF StatusInv
<1>2. CASE Sector
  <2>1. step = "loop" /\ UNCHANGED <<step, start>> /\ (Read \/ Check \/ Write)
    BY <1>2 DEF Sector
  <2>2. e' = e \/ e' = Or(e, CS_E_DCRC)
    BY <2>1 DEF Read, Check, Write
  <2>3. e' % 2 = e % 2
    BY <1>0, <2>2, OrBits
  <2> QED
    BY <1>r, <2>1, <2>3 DEF StatusInv
<1>3. CASE End
  <2>1. /\ step = "loop" /\ step' = "done" /\ UNCHANGED <<mp0, wlen, start>>
        /\ IF mp0 # 0 THEN e' = Or(e, CS_E_OPI) ELSE e' = e
    BY <1>3 DEF End
  <2>2. Or(e, CS_E_OPI) % 2 = 1
    BY <1>0, OrBits
  <2>3. wlen >= 0 /\ wlen \in Int
    BY <2>1, Asked, <1>0, Halves DEF TransferInv, Numbers
  <2> QED
    BY <1>r, <2>1, <2>2, <2>3 DEF StatusInv
<1>4. CASE UNCHANGED transferVars
  BY <1>r, <1>4 DEF transferVars, StatusInv
<1> QED
  BY <1>1, <1>2, <1>3, <1>4 DEF Next

LEMMA StatusHolds ==
  ASSUME SectorOfTrack
  PROVE  Spec => []StatusInv
<1>1. Init => StatusInv
  BY DEF Init, StatusInv
<1>2. TransferInv /\ StatusInv /\ [Next]_transferVars => StatusInv'
  BY StatusStep
<1> QED
  BY <1>1, <1>2, TransferHolds, PTL DEF Spec

-----------------------------------------------------------------------------
\* The registers and the variables of a transfer stay in the widths that C
\* and the controller give them, for every command.
THEOREM TransferTypeCorrect ==
  ASSUME SectorOfTrack
  PROVE  Spec => []TransferTypeOK
<1>1. TransferInv => TransferTypeOK
  BY DEF TransferInv, RegType, TransferTypeOK
<1> QED
  BY <1>1, TransferHolds, PTL

\* BA and the two bits of CS above it follow the words moved through every
\* carry, of a transfer of any length from any even address.
THEOREM AddressAlwaysFollows ==
  ASSUME SectorOfTrack
  PROVE  Spec => []AddressFollows
<1>1. TransferInv => AddressFollows
  <2> SUFFICES ASSUME TransferInv, step = "loop" PROVE ba1617 * WordSpace + ba = Wrap18(start.addr + 2 * Moved)
    BY DEF AddressFollows
  <2>1. RegType /\ Numbers
    BY DEF TransferInv
  <2>2. /\ SoFar \in 0 .. WordSpace - 1 /\ start.mp \in Int /\ mp0 = (start.mp + SoFar) % WordSpace
    BY <2>1, Asked, Halves DEF Numbers, SoFar, RegType
  <2>3. Moved = ((start.mp + SoFar) + (-start.mp)) % WordSpace
    <3>1. start.mp + SoFar \in Int /\ -start.mp \in Int
      BY <2>2, Halves
    <3>2. (((start.mp + SoFar) % WordSpace) + (-start.mp)) % WordSpace
            = ((start.mp + SoFar) + (-start.mp)) % WordSpace
      BY <3>1, Halves, ModOfSum
    <3>3. (start.mp + SoFar) % WordSpace \in Int
      BY <3>1, Halves, DivBlock
    <3>4. mp0 - start.mp = ((start.mp + SoFar) % WordSpace) + (-start.mp)
      BY <2>2, <3>3
    <3> QED
      BY <3>2, <3>4 DEF Moved
  <2>4. (start.mp + SoFar) + (-start.mp) = SoFar
    BY <2>2, Halves
  <2>5. SoFar % WordSpace = SoFar
    BY <2>2, Halves, SmallMod
  <2> QED
    BY <2>1, <2>3, <2>4, <2>5 DEF Numbers
<1> QED
  BY <1>1, TransferHolds, PTL

\* A READ puts each word of its sectors into memory once and where it
\* belongs, and a WRITE fills its sectors with consecutive words; a count
\* that wlen takes to be negative moves none.
THEOREM WordsAlwaysCopied ==
  ASSUME SectorOfTrack
  PROVE  Spec => []WordsCopied
<1>1. TransferInv /\ StatusInv => WordsCopied
  <2> SUFFICES ASSUME TransferInv, StatusInv, step = "done", ~Refused PROVE WordsCopied
    <3>1. step = "done" /\ Refused /\ TransferInv /\ StatusInv => Untouched /\ DOMAIN disk = Blocks
      BY DEF TransferInv, StatusInv, RegType
    <3> QED
      BY <3>1 DEF Untouched, WordsCopied, ReadCopies, WriteCopies
  <2>0. wlen >= 0
    BY Halves DEF StatusInv, TransferInv, RegType
  <2>1. RegType /\ Numbers /\ Copied /\ wlen = 0
    BY <2>0 DEF TransferInv
  <2>2. SoFar = Wanted /\ Wanted \in Nat /\ Wanted \div Block \in Int
        /\ (Wanted \div Block) * Block \in Int /\ (Wanted \div Block) * Block <= Wanted
    <3>1. Wanted \in Nat
      BY <2>1, Asked, Halves
    <3>2. Wanted \div Block \in Int /\ Wanted % Block \in 0 .. Block - 1
          /\ Wanted = Block * (Wanted \div Block) + (Wanted % Block)
      <4>1. Wanted \in Int
        BY <3>1
      <4> QED
        BY <4>1, Halves, DivBlock
    <3>3. (Wanted \div Block) * Block = Block * (Wanted \div Block) /\ Block * (Wanted \div Block) \in Int
      BY <3>2, Halves
    <3> QED
      BY <2>1, <3>1, <3>2, <3>3, Halves DEF SoFar
  <2>3. ReadCopies
    BY <2>1, <2>2 DEF ReadCopies, Copied, Moves
  <2>4. WriteCopies
    <3>1. \A i \in 0 .. (Wanted \div Block) * Block - 1 : i \in 0 .. SoFar - 1 /\ i < (Wanted \div Block) * Block
      BY <2>2
    <3> QED
      BY <2>1, <3>1 DEF WriteCopies, Copied
  <2> QED
    BY <2>3, <2>4 DEF WordsCopied
<1> QED
  BY <1>1, TransferHolds, StatusHolds, PTL

\* A transfer ends with OPI exactly when it left words of its count unmoved,
\* because MP counts the words of every block; with CS_ERR too when the track
\* ended before the words, but not when the count was refused.
THEOREM ShortAlwaysOpi ==
  ASSUME SectorOfTrack
  PROVE  Spec => []ShortMeansOpi
<1>1. TransferInv /\ StatusInv => ShortMeansOpi
  <2> SUFFICES ASSUME TransferInv, StatusInv, step = "done", ~Refused
               PROVE  (e % 2 = 1 <=> Wanted < Count) /\ (Wanted < Count => err)
    BY DEF ShortMeansOpi, StatusInv, CS_E_OPI
  <2>0. wlen >= 0
    BY Halves DEF StatusInv, TransferInv, RegType
  <2>1. RegType /\ Numbers /\ wlen = 0 /\ (mp0 # 0 => err = TRUE /\ e % 2 = 1)
    BY <2>0 DEF TransferInv
  <2>2. start.mp \in 0 .. WordSpace - 1 /\ Wanted \in 0 .. Count /\ Count \in 0 .. WordSpace
    BY <2>1, Asked DEF RegType
  <2>3. SoFar = Wanted /\ mp0 = (start.mp + Wanted) % WordSpace
    BY <2>1, <2>2, Halves DEF SoFar, Numbers
  <2>4. ASSUME Wanted < Count PROVE mp0 # 0
    <3>1. start.mp # 0 /\ Count = WordSpace - start.mp
      BY <2>2, <2>4 DEF Count
    <3>2. start.mp + Wanted \in 0 .. WordSpace - 1 /\ start.mp + Wanted # 0
      BY <2>2, <2>4, <3>1, Halves
    <3> QED
      BY <2>3, <3>2, Halves, SmallMod
  <2>5. ASSUME Wanted = Count PROVE mp0 = 0
    <3>1. CASE start.mp = 0
      <4>1. start.mp + Wanted = 0 /\ 0 \in 0 .. WordSpace - 1
        BY <2>5, <3>1, Halves DEF Count
      <4> QED
        BY <2>3, <4>1, Halves, SmallMod
    <3>2. CASE start.mp # 0
      <4>1. start.mp + Wanted = WordSpace
        BY <2>2, <2>5, <3>2, Halves DEF Count
      <4>2. WordSpace % WordSpace = 0
        <5>1. 0 \in 0 .. WordSpace - 1 /\ WordSpace = WordSpace * 1 + 0 /\ WordSpace \in Int
          BY Halves
        <5> QED
          BY <5>1, Halves, DivUnique
      <4> QED
        BY <2>3, <4>1, <4>2
    <3> QED
      BY <3>1, <3>2
  <2>6. mp0 # 0 <=> Wanted < Count
    BY <2>2, <2>4, <2>5
  <2> QED
    BY <2>1, <2>6 DEF StatusInv
<1> QED
  BY <1>1, TransferHolds, StatusHolds, PTL

\* max_sectors keeps a transfer that begins on its track to the track: it
\* reads and writes no block of another.
THEOREM AlwaysStaysOnTrack ==
  ASSUME SectorOfTrack
  PROVE  Spec => []StaysOnTrack
<1>1. TransferInv => StaysOnTrack
  <2> SUFFICES ASSUME TransferInv PROVE StaysOnTrack
    OBVIOUS
  <2>1. RegType /\ (Untouched \/ (Numbers /\ Copied))
    BY DEF TransferInv, RegType, AtStart
  <2>2. DOMAIN disk = Blocks /\ OnTrack \in Nat /\ Base \in Nat /\ FirstSect \in 0 .. Track - 1
    BY <2>1, Asked DEF RegType
  <2>3. CASE Untouched
    BY <2>2, <2>3 DEF StaysOnTrack, Untouched
  <2>4. CASE Numbers /\ Copied
    <3>1. \A b \in Blocks : b \in Int
      BY DEF Blocks
    <3>2. \A b \in Blocks \ (OnTrack .. OnTrack + Track - 1) : b < Base \/ b >= OnTrack + Track
      BY <2>2, <3>1, Halves DEF Base
    <3>3. \A b \in DOMAIN disk \ (OnTrack .. OnTrack + Track - 1) : disk[b][0] = Stale
      BY <2>2, <2>4, <3>2 DEF Copied
    <3>4. ASSUME NEW w \in memory PROVE w[2] \in OnTrack .. OnTrack + Track - 1
      <4>1. PICK i \in 0 .. SoFar - 1 : w = <<Wrap18(start.addr + 2 * i), BlockOf(i), i % Block>>
        BY <2>4, <3>4 DEF Copied, Moves
      <4>2. w[2] = BlockOf(i)
        BY <4>1
      <4>3. Wanted \in Nat /\ Wanted <= Room /\ Room = Block * (Track - FirstSect) /\ wlen \in 0 .. Wanted
        BY <2>1, <2>4, Asked, Halves DEF Numbers
      <4>4. i \in Nat /\ i < Room
        BY <4>3, Asked, <2>1 DEF SoFar
      <4>5. i \div Block \in Int /\ i % Block \in 0 .. Block - 1 /\ i = Block * (i \div Block) + (i % Block)
        <5>1. i \in Int
          BY <4>4
        <5> QED
          BY <5>1, Halves, DivBlock
      <4>6. Block * (i \div Block) \in Int /\ Block * (i \div Block) < Block * (Track - FirstSect)
        BY <4>3, <4>4, <4>5, Halves
      <4>7. i \div Block < Track - FirstSect
        BY <2>2, <4>5, <4>6, Halves, LessTimes
      <4>8. i \div Block >= 0
        <5>1. i \div Block <= -1 => Block * (i \div Block) <= -Block
          BY <4>5, Halves, TimesAtLeast
        <5> QED
          BY <4>4, <4>5, <4>6, <5>1, Halves
      <4> QED
        BY <2>2, <4>2, <4>5, <4>7, <4>8, Halves DEF BlockOf
    <3> QED
      BY <3>3, <3>4 DEF StaysOnTrack
  <2> QED
    BY <2>1, <2>3, <2>4
<1> QED
  BY <1>1, TransferHolds, PTL
=============================================================================
