----------------------------- MODULE LoaderProofs -----------------------------
(***************************************************************************)
(* Proofs about a session of the tool with the boot loader (Loader), for   *)
(* any flash, any file, any values, and any failures of line and power.    *)
(***************************************************************************)
EXTENDS Loader, TLAPS, SequenceTheorems, WellFoundedInduction

Flags   == [frdy : BOOLEAN, locke : BOOLEAN, gpnvm : BOOLEAN, locks : SUBSET Pages]
Content == Values \cup {Erased, Junk}
Replies == Content \cup {ChipId, Version, None} \cup Flags
Packets == [crlf : BOOLEAN, word : Replies, prompt : BOOLEAN]

\* The commands that are posted, and those that the tool waits for.
Posted ==
       {Cmd("W", Reg("ram"), v) : v \in Values}
  \cup {Cmd("W", Reg("fmr"), None)}
  \cup {Cmd("W", Reg("fcr"), [op |-> o, page |-> p]) : o \in {"unlock", "program"}, p \in Pages}
  \cup {Cmd("W", Cell(p, i), v) : p \in Pages, i \in Words, v \in Values}
Asked ==
       {Cmd(s, Reg("none"), None) : s \in {"T", "N", "V"}}
  \cup {Cmd("w", Reg(r), None) : r \in {"cidr", "fsr", "ram"}}
  \cup {Cmd("R", Cell(p, 0), None) : p \in Pages}

\* None is the absence of a packet, of a command and of a value.
NoneIsApart == None \notin Values \cup Packets \cup Posted \cup Asked

-----------------------------------------------------------------------------
ChipType == [ram : Values, latch : [Words -> Values \cup {Erased}], flash : [Pages -> [Words -> Content]],
             locked : SUBSET Pages, slow : BOOLEAN, gpnvm : BOOLEAN, locke : BOOLEAN,
             busy : [op : {"none", "program", "unlock"}, page : Pages]]

ChipInv == chip \in ChipType /\ interactive \in BOOLEAN

\* The port, the driver and its loop.
PortInv ==
  /\ port \in {"gone", "reset", "up"} /\ event \in {"none", "reset", "configure"}
  /\ {bank, currentRcvBank} \subseteq {0, 1} /\ {configured, txcomp, replugged} \subseteq BOOLEAN
  /\ pc \in {"poll", "read", "samba", "write", "booted"}
  /\ rx \in [{0, 1} -> Posted \cup Asked \cup {None}]
  /\ tx \in Packets \cup {None} /\ out \in Seq(Packets)
  /\ buf \in Posted \cup Asked \cup {None} /\ (buf # None <=> pc = "samba")
  /\ event = "reset" => port = "reset"
  /\ event = "configure" => port = "up" /\ ~configured
  /\ event = "none" => (port = "up" <=> configured)
  /\ pc \in {"read", "samba", "write"} => configured
  /\ pc = "booted" => port = "gone"
  /\ ~configured => rx = NoPackets
  /\ pc # "write" => tx = None /\ ~txcomp /\ out = <<>>
  /\ pc = "write" => (txcomp <=> tx = None)

\* The bank that is read next, the bank that is filled next and what is in them.
InSync ==
  \/ currentRcvBank = bank /\ rx = NoPackets
  \/ currentRcvBank = bank /\ rx[0] # None /\ rx[1] # None
  \/ currentRcvBank # bank /\ rx[currentRcvBank] # None /\ rx[bank] = None
\* The loader looks at the wrong bank: the tool gets no answer to its first T.
Lost ==
  /\ currentRcvBank = 1 /\ rx[1] = None /\ pc \in {"poll", "read"} /\ at.s \in {"off", "T"}
  /\ \/ bank = 0 /\ rx[0] = None /\ ~waiting
     \/ bank = 1 /\ rx[0] = Command /\ waiting

BankInv ==
  /\ event = "reset" \/ InSync \/ Lost
  /\ ~replugged => /\ InSync /\ (configured => event = "none")
                   /\ ~configured => currentRcvBank = 0 /\ bank = 0
  /\ port = "gone" => currentRcvBank = 0 /\ bank = 0 /\ event = "none"

-----------------------------------------------------------------------------
(* The tool's command and its answer.                                      *)
s1 == Taken
s2 == rx[currentRcvBank]
s3 == rx[1 - currentRcvBank]
Maybe == Posted \cup {None}

Empty     == s1 = None /\ s2 = None /\ s3 = None
OnlyPosts == {s1, s2, s3} \subseteq Maybe
AskedLast ==
  \/ s1 \in Maybe /\ s2 \in Posted /\ s3 = Command
  \/ s1 \in Maybe /\ s2 = Command /\ s3 = None
  \/ s1 = Command /\ s2 = None /\ s3 = None
Silent == tx = None /\ inq = <<>> /\ out = <<>>
Coming == Len(inq) + (IF tx = None THEN 0 ELSE 1) + Len(out)

\* What the words of an answer can be.
Fits(w) ==
  /\ at.s \in {"locks", "before", "after", "ready"} => w \in Flags
  /\ at.s = "rw" => w \in Values
Answering ==
  /\ IF at.s = "R" THEN Len(got) + Coming = NumWords /\ Coming > 0
                   ELSE Coming = 1 /\ out = <<>>
  /\ tx # None => Fits(tx.word)
  /\ \A i \in 1 .. Len(inq) : Fits(inq[i].word)

ToolInv ==
  /\ at.s \in Posts \cup Asks \cup {"idle", "off"} /\ at.page \in Pages /\ at.word \in Words
  /\ at = Step(at.s, at.page, at.word)
  /\ at.s = "off" => at = Off
  /\ at.s = "idle" => at = Idle
  /\ waiting \in BOOLEAN /\ inq \in Seq(Packets) /\ got \in Seq(Replies) /\ Len(got) <= NumWords
  /\ seen \in Values \cup {None} /\ done \in {"none", "flash", "unlock", "read"}
  /\ waiting => at.s \in Asks /\ configured
  /\ at.s = "off" => inq = <<>>
  /\ at.s = "R" /\ ~waiting => got = <<>>
  /\ at # Off => port = "up"
  /\ at.s \notin {"off", "T"} => configured

\* The tool does not wait; it waits for a command that is on its way; for an
\* answer.
Resting  == ~waiting /\ OnlyPosts /\ Silent
Sent     == waiting /\ (AskedLast \/ Lost) /\ Silent /\ (at.s = "R" => got = <<>>)
Answered == waiting /\ Empty /\ Answering
SessionInv == event # "reset" => Resting \/ Sent \/ Answered

\* The mode the monitor is in.
ModeInv == event # "reset" =>
  /\ s1 \in Posted \/ s2 \in Posted \/ s3 \in Posted => ~interactive
  /\ at.s \notin {"off", "T", "N"} => ~interactive
  /\ at.s = "T" /\ waiting /\ Empty => interactive
  /\ at.s = "N" => (interactive <=> ~(waiting /\ Empty)) /\ (~waiting => Empty)

LoaderInv == ChipInv /\ PortInv /\ BankInv /\ ToolInv /\ SessionInv /\ ModeInv
-----------------------------------------------------------------------------
(* Commands and their answers.                                             *)
LEMMA PageZero == 0 \in Pages /\ 0 \in Words /\ NumPages \in Nat /\ NumWords \in Nat /\ NumWords > 0
BY SambaAssumption DEF Pages, Words

LEMMA CommandKinds ==
  /\ \A c \in Posted : c.op = "W" /\ c.at.reg \in {"ram", "fmr", "fcr", "flash"}
  /\ \A c \in Asked : c.op \in {"T", "N", "V", "w", "R"}
  /\ Posted \cap Asked = {}
<1>1. \A c \in Posted : c.op = "W" /\ c.at.reg \in {"ram", "fmr", "fcr", "flash"}
  BY DEF Posted, Cmd, Reg, Cell
<1>2. \A c \in Asked : c.op \in {"T", "N", "V", "w", "R"}
  BY DEF Asked, Cmd
<1> QED
  BY <1>1, <1>2

LEMMA PostedCommand ==
  ASSUME at.s \in Posts, at.page \in Pages, at.word \in Words
  PROVE  Command \in Posted /\ Command.at.reg # "ram"
<1>1. CASE at.s = "unlock"
  BY <1>1 DEF Command, Posted, Cmd, Reg
<1>2. CASE at.s = "mode"
  BY <1>2 DEF Command, Posted, Cmd, Reg
<1>3. CASE at.s = "word"
  <2>1. File[at.page][at.word] \in Values
    BY LoaderAssumption
  <2>2. Command = Cmd("W", Cell(at.page, at.word), File[at.page][at.word])
    BY <1>3 DEF Command
  <2> QED
    BY <2>1, <2>2 DEF Posted, Cmd, Cell
<1>4. CASE at.s = "program"
  BY <1>4 DEF Command, Posted, Cmd, Reg
<1> QED
  BY <1>1, <1>2, <1>3, <1>4 DEF Posts

LEMMA AskedCommand ==
  ASSUME at.s \in Asks, at.page \in Pages
  PROVE  /\ Command \in Asked
         /\ at.s \in {"T", "N", "V"} => Command = Cmd(at.s, Reg("none"), None)
         /\ at.s = "id" => Command = Cmd("w", Reg("cidr"), None)
         /\ at.s \in {"locks", "before", "after", "ready"} => Command = Cmd("w", Reg("fsr"), None)
         /\ at.s = "rw" => Command = Cmd("w", Reg("ram"), None)
         /\ at.s = "R" => Command = Cmd("R", Cell(at.page, 0), None)
<1>1. CASE at.s \in {"T", "N", "V"}
  BY <1>1 DEF Command, Asked
<1>2. CASE at.s = "id"
  BY <1>2 DEF Command, Asked
<1>3. CASE at.s \in {"locks", "before", "after", "ready"}
  BY <1>3 DEF Command, Asked
<1>4. CASE at.s = "rw"
  BY <1>4 DEF Command, Asked
<1>5. CASE at.s = "R"
  BY <1>5 DEF Command, Asked
<1> QED
  BY <1>1, <1>2, <1>3, <1>4, <1>5 DEF Asks

\* What is in the cells, by their types.
LEMMA LoadTypes ==
  ASSUME ChipInv
  PROVE  /\ Load(Reg("ram")) = chip.ram /\ chip.ram \in Values
         /\ Load(Reg("cidr")) = ChipId
         /\ Load(Reg("fsr")) \in Flags
         /\ \A p \in Pages, i \in Words : Load(Cell(p, i)) \in Content
<1>1. \A p \in Pages, i \in Words : Load(Cell(p, i)) \in Content
  <2> SUFFICES ASSUME NEW p \in Pages, NEW i \in Words PROVE Load(Cell(p, i)) \in Content
    OBVIOUS
  <2>1. Load(Cell(p, i)) = chip.flash[p][i]
    BY DEF Load, Cell
  <2> QED
    BY <2>1 DEF ChipInv, ChipType
<1>2. FSR \in Flags
  BY DEF FSR, Flags, ChipInv, ChipType
<1> QED
  BY <1>1, <1>2 DEF Load, Reg, ChipInv, ChipType

\* A posted command has no answer, since the monitor is not interactive.
LEMMA PostedAnswer ==
  ASSUME ~interactive, NEW c \in Posted
  PROVE  Answer(c) = <<>> /\ Mode(c) = interactive
<1>1. c.op = "W"
  BY CommandKinds
<1> QED
  BY <1>1 DEF Answer, Mode, Crlf, Data

LEMMA FunctionSeq ==
  ASSUME NEW n \in Nat, NEW S, NEW f \in [1 .. n -> S]
  PROVE  f \in Seq(S) /\ Len(f) = n
<1>1. f \in Seq(S)
  BY SeqDef
<1>2. DOMAIN f = 1 .. n /\ DOMAIN f = 1 .. Len(f) /\ Len(f) \in Nat
  BY <1>1, LenProperties
<1> QED
  BY <1>1, <1>2

LEMMA ModeAnswer ==
  ASSUME NEW c, c.op \in {"T", "N"}, c.op = "N" => interactive
  PROVE  \E crlf, prompt \in BOOLEAN : Answer(c) = <<Packet(crlf, None, prompt)>>
<1>1. Data(c) = <<>>
  BY DEF Data
<1>2. Crlf(c) \in BOOLEAN /\ Prompt(c) \in BOOLEAN
  BY DEF Crlf, Prompt
<1>3. CASE c.op = "T"
  <2>1. Mode(c) /\ Prompt(c)
    BY <1>3 DEF Mode, Prompt
  <2>2. Answer(c) = <<Packet(Crlf(c), None, Prompt(c))>>
    BY <2>1, <1>1 DEF Answer
  <2> QED
    BY <2>2, <1>2
<1>4. CASE c.op = "N"
  <2>1. ~Mode(c) /\ Crlf(c)
    BY <1>4 DEF Mode, Crlf
  <2>2. Answer(c) = <<Packet(TRUE, None, FALSE)>>
    BY <2>1 DEF Answer
  <2> QED
    BY <2>2
<1> QED
  BY <1>3, <1>4

Word(c)    == IF c.op = "V" THEN Version ELSE Load(c.at)
OneWord(c) == Packet(FALSE, Word(c), FALSE)

LEMMA WordAnswer ==
  ASSUME ~interactive, NEW c, c.op \in {"V", "w"}
  PROVE  Answer(c) \in Seq({OneWord(c)}) /\ Len(Answer(c)) = 1
<1> DEFINE x == Word(c)
<1>1. Data(c) = <<x>>
  BY DEF Data, Word
<1>2. ~Mode(c) /\ ~Crlf(c)
  BY DEF Mode, Crlf
<1>3. Answer(c) = [i \in DOMAIN Data(c) |-> Packet(FALSE, Data(c)[i], FALSE)]
  BY <1>2 DEF Answer
<1> HIDE DEF x
<1> DEFINE D == DOMAIN Data(c)
           d == Data(c)
<1>4. D = 1 .. 1 /\ d[1] = x
  BY <1>1
<1> HIDE DEF D, d
<1>5. [i \in D |-> Packet(FALSE, d[i], FALSE)] \in [1 .. 1 -> {Packet(FALSE, x, FALSE)}]
  <2>1. \A i \in D : i = 1
    BY <1>4
  <2>2. \A i \in D : Packet(FALSE, d[i], FALSE) = Packet(FALSE, x, FALSE)
    BY <2>1, <1>4
  <2> HIDE DEF x
  <2> QED
    BY <2>2, <1>4
<1>6. /\ [i \in D |-> Packet(FALSE, d[i], FALSE)] \in Seq({Packet(FALSE, x, FALSE)})
      /\ Len([i \in D |-> Packet(FALSE, d[i], FALSE)]) = 1
  BY <1>5, FunctionSeq
<1>7. Answer(c) = [i \in D |-> Packet(FALSE, d[i], FALSE)]
  BY <1>3 DEF D, d
<1> QED
  BY <1>6, <1>7 DEF x, OneWord

LEMMA PageAnswer ==
  ASSUME ChipInv, ~interactive, NEW p \in Pages
  PROVE  /\ Answer(Cmd("R", Cell(p, 0), None)) \in Seq(Packets)
         /\ Len(Answer(Cmd("R", Cell(p, 0), None))) = NumWords
         /\ \A i \in 1 .. NumWords : Answer(Cmd("R", Cell(p, 0), None))[i].word = chip.flash[p][i - 1]
<1> DEFINE c == Cmd("R", Cell(p, 0), None)
           a == [i \in 1 .. NumWords |-> Packet(FALSE, Load(Cell(p, i - 1)), FALSE)]
<1>1. Data(c) = [i \in 1 .. NumWords |-> Load(Cell(p, i - 1))]
  BY DEF Data, Cmd, Cell
<1>2. Answer(c) = a
  BY <1>1 DEF Answer, Mode, Crlf, Cmd
<1>3. \A i \in 1 .. NumWords : a[i] \in Packets
  <2> SUFFICES ASSUME NEW i \in 1 .. NumWords PROVE a[i] \in Packets
    OBVIOUS
  <2>1. i - 1 \in Words
    BY PageZero DEF Words
  <2>2. Load(Cell(p, i - 1)) \in Content
    BY <2>1, LoadTypes
  <2> QED
    BY <2>2 DEF Packet, Packets, Replies
<1> HIDE DEF c
<1>4. a \in [1 .. NumWords -> Packets]
  BY <1>3
<1>5. a \in Seq(Packets) /\ Len(a) = NumWords
  BY <1>4, PageZero, FunctionSeq
<1>6. \A i \in 1 .. NumWords : a[i].word = chip.flash[p][i - 1]
  BY DEF Packet, Load, Cell
<1> HIDE DEF a
<1> QED
  BY <1>2, <1>5, <1>6 DEF c

\* The answer to the command that the tool has asked.
LEMMA Reply ==
  ASSUME ChipInv, at.s \in Asks, at.page \in Pages,
         at.s \notin {"T", "N"} => ~interactive, at.s = "N" => interactive
  PROVE  /\ Answer(Command) \in Seq(Packets)
         /\ Len(Answer(Command)) = IF at.s = "R" THEN NumWords ELSE 1
         /\ at.s = "rw" => Head(Answer(Command)).word = chip.ram
         /\ at.s \in {"locks", "before", "after", "ready"} => Head(Answer(Command)).word = FSR
         /\ at.s = "R" => \A i \in 1 .. NumWords : Answer(Command)[i].word = chip.flash[at.page][i - 1]
         /\ at.s # "R" => Fits(Head(Answer(Command)).word)
         /\ Mode(Command) <=> at.s = "T"
<1>1. Mode(Command) <=> at.s = "T"
  <2>1. CASE at.s \in {"T", "N"}
    BY <2>1, AskedCommand DEF Mode, Cmd
  <2>2. CASE at.s \notin {"T", "N"}
    <3>1. Command.op \notin {"T", "N"}
      BY <2>2, AskedCommand DEF Asks, Cmd
    <3> QED
      BY <2>2, <3>1 DEF Mode
  <2> QED
    BY <2>1, <2>2
<1>2. CASE at.s \in {"T", "N"}
  <2>1. Command.op = at.s
    BY <1>2, AskedCommand DEF Cmd
  <2>2. PICK crlf \in BOOLEAN, prompt \in BOOLEAN : Answer(Command) = <<Packet(crlf, None, prompt)>>
    BY <1>2, <2>1, ModeAnswer
  <2>3. Packet(crlf, None, prompt) \in Packets
    BY DEF Packet, Packets, Replies
  <2> QED
    BY <1>1, <1>2, <2>2, <2>3 DEF Fits
<1>3. CASE at.s \in Asks \ {"T", "N", "R"}
  <2>1. Command.op \in {"V", "w"} /\ (Command.op = "V" <=> at.s = "V")
    BY <1>3, AskedCommand DEF Asks, Cmd
  <2> DEFINE w == Word(Command)
             p == OneWord(Command)
  <2>2. Answer(Command) \in Seq({p}) /\ Len(Answer(Command)) = 1
    <3>1. ~interactive
      BY <1>3
    <3> QED
      BY <2>1, <3>1, WordAnswer
  <2>3. /\ w \in Replies /\ (at.s = "rw" => w = chip.ram) /\ Fits(w)
        /\ at.s \in {"locks", "before", "after", "ready"} => w = FSR
    <3>1. CASE at.s = "V"
      BY <2>1, <3>1 DEF Word, Replies, Fits
    <3>2. CASE at.s = "id"
      <4>1. w = ChipId
        BY <2>1, <3>2, AskedCommand, LoadTypes DEF Word, Cmd
      <4> QED
        BY <3>2, <4>1 DEF Replies, Fits
    <3>3. CASE at.s = "rw"
      <4>1. w = chip.ram
        BY <2>1, <3>3, AskedCommand, LoadTypes DEF Word, Cmd
      <4> QED
        BY <3>3, <4>1, LoadTypes DEF Replies, Fits, Content
    <3>4. CASE at.s \in {"locks", "before", "after", "ready"}
      <4>1. w = Load(Reg("fsr"))
        BY <2>1, <3>4, AskedCommand, LoadTypes DEF Word, Cmd
      <4> QED
        BY <3>4, <4>1, LoadTypes DEF Replies, Fits, Load, Reg
    <3> QED
      BY <1>3, <3>1, <3>2, <3>3, <3>4 DEF Asks
  <2>4. p.word = w /\ p \in Packets
    BY <2>3 DEF OneWord, Packet, Packets
  <2> HIDE DEF w, p
  <2>5. Head(Answer(Command)) = p
    BY <2>2, HeadTailProperties
  <2>6. Answer(Command) \in Seq(Packets)
    BY <2>2, <2>4, SeqMonotonic
  <2> QED
    BY <1>1, <1>3, <2>2, <2>3, <2>4, <2>5, <2>6
<1>4. CASE at.s = "R"
  BY <1>1, <1>4, AskedCommand, PageAnswer
<1> QED
  BY <1>2, <1>3, <1>4

LEMMA MinOf ==
  ASSUME NEW S \in SUBSET Nat, S # {}
  PROVE  Min(S) \in S /\ \A m \in S : Min(S) <= m
<1> DEFINE Less == OpToRel(<, Nat)
<1>1. \E n \in S : \A m \in S : ~(<<m, n>> \in Less)
  BY NatLessThanWellFounded, WFMin
<1>2. ASSUME NEW m \in Nat, NEW n \in Nat, m < n PROVE <<m, n>> \in Less
  BY <1>2 DEF OpToRel
<1> HIDE DEF Less
<1>3. \E n \in S : \A m \in S : n <= m
  <2>1. PICK n \in S : \A m \in S : ~(<<m, n>> \in Less)
    BY <1>1
  <2>2. ASSUME NEW m \in S PROVE n <= m
    <3>1. ~(m < n)
      BY <1>2, <2>1
    <3> QED
      BY <3>1
  <2> QED
    BY <2>2
<1> QED
  BY <1>3 DEF Min

LEMMA ScanTypes ==
  ASSUME NEW first \in Nat, NEW val
  PROVE  Scan(first, val) = Step("mode", 0, 0) \/ \E p \in Pages : Scan(first, val) = Step("before", p, 0)
<1> DEFINE hits == {r \in Regions : r >= first /\ r - first \in val}
<1>1. CASE hits = {}
  BY <1>1 DEF Scan
<1>2. CASE hits # {}
  <2>1. Scan(first, val) = Step("before", Min(hits), 0)
    BY <1>2 DEF Scan
  <2>2. hits \subseteq Nat /\ hits \subseteq Pages
    BY SambaAssumption DEF Regions, Pages
  <2>3. Min(hits) \in hits
    BY <1>2, <2>2, MinOf
  <2> QED
    BY <2>1, <2>2, <2>3
<1> QED
  BY <1>1, <1>2

-----------------------------------------------------------------------------
(* The driver.                                                             *)
Rest == <<port, currentRcvBank, chip, interactive, toolVars, replugged>>

\* A bus reset, in whichever loop the driver sees it.
LEMMA ResetStep ==
  ASSUME NoneIsApart, LoaderInv, ResetEndpoints, UNCHANGED Rest, pc' = "poll", out' = <<>>, buf' = None
  PROVE  LoaderInv'
<1>1. port = "reset" /\ at = Off /\ at.s = "off" /\ ~waiting /\ inq = <<>>
  BY DEF LoaderInv, PortInv, ToolInv, ResetEndpoints, Asks, Off, Step
<1>2. /\ event' = "none" /\ configured' = FALSE /\ rx' = NoPackets /\ bank' = 0 /\ tx' = None
      /\ txcomp' = FALSE
  BY DEF ResetEndpoints
<1>3. /\ port' = port /\ currentRcvBank' = currentRcvBank /\ chip' = chip /\ interactive' = interactive
      /\ at' = at /\ waiting' = waiting /\ inq' = inq /\ seen' = seen /\ got' = got /\ done' = done
      /\ replugged' = replugged
  BY DEF Rest, toolVars
<1>4. ChipInv'
  BY <1>3 DEF LoaderInv, ChipInv
<1>5. NoPackets[0] = None /\ NoPackets[1] = None /\ NoPackets \in [{0, 1} -> Posted \cup Asked \cup {None}]
  BY DEF NoPackets
<1>6. PortInv'
  BY <1>1, <1>2, <1>3, <1>5 DEF LoaderInv, PortInv
<1>7. currentRcvBank \in {0, 1} /\ (~replugged => currentRcvBank = 0)
  BY <1>1 DEF LoaderInv, PortInv, BankInv, ResetEndpoints
<1>8. BankInv'
  <2>1. CASE currentRcvBank = 0
    BY <1>1, <1>2, <1>3, <2>1 DEF BankInv, InSync
  <2>2. CASE currentRcvBank = 1
    BY <1>1, <1>2, <1>3, <1>5, <1>7, <2>2 DEF BankInv, Lost
  <2> QED
    BY <1>7, <2>1, <2>2
<1>9. ToolInv'
  BY <1>1, <1>3 DEF LoaderInv, ToolInv
<1>10. s1' = None /\ s2' = None /\ s3' = None
  BY <1>2, <1>3, <1>5, <1>7 DEF s1, s2, s3, Taken
<1>11. SessionInv'
  BY <1>1, <1>2, <1>3, <1>10 DEF SessionInv, Resting, OnlyPosts, Maybe, Silent
<1>12. None \notin Posted
  BY DEF NoneIsApart
<1>13. ModeInv'
  BY <1>1, <1>3, <1>10, <1>12 DEF ModeInv
<1> QED
  BY <1>4, <1>6, <1>8, <1>9, <1>11, <1>13 DEF LoaderInv

\* The driver looks at the line, and goes between its two loops.
LEMMA PollStep ==
  ASSUME NoneIsApart, LoaderInv, usb_poll, UNCHANGED <<chip, interactive, toolVars, replugged>>
  PROVE  LoaderInv'
<1>1. pc = "poll" /\ buf = None /\ out = <<>> /\ tx = None /\ ~txcomp
  BY DEF usb_poll, LoaderInv, PortInv
<1>2. /\ port' = port /\ currentRcvBank' = currentRcvBank /\ chip' = chip /\ interactive' = interactive
      /\ at' = at /\ waiting' = waiting /\ inq' = inq /\ seen' = seen /\ got' = got /\ done' = done
      /\ replugged' = replugged /\ buf' = buf /\ out' = out
  BY DEF usb_poll, toolVars
<1>3. CASE ResetEndpoints
  <2>1. pc' = "poll"
    BY <1>3 DEF usb_poll, ResetEndpoints
  <2> QED
    BY <1>1, <1>2, <1>3, <2>1, ResetStep DEF Rest, toolVars
<1>4. CASE usb_enumerate \/ (event = "none" /\ UNCHANGED udpVars)
  <2>1. event \in {"none", "configure"} /\ event' = "none" /\ rx' = rx /\ bank' = bank /\ tx' = tx
        /\ txcomp' = txcomp
    BY <1>4 DEF usb_enumerate, udpVars, LoaderInv, PortInv
  <2>2. /\ configured' \in BOOLEAN /\ (configured' <=> port = "up") /\ (configured => configured')
        /\ (configured' /\ ~configured => event = "configure")
    <3>1. CASE usb_enumerate
      <4>1. configured' = TRUE /\ event = "configure" /\ port = "up"
        BY <3>1 DEF usb_enumerate, LoaderInv, PortInv
      <4> QED
        BY <4>1
    <3>2. CASE event = "none" /\ UNCHANGED udpVars
      <4>1. configured' = configured /\ configured \in BOOLEAN /\ (port = "up" <=> configured)
        BY <3>2 DEF udpVars, LoaderInv, PortInv
      <4> QED
        BY <4>1
    <3> QED
      BY <1>4, <3>1, <3>2
  <2>3. pc' \in {"poll", "read"} /\ (pc' = "read" => configured')
    BY DEF usb_poll
  <2>4. s1' = None /\ s1 = None /\ s2' = s2 /\ s3' = s3
    BY <1>1, <1>2, <2>1, <2>3 DEF s1, s2, s3, Taken
  <2>5. PortInv'
    BY <1>1, <1>2, <2>1, <2>2, <2>3 DEF LoaderInv, PortInv
  <2>6. Command' = Command
    BY <1>2 DEF Command
  <2>7. (Lost => Lost') /\ (InSync => InSync')
    BY <1>1, <1>2, <2>1, <2>3, <2>6 DEF Lost, InSync
  <2>8. BankInv'
    BY <1>2, <2>1, <2>2, <2>7 DEF LoaderInv, BankInv
  <2>9. ToolInv' /\ ChipInv'
    BY <1>2, <2>2 DEF LoaderInv, ToolInv, ChipInv
  <2>10. SessionInv'
    <3>1. Resting => Resting'
      BY <1>2, <2>1, <2>4 DEF Resting, OnlyPosts, Silent
    <3>2. Sent => Sent'
      BY <1>2, <2>1, <2>4, <2>6, <2>7 DEF Sent, AskedLast, Silent
    <3>3. Answered => Answered'
      BY <1>2, <2>1, <2>4 DEF Answered, Empty, Answering, Coming, Fits
    <3> QED
      BY <2>1, <3>1, <3>2, <3>3 DEF LoaderInv, SessionInv
  <2>11. ModeInv'
    BY <1>2, <2>1, <2>4 DEF LoaderInv, ModeInv, Empty
  <2> QED
    BY <2>5, <2>8, <2>9, <2>10, <2>11 DEF LoaderInv
<1> QED
  BY <1>3, <1>4 DEF usb_poll, usb_isconfigured

\* In the other loops the driver is configured, so an event is a bus reset.
LEMMA EventIsReset ==
  ASSUME LoaderInv, event # "none", usb_isconfigured, pc \in {"read", "samba", "write"}
  PROVE  ResetEndpoints
BY DEF usb_isconfigured, usb_enumerate, LoaderInv, PortInv

\* The banks move up by one.
LEMMA FetchBanks ==
  ASSUME LoaderInv, Fetch, event = "none", pc = "read", bank' = bank
  PROVE  /\ InSync' /\ s1 = None /\ s1' = s2 /\ s2' = s3 /\ s3' = None /\ s2 # None /\ ~Lost
         /\ rx' \in [{0, 1} -> Posted \cup Asked \cup {None}]
<1>1. /\ currentRcvBank \in {0, 1} /\ bank \in {0, 1} /\ rx \in [{0, 1} -> Posted \cup Asked \cup {None}]
  BY DEF LoaderInv, PortInv
<1>2. s2 # None /\ s1 = None
  BY DEF Fetch, s1, s2, Taken
<1>3. ~Lost
  BY <1>2 DEF Lost, s2
<1>4. InSync
  BY <1>3 DEF LoaderInv, BankInv
<1>5. rx' = [rx EXCEPT ![currentRcvBank] = None] /\ currentRcvBank' = 1 - currentRcvBank
      /\ buf' = rx[currentRcvBank] /\ pc' = "samba"
  BY DEF Fetch
<1>6. CASE currentRcvBank = 0
  <2>1. currentRcvBank' = 1 /\ rx'[0] = None /\ rx'[1] = rx[1]
        /\ rx' \in [{0, 1} -> Posted \cup Asked \cup {None}]
    BY <1>1, <1>5, <1>6
  <2>2. s2 = rx[0] /\ s3 = rx[1] /\ s1' = rx[0] /\ s2' = rx[1] /\ s3' = None
    BY <1>5, <1>6, <2>1 DEF s1, s2, s3, Taken
  <2>3. rx[1] = None => rx' = NoPackets
    BY <2>1 DEF NoPackets
  <2>4. NoPackets[0] = None
    BY DEF NoPackets
  <2>5. InSync'
    BY <1>1, <1>2, <1>4, <1>6, <2>1, <2>2, <2>3, <2>4 DEF InSync
  <2> QED
    BY <1>2, <1>3, <2>1, <2>2, <2>5
<1>7. CASE currentRcvBank = 1
  <2>1. currentRcvBank' = 0 /\ rx'[1] = None /\ rx'[0] = rx[0]
        /\ rx' \in [{0, 1} -> Posted \cup Asked \cup {None}]
    BY <1>1, <1>5, <1>7
  <2>2. s2 = rx[1] /\ s3 = rx[0] /\ s1' = rx[1] /\ s2' = rx[0] /\ s3' = None
    BY <1>5, <1>7, <2>1 DEF s1, s2, s3, Taken
  <2>3. rx[0] = None => rx' = NoPackets
    BY <2>1 DEF NoPackets
  <2>4. NoPackets[1] = None
    BY DEF NoPackets
  <2>5. InSync'
    BY <1>1, <1>2, <1>4, <1>7, <2>1, <2>2, <2>3, <2>4 DEF InSync
  <2> QED
    BY <1>2, <1>3, <2>1, <2>2, <2>5
<1> QED
  BY <1>1, <1>6, <1>7

LEMMA ReadStep ==
  ASSUME NoneIsApart, LoaderInv, usb_read, UNCHANGED <<chip, interactive, toolVars, replugged>>
  PROVE  LoaderInv'
<1>1. pc = "read" /\ buf = None /\ out = <<>> /\ tx = None /\ ~txcomp /\ configured
  BY DEF usb_read, LoaderInv, PortInv
<1>2. /\ port' = port /\ chip' = chip /\ interactive' = interactive
      /\ at' = at /\ waiting' = waiting /\ inq' = inq /\ seen' = seen /\ got' = got /\ done' = done
      /\ replugged' = replugged /\ out' = out
  BY DEF usb_read, toolVars
<1>3. CASE event # "none"
  <2>1. ResetEndpoints /\ UNCHANGED <<currentRcvBank, buf>> /\ pc' = IF configured' THEN "read" ELSE "poll"
    BY <1>1, <1>3, EventIsReset DEF usb_read
  <2>2. pc' = "poll"
    BY <2>1 DEF ResetEndpoints
  <2> QED
    BY <1>1, <1>2, <2>1, <2>2, ResetStep DEF Rest, toolVars
<1>4. CASE event = "none"
  <2>1. Fetch /\ event' = event /\ bank' = bank /\ tx' = tx /\ txcomp' = txcomp /\ configured' = configured
    BY <1>4 DEF usb_read
  <2>2. /\ InSync' /\ s1 = None /\ s1' = s2 /\ s2' = s3 /\ s3' = None /\ s2 # None /\ ~Lost
        /\ rx' \in [{0, 1} -> Posted \cup Asked \cup {None}]
    BY <1>1, <1>4, <2>1, FetchBanks
  <2>3. pc' = "samba" /\ currentRcvBank' \in {0, 1} /\ buf' \in Posted \cup Asked \cup {None} /\ buf' # None
    BY <2>1 DEF Fetch, LoaderInv, PortInv
  <2>4. PortInv'
    BY <1>1, <1>2, <2>1, <2>2, <2>3 DEF LoaderInv, PortInv
  <2>5. BankInv'
    BY <1>1, <1>2, <1>4, <2>1, <2>2 DEF LoaderInv, PortInv, BankInv
  <2>6. ToolInv' /\ ChipInv'
    BY <1>2, <2>1 DEF LoaderInv, ToolInv, ChipInv
  <2>7. Command' = Command
    BY <1>2 DEF Command
  <2>8. SessionInv'
    <3>1. Resting => Resting'
      BY <1>2, <2>1, <2>2 DEF Resting, OnlyPosts, Silent, Maybe
    <3>2. Sent => Sent'
      BY <1>2, <2>1, <2>2, <2>7 DEF Sent, AskedLast, Silent, Maybe
    <3>3. ~Answered
      BY <2>2 DEF Answered, Empty
    <3> QED
      BY <1>4, <3>1, <3>2, <3>3 DEF LoaderInv, SessionInv
  <2>9. None \notin Posted
    BY DEF NoneIsApart
  <2>10. ~Empty /\ ~Empty'
    BY <2>2 DEF Empty
  <2>11. ModeInv'
    BY <1>2, <1>4, <2>1, <2>2, <2>9, <2>10 DEF LoaderInv, ModeInv
  <2> QED
    BY <2>4, <2>5, <2>6, <2>8, <2>11 DEF LoaderInv
<1> QED
  BY <1>3, <1>4

\* What a posted write does to the chip.
LEMMA StoreTypes ==
  ASSUME ChipInv, NEW c \in Posted
  PROVE  /\ Store(c.at, c.val) \in ChipType
         /\ c.at = Reg("ram") => c.val \in Values /\ Store(c.at, c.val).ram = c.val
         /\ c.at # Reg("ram") => Store(c.at, c.val).ram = chip.ram
<1>0. chip \in ChipType
  BY DEF ChipInv
<1>1. CASE \E v \in Values : c = Cmd("W", Reg("ram"), v)
  <2>1. PICK v \in Values : c = Cmd("W", Reg("ram"), v)
    BY <1>1
  <2>2. c.at = Reg("ram") /\ c.val = v /\ Store(c.at, c.val) = [chip EXCEPT !.ram = v]
    BY <2>1 DEF Cmd, Store, Reg
  <2> QED
    BY <1>0, <2>1, <2>2 DEF ChipType
<1>2. CASE c = Cmd("W", Reg("fmr"), None)
  <2>1. c.at # Reg("ram") /\ Store(c.at, c.val) = chip
    BY <1>2 DEF Cmd, Store, Reg
  <2> QED
    BY <1>0, <2>1
<1>3. CASE \E o \in {"unlock", "program"}, p \in Pages : c = Cmd("W", Reg("fcr"), [op |-> o, page |-> p])
  <2>1. PICK o \in {"unlock", "program"}, p \in Pages : c = Cmd("W", Reg("fcr"), [op |-> o, page |-> p])
    BY <1>3
  <2>2. c.at # Reg("ram") /\ Store(c.at, c.val) = Start([op |-> o, page |-> p])
    BY <2>1 DEF Cmd, Store, Reg
  <2>3. Start([op |-> o, page |-> p]) \in {chip, [chip EXCEPT !.locke = TRUE],
                                          [chip EXCEPT !.busy = [op |-> o, page |-> p]]}
    BY DEF Start
  <2>4. [op |-> o, page |-> p] \in [op : {"none", "program", "unlock"}, page : Pages]
    OBVIOUS
  <2> DEFINE b == [op |-> o, page |-> p]
  <2>5. b \in [op : {"none", "program", "unlock"}, page : Pages]
    BY <2>4
  <2> HIDE DEF b
  <2>6. [chip EXCEPT !.busy = b] \in ChipType /\ [chip EXCEPT !.busy = b].ram = chip.ram
    BY <1>0, <2>5 DEF ChipType
  <2>7. [chip EXCEPT !.locke = TRUE] \in ChipType /\ [chip EXCEPT !.locke = TRUE].ram = chip.ram
    BY <1>0 DEF ChipType
  <2> QED
    BY <1>0, <2>2, <2>3, <2>6, <2>7 DEF b
<1>4. CASE \E p \in Pages, i \in Words, v \in Values : c = Cmd("W", Cell(p, i), v)
  <2>1. PICK p \in Pages, i \in Words, v \in Values : c = Cmd("W", Cell(p, i), v)
    BY <1>4
  <2>2. c.at # Reg("ram") /\ Store(c.at, c.val) \in {chip, [chip EXCEPT !.latch[i] = v]}
    BY <2>1 DEF Cmd, Store, Reg, Cell
  <2> QED
    BY <1>0, <2>1, <2>2 DEF ChipType
<1> QED
  BY <1>1, <1>2, <1>3, <1>4 DEF Posted

LEMMA ExecutePosted ==
  ASSUME NoneIsApart, LoaderInv, pc = "samba", buf \in Posted, event = "none",
         samba(buf), Respond(Answer(buf)), buf' = None, UNCHANGED <<toolVars, replugged>>,
         UNCHANGED <<port, event, bank, rx, txcomp, configured, currentRcvBank>>
  PROVE  /\ LoaderInv'
         /\ s1 = buf /\ s1' = None /\ s2' = s2 /\ s3' = s3 /\ tx' = tx
         /\ chip' = Store(buf.at, buf.val) /\ ~(waiting' /\ Empty')
<1>1. None \notin Posted /\ None \notin Asked
  BY DEF NoneIsApart
<1>2. tx = None /\ ~txcomp /\ out = <<>> /\ configured
  BY DEF LoaderInv, PortInv
<1>3. s1 = buf
  BY DEF s1, Taken
<1>4. ~interactive
  BY <1>3 DEF LoaderInv, ModeInv
<1>5. Answer(buf) = <<>> /\ Mode(buf) = interactive
  BY <1>4, PostedAnswer
<1>6. pc' = "poll" /\ tx' = tx /\ out' = out
  BY <1>5 DEF Respond
<1>7. interactive' = interactive /\ chip' = Store(buf.at, buf.val)
  BY <1>5, CommandKinds DEF samba
<1>8. /\ port' = port /\ at' = at /\ waiting' = waiting /\ inq' = inq /\ seen' = seen /\ got' = got /\ done' = done
      /\ replugged' = replugged /\ event' = event /\ bank' = bank /\ rx' = rx /\ txcomp' = txcomp
      /\ configured' = configured /\ currentRcvBank' = currentRcvBank
  BY DEF toolVars
<1>9. s1' = None /\ s2' = s2 /\ s3' = s3
  BY <1>6, <1>8 DEF s1, s2, s3, Taken
<1>10. ChipInv'
  BY <1>7, StoreTypes DEF LoaderInv, ChipInv
<1>11. PortInv'
  BY <1>2, <1>6, <1>8 DEF LoaderInv, PortInv
<1>12. ~Lost
  BY DEF Lost
<1>13. InSync => InSync'
  BY <1>8 DEF InSync
<1>14. BankInv'
  BY <1>8, <1>12, <1>13 DEF LoaderInv, BankInv
<1>15. ToolInv'
  BY <1>8 DEF LoaderInv, ToolInv
<1>16. Command' = Command
  BY <1>8 DEF Command
<1>17. waiting => Command \in Asked /\ Command \notin Posted
  BY AskedCommand, CommandKinds DEF LoaderInv, ToolInv
<1>18. Resting \/ (Sent /\ AskedLast /\ s1 # Command)
  BY <1>1, <1>3, <1>12, <1>17 DEF LoaderInv, SessionInv, Sent, Answered, Empty
<1>19. Resting' \/ (Sent' /\ ~Empty /\ ~Empty')
  <2>1. CASE Resting
    BY <1>6, <1>8, <1>9, <2>1 DEF Resting, OnlyPosts, Silent, Maybe
  <2>2. CASE Sent /\ AskedLast /\ s1 # Command
    BY <1>1, <1>6, <1>8, <1>9, <1>16, <1>17, <2>2 DEF Sent, AskedLast, Silent, Maybe, Empty
  <2> QED
    BY <1>18, <2>1, <2>2
<1>20. SessionInv'
  BY <1>19 DEF SessionInv
<1>21. at.s # "N"
  <2>1. ~Empty
    BY <1>1, <1>3 DEF Empty
  <2> QED
    BY <1>4, <2>1 DEF LoaderInv, ModeInv
<1>22. ~(waiting /\ Empty')
  BY <1>8, <1>19 DEF Resting
<1>23. ModeInv'
  BY <1>1, <1>4, <1>7, <1>8, <1>9, <1>21, <1>22 DEF LoaderInv, ModeInv
<1> QED
  BY <1>3, <1>6, <1>7, <1>8, <1>9, <1>10, <1>11, <1>14, <1>15, <1>20, <1>22, <1>23 DEF LoaderInv

LEMMA ExecuteAsked ==
  ASSUME NoneIsApart, LoaderInv, pc = "samba", buf \in Asked, event = "none",
         samba(buf), Respond(Answer(buf)), buf' = None, UNCHANGED <<toolVars, replugged>>,
         UNCHANGED <<port, event, bank, rx, txcomp, configured, currentRcvBank>>
  PROVE  /\ LoaderInv'
         /\ s1 = Command /\ s2 = None /\ s3 = None /\ s1' = None /\ s2' = s2 /\ s3' = s3
         /\ waiting /\ tx = None /\ inq = <<>> /\ tx' # None /\ (at.s = "rw" => tx'.word = chip.ram)
         /\ chip'.ram = chip.ram /\ chip' \in {chip, [chip EXCEPT !.locke = FALSE]}
         /\ at.s \in {"locks", "before", "after", "ready"} => tx'.word = FSR
         /\ at.s = "R" => /\ got = <<>> /\ tx'.word = chip.flash[at.page][0]
                          /\ \A i \in 1 .. Len(out') : out'[i].word = chip.flash[at.page][i]
<1>1. None \notin Posted /\ None \notin Asked /\ None \notin Packets
  BY DEF NoneIsApart
<1>2. tx = None /\ ~txcomp /\ out = <<>> /\ configured
  BY DEF LoaderInv, PortInv
<1>3. s1 = buf
  BY DEF s1, Taken
<1>4. ~Lost
  BY DEF Lost
<1>5. /\ waiting /\ s1 = Command /\ s2 = None /\ s3 = None /\ Silent /\ (at.s = "R" => got = <<>>)
  <2>1. s1 \notin Maybe
    BY <1>1, <1>3, CommandKinds DEF Maybe
  <2>2. ~Resting /\ ~Answered
    BY <1>1, <1>3, <2>1 DEF Resting, OnlyPosts, Answered, Empty
  <2>3. Sent
    BY <2>2 DEF LoaderInv, SessionInv
  <2> QED
    BY <1>4, <2>1, <2>3 DEF Sent, AskedLast
<1>6. at.s \in Asks /\ at.page \in Pages /\ ~Empty
  BY <1>1, <1>3, <1>5 DEF LoaderInv, ToolInv, Empty
<1>7. (at.s \notin {"T", "N"} => ~interactive) /\ (at.s = "N" => interactive)
  BY <1>6 DEF LoaderInv, ModeInv, Asks
<1>8. ChipInv
  BY DEF LoaderInv
<1> DEFINE a == Answer(Command)
<1>9. /\ a \in Seq(Packets) /\ Len(a) = IF at.s = "R" THEN NumWords ELSE 1
      /\ at.s = "rw" => Head(a).word = chip.ram
      /\ at.s \in {"locks", "before", "after", "ready"} => Head(a).word = FSR
      /\ at.s = "R" => \A i \in 1 .. NumWords : a[i].word = chip.flash[at.page][i - 1]
      /\ at.s # "R" => Fits(Head(a).word)
      /\ Mode(Command) <=> at.s = "T"
  BY <1>6, <1>7, <1>8, Reply
<1>10. buf = Command
  BY <1>3, <1>5
<1>11. Respond(a) /\ interactive' = Mode(Command)
  BY <1>10 DEF samba
<1>12. chip' \in ChipType /\ chip'.ram = chip.ram /\ chip' \in {chip, [chip EXCEPT !.locke = FALSE]}
  <2>1. chip' \in {chip, [chip EXCEPT !.locke = FALSE]}
    BY CommandKinds DEF samba
  <2> QED
    BY <1>8, <2>1 DEF ChipInv, ChipType
<1> HIDE DEF a
<1>13. a # <<>> /\ Head(a) \in Packets /\ Tail(a) \in Seq(Packets) /\ Len(Tail(a)) = Len(a) - 1
  <2>1. Len(a) # 0
    BY <1>9, PageZero
  <2>2. a # <<>>
    BY <2>1
  <2> QED
    BY <1>9, <2>2, HeadTailProperties
<1>14. pc' = "write" /\ tx' = Head(a) /\ out' = Tail(a)
  BY <1>11, <1>13 DEF Respond
<1>15. /\ port' = port /\ at' = at /\ waiting' = waiting /\ inq' = inq /\ seen' = seen /\ got' = got /\ done' = done
      /\ replugged' = replugged /\ event' = event /\ bank' = bank /\ rx' = rx /\ txcomp' = txcomp
      /\ configured' = configured /\ currentRcvBank' = currentRcvBank
  BY DEF toolVars
<1>16. s1' = None /\ s2' = s2 /\ s3' = s3
  BY <1>14, <1>15 DEF s1, s2, s3, Taken
<1>17. (interactive' <=> at.s = "T") /\ interactive' \in BOOLEAN
  <2>1. Mode(Command) \in BOOLEAN
    BY <1>8 DEF Mode, ChipInv
  <2> QED
    BY <1>9, <1>11, <2>1
<1>18. ChipInv'
  BY <1>12, <1>17 DEF ChipInv
<1>19. tx' \in Packets /\ tx' # None
  BY <1>1, <1>13, <1>14
<1>20. PortInv'
  BY <1>2, <1>13, <1>14, <1>15, <1>19 DEF LoaderInv, PortInv
<1>21. InSync => InSync'
  BY <1>15 DEF InSync
<1>22. BankInv'
  BY <1>4, <1>15, <1>21 DEF LoaderInv, BankInv
<1>23. ToolInv'
  BY <1>15 DEF LoaderInv, ToolInv
<1>24. Answering'
  <2>1. inq = <<>> /\ Len(inq) = 0 /\ (at.s = "R" => Len(got) = 0)
    BY <1>5 DEF Silent
  <2>2. Coming' = Len(a)
    <3>1. Coming' = Len(inq) + 1 + Len(out')
      BY <1>15, <1>19 DEF Coming
    <3>2. Len(a) \in Nat
      BY <1>9
    <3> QED
      BY <1>13, <1>14, <2>1, <3>1, <3>2
  <2>3. at.s # "R" => out' = <<>>
    BY <1>9, <1>13, <1>14
  <2>4. Fits(tx.word)'
    <3>1. CASE at.s = "R"
      BY <1>15, <3>1 DEF Fits
    <3>2. CASE at.s # "R"
      BY <1>9, <1>14, <1>15, <3>2 DEF Fits
    <3> QED
      BY <3>1, <3>2
  <2>5. CASE at.s = "R"
    <3>1. Len(got') + Coming' = NumWords /\ Coming' > 0
      BY <1>9, <1>15, <2>1, <2>2, <2>5, PageZero
    <3> QED
      BY <1>15, <2>1, <2>4, <2>5, <3>1 DEF Answering, Fits
  <2>6. CASE at.s # "R"
    <3>1. Coming' = 1
      BY <1>9, <2>2, <2>6
    <3> QED
      BY <1>15, <2>1, <2>3, <2>4, <2>6, <3>1 DEF Answering, Fits
  <2> QED
    BY <2>5, <2>6
<1>25. Empty' /\ waiting'
  BY <1>5, <1>15, <1>16 DEF Empty
<1>26. SessionInv'
  BY <1>24, <1>25 DEF SessionInv, Answered
<1>27. ModeInv'
  BY <1>1, <1>5, <1>6, <1>15, <1>16, <1>17, <1>25 DEF LoaderInv, ModeInv, Asks
<1>28. ASSUME at.s = "R"
       PROVE  /\ tx'.word = chip.flash[at.page][0]
              /\ \A i \in 1 .. Len(out') : out'[i].word = chip.flash[at.page][i]
  <2>1. Len(a) = NumWords /\ NumWords \in Nat /\ NumWords > 0 /\ \A i \in 1 .. Len(Tail(a)) : Tail(a)[i] = a[i + 1]
    BY <1>9, <1>13, <1>28, PageZero, HeadTailProperties
  <2>2. Head(a) = a[1] /\ a[1].word = chip.flash[at.page][0]
    BY <1>9, <1>28, <2>1
  <2>3. ASSUME NEW i \in 1 .. Len(Tail(a)) PROVE Tail(a)[i].word = chip.flash[at.page][i]
    <3>1. i + 1 \in 1 .. NumWords /\ Tail(a)[i] = a[i + 1] /\ (i + 1) - 1 = i
      BY <1>13, <2>1
    <3> QED
      BY <1>9, <1>28, <3>1
  <2> QED
    BY <1>14, <2>2, <2>3
<1> QED
  BY <1>2, <1>5, <1>9, <1>12, <1>14, <1>16, <1>18, <1>19, <1>20, <1>22, <1>23, <1>26, <1>27, <1>28 DEF LoaderInv, Silent

LEMMA ExecuteStep ==
  ASSUME NoneIsApart, LoaderInv, Execute, UNCHANGED <<toolVars, replugged>>
  PROVE  LoaderInv'
<1>1. pc = "samba" /\ buf \in Posted \cup Asked /\ out = <<>>
  BY DEF Execute, LoaderInv, PortInv
<1>2. CASE event # "none"
  <2>1. ResetEndpoints
    BY <1>1, <1>2, EventIsReset DEF Execute
  <2> QED
    BY <1>1, <1>2, <2>1, ResetStep DEF Execute, Rest, toolVars
<1>3. CASE event = "none" /\ buf \in Posted
  BY <1>1, <1>3, ExecutePosted DEF Execute
<1>4. CASE event = "none" /\ buf \in Asked
  BY <1>1, <1>4, ExecuteAsked DEF Execute
<1> QED
  BY <1>1, <1>2, <1>3, <1>4

\* The next packet of an answer, when the PC has taken the one before.
LEMMA WriteNext ==
  ASSUME NoneIsApart, LoaderInv, pc = "write", txcomp, txcomp' = FALSE, Respond(out),
         out = <<>> => UNCHANGED out, UNCHANGED <<event, bank, rx, configured>>,
         UNCHANGED <<port, currentRcvBank, buf, chip, interactive, toolVars, replugged>>
  PROVE  /\ LoaderInv'
         /\ s1' = s1 /\ s2' = s2 /\ s3' = s3 /\ tx = None /\ (at.s = "rw" => tx' = None)
<1>1. tx = None /\ configured /\ buf = None
  BY DEF LoaderInv, PortInv
<1>2. /\ port' = port /\ at' = at /\ waiting' = waiting /\ inq' = inq /\ seen' = seen /\ got' = got /\ done' = done
      /\ replugged' = replugged /\ event' = event /\ bank' = bank /\ rx' = rx /\ chip' = chip
      /\ interactive' = interactive /\ buf' = buf
      /\ configured' = configured /\ currentRcvBank' = currentRcvBank
  BY DEF toolVars
<1>3. /\ pc' \in {"poll", "write"}
      /\ out = <<>> => pc' = "poll" /\ tx' = None /\ out' = <<>>
      /\ out # <<>> => pc' = "write" /\ tx' = Head(out) /\ out' = Tail(out)
  BY <1>1 DEF Respond
<1>4. s1 = None /\ s1' = None /\ s2' = s2 /\ s3' = s3
  BY <1>2, <1>3 DEF s1, s2, s3, Taken
<1>5. out \in Seq(Packets) /\ None \notin Packets
  BY DEF LoaderInv, PortInv, NoneIsApart
<1>6. out # <<>> => /\ Head(out) \in Packets /\ Tail(out) \in Seq(Packets)
                    /\ Len(Tail(out)) = Len(out) - 1 /\ Len(out) \in Nat
  BY <1>5, HeadTailProperties
<1>7. PortInv'
  <2>1. CASE out = <<>>
    BY <1>1, <1>2, <1>3, <1>5, <2>1 DEF LoaderInv, PortInv
  <2>2. CASE out # <<>>
    <3>1. pc' = "write" /\ tx' \in Packets /\ tx' # None /\ out' \in Seq(Packets) /\ txcomp' = FALSE
      BY <1>3, <1>5, <1>6, <2>2
    <3> QED
      <4>1. {configured, txcomp', replugged} \subseteq BOOLEAN
        BY <3>1 DEF LoaderInv, PortInv
      <4> QED
        BY <1>1, <1>2, <3>1, <4>1 DEF LoaderInv, PortInv
  <2> QED
    BY <2>1, <2>2
<1>8. InSync => InSync'
  BY <1>2 DEF InSync
<1>9. ~Lost
  BY DEF Lost
<1>10. BankInv' /\ ToolInv' /\ ChipInv'
  BY <1>2, <1>8, <1>9 DEF LoaderInv, BankInv, ToolInv, ChipInv
<1>11. Command' = Command
  BY <1>2 DEF Command
<1>12. Empty <=> Empty'
  BY <1>4 DEF Empty
<1>13. CASE out = <<>>
  <2>1. Resting => Resting'
    BY <1>1, <1>2, <1>3, <1>4, <1>13 DEF Resting, OnlyPosts, Silent
  <2>2. Sent => Sent'
    BY <1>1, <1>2, <1>3, <1>4, <1>9, <1>11, <1>13 DEF Sent, AskedLast, Silent
  <2>3. Answered => Answered'
    BY <1>1, <1>2, <1>3, <1>12, <1>13 DEF Answered, Answering, Coming, Fits
  <2>4. SessionInv'
    BY <1>2, <2>1, <2>2, <2>3 DEF LoaderInv, SessionInv
  <2>5. ModeInv'
    BY <1>2, <1>4, <1>12 DEF LoaderInv, ModeInv
  <2> QED
    BY <1>1, <1>3, <1>4, <1>7, <1>10, <1>13, <2>4, <2>5 DEF LoaderInv
<1>14. CASE out # <<>>
  <2>1. event # "reset" => Answered /\ at.s = "R"
    BY <1>14 DEF LoaderInv, SessionInv, Resting, Sent, Silent, Answered, Answering
  <2>2. at.s = "rw" => event # "reset"
    BY DEF LoaderInv, ToolInv, PortInv, Off, Step
  <2>3. tx' # None
    BY <1>3, <1>5, <1>6, <1>14
  <2>4. Coming' = Coming
    <3>1. Coming = Len(inq) + 0 + Len(out) /\ Coming' = Len(inq) + 1 + Len(out')
      BY <1>1, <1>2, <2>3 DEF Coming
    <3>2. Len(inq) \in Nat
      BY DEF LoaderInv, ToolInv
    <3> QED
      BY <1>3, <1>6, <1>14, <3>1, <3>2
  <2>5. event # "reset" => Answered'
    BY <1>2, <1>12, <2>1, <2>4 DEF Answered, Answering, Fits
  <2>6. SessionInv'
    BY <1>2, <2>5 DEF SessionInv
  <2>7. ModeInv'
    BY <1>2, <1>4, <1>12 DEF LoaderInv, ModeInv
  <2> QED
    BY <1>1, <1>4, <1>7, <1>10, <2>1, <2>2, <2>6, <2>7 DEF LoaderInv
<1> QED
  BY <1>13, <1>14

LEMMA WriteStep ==
  ASSUME NoneIsApart, LoaderInv, usb_write, UNCHANGED <<chip, interactive, toolVars, replugged>>
  PROVE  LoaderInv'
<1>1. pc = "write" /\ buf = None
  BY DEF usb_write, LoaderInv, PortInv
<1>2. CASE txcomp
  BY <1>1, <1>2, WriteNext DEF usb_write
<1>3. CASE ~txcomp
  <2>1. ResetEndpoints
    BY <1>1, <1>3, EventIsReset DEF usb_write
  <2>2. pc' = "poll" /\ out' = <<>>
    BY <1>3, <2>1 DEF usb_write, ResetEndpoints
  <2> QED
    BY <1>1, <2>1, <2>2, ResetStep DEF usb_write, Rest, toolVars
<1> QED
  BY <1>2, <1>3

\* What BankInv, SessionInv and ModeInv look at.
Banks == <<port, event, bank, rx, tx, configured, currentRcvBank, buf, out, pc,
           at, waiting, inq, got, replugged, interactive>>

LEMMA SameBanks ==
  ASSUME LoaderInv, UNCHANGED Banks
  PROVE  BankInv' /\ SessionInv' /\ ModeInv'
<1>1. Command' = Command
  BY DEF Banks, Command
<1>2. s1' = s1 /\ s2' = s2 /\ s3' = s3
  BY DEF Banks, s1, s2, s3, Taken
<1>3. (InSync => InSync') /\ (Lost => Lost')
  BY <1>1 DEF Banks, InSync, Lost
<1>4. BankInv'
  BY <1>3 DEF LoaderInv, BankInv, Banks
<1>5. (Resting => Resting') /\ (Sent => Sent') /\ (Answered => Answered')
  BY <1>1, <1>2, <1>3
     DEF Banks, Resting, Sent, Answered, OnlyPosts, AskedLast, Silent, Empty, Answering, Coming, Fits
<1>6. SessionInv'
  BY <1>5 DEF LoaderInv, SessionInv, Banks
<1>7. ModeInv'
  BY <1>2 DEF LoaderInv, ModeInv, Empty, Banks
<1> QED
  BY <1>4, <1>6, <1>7

LEMMA FlashStep ==
  ASSUME LoaderInv, Finish, UNCHANGED <<usbVars, toolVars, replugged>>
  PROVE  LoaderInv' /\ chip'.ram = chip.ram
<1>1. chip \in ChipType /\ interactive' = interactive /\ interactive \in BOOLEAN
  BY DEF LoaderInv, ChipInv, Finish
<1>2. NoPage \in [op : {"none", "program", "unlock"}, page : Pages]
  BY PageZero DEF NoPage
<1>3. ASSUME chip.busy.op = "unlock" PROVE chip' \in ChipType /\ chip'.ram = chip.ram
  <2> DEFINE l == chip.locked \ {chip.busy.page}
  <2>1. chip' = [chip EXCEPT !.locked = l, !.busy = NoPage]
    BY <1>3 DEF Finish
  <2>2. l \in SUBSET Pages
    BY <1>1 DEF ChipType
  <2> HIDE DEF l
  <2> QED
    BY <1>1, <1>2, <2>1, <2>2 DEF ChipType
<1>4. ASSUME chip.busy.op # "unlock" PROVE chip' \in ChipType /\ chip'.ram = chip.ram
  <2> DEFINE f == [chip.flash EXCEPT ![chip.busy.page] = chip.latch]
             e == Latch(Erased)
  <2>1. chip' = [chip EXCEPT !.flash = f, !.latch = e, !.busy = NoPage]
    BY <1>1, <1>4 DEF Finish, ChipType
  <2>2. f \in [Pages -> [Words -> Content]]
    <3>1. chip.latch \in [Words -> Content]
      BY <1>1 DEF ChipType, Content
    <3> QED
      BY <1>1, <3>1 DEF ChipType
  <2>3. e \in [Words -> Values \cup {Erased}]
    BY DEF Latch
  <2> HIDE DEF f, e
  <2> QED
    BY <1>1, <1>2, <2>1, <2>2, <2>3 DEF ChipType
<1>5. chip' \in ChipType /\ chip'.ram = chip.ram
  BY <1>3, <1>4
<1>6. ChipInv'
  BY <1>1, <1>5 DEF ChipInv
<1>7. UNCHANGED <<port, event, bank, rx, tx, txcomp, configured, currentRcvBank, buf, out, pc,
                  at, waiting, inq, seen, got, done, replugged, interactive>>
  BY DEF usbVars, udpVars, toolVars, Finish
<1>8. PortInv' /\ ToolInv'
  BY <1>7 DEF LoaderInv, PortInv, ToolInv
<1>9. BankInv' /\ SessionInv' /\ ModeInv'
  BY <1>7, SameBanks DEF Banks
<1> QED
  BY <1>5, <1>6, <1>8, <1>9 DEF LoaderInv

-----------------------------------------------------------------------------
(* The tool.                                                               *)
LEMMA EndsType == \A next : Ends(next) \in {"none", "flash", "unlock", "read"}
BY DEF Ends

LEMMA AfterPostTypes ==
  ASSUME ToolInv, at.s \in Posts
  PROVE  /\ AfterPost.s \in {"after", "word", "program", "ready", "idle"}
         /\ AfterPost.page \in Pages /\ AfterPost.word \in Words
         /\ AfterPost = Step(AfterPost.s, AfterPost.page, AfterPost.word)
         /\ AfterPost.s = "idle" => AfterPost = Idle
<1>1. at = [s |-> at.s, page |-> at.page, word |-> at.word] /\ at.page \in Pages /\ at.word \in Words
  BY DEF ToolInv, Step
<1>2. Idle = [s |-> "idle", page |-> 0, word |-> 0]
  BY DEF Idle, Step
<1>3. CASE at.s = "unlock"
  <2>1. AfterPost = [s |-> "after", page |-> at.page, word |-> at.word]
    BY <1>1, <1>3 DEF AfterPost
  <2> QED
    BY <1>1, <2>1 DEF Step
<1>4. CASE at.s = "word"
  <2>1. CASE at.word = NumWords - 1
    <3>1. AfterPost = [s |-> "program", page |-> at.page, word |-> 0]
      BY <1>1, <1>4, <2>1 DEF AfterPost
    <3> QED
      BY <1>1, <3>1, PageZero DEF Step
  <2>2. CASE at.word # NumWords - 1
    <3>1. AfterPost = [s |-> "word", page |-> at.page, word |-> at.word + 1]
      BY <1>1, <1>4, <2>2 DEF AfterPost
    <3>2. at.word + 1 \in Words
      BY <1>1, <2>2, PageZero DEF Words
    <3> QED
      BY <1>1, <3>1, <3>2 DEF Step
  <2> QED
    BY <2>1, <2>2
<1>5. CASE at.s = "program"
  <2>1. CASE at.page = NumPages - 1
    <3>1. AfterPost = Idle
      BY <1>5, <2>1 DEF AfterPost
    <3> QED
      BY <1>2, <3>1, PageZero DEF Step
  <2>2. CASE at.page # NumPages - 1
    <3>1. AfterPost = [s |-> "ready", page |-> at.page + 1, word |-> 0]
      BY <1>5, <2>2 DEF AfterPost, Step
    <3>2. at.page + 1 \in Pages
      BY <1>1, <2>2, PageZero DEF Pages
    <3> QED
      BY <3>1, <3>2, PageZero DEF Step
  <2> QED
    BY <2>1, <2>2
<1>6. CASE at.s = "mode"
  <2>1. AfterPost = Idle
    BY <1>6 DEF AfterPost
  <2> QED
    BY <1>2, <2>1, PageZero DEF Step
<1> QED
  BY <1>3, <1>4, <1>5, <1>6 DEF Posts

\* The step after an answer that fits.
LEMMA AfterAnswerTypes ==
  ASSUME ToolInv, at.s \in Asks, NEW w, Fits(w)
  PROVE  LET next == AfterAnswer(w) IN
         /\ next.s \in Posts \cup Asks \cup {"idle", "off"}
         /\ next.page \in Pages /\ next.word \in Words
         /\ next = Step(next.s, next.page, next.word)
         /\ next.s = "idle" => next = Idle
         /\ next.s = "off" => next = Off
         /\ next.s \notin {"T", "R", "rw"}
         /\ next.s = "N" <=> at.s = "T"
         /\ at.s = "T" => next.s # "off"
<1> DEFINE next == AfterAnswer(w)
<1>1. at = [s |-> at.s, page |-> at.page, word |-> at.word] /\ at.page \in Pages /\ at.word \in Words
  BY DEF ToolInv, Step
<1>2. Idle = [s |-> "idle", page |-> 0, word |-> 0] /\ Off = [s |-> "off", page |-> 0, word |-> 0]
  BY DEF Idle, Off, Step
<1>3. CASE at.s \in {"T", "N"}
  <2>1. next = [s |-> IF at.s = "T" THEN "N" ELSE "id", page |-> 0, word |-> 0]
    BY <1>3 DEF AfterAnswer, Step
  <2> HIDE DEF next
  <2> QED
    BY <1>3, <2>1, PageZero DEF Step, Asks, next
<1>4. CASE at.s \in {"V", "rw", "R", "id"}
  <2>1. next \in {Idle, Off}
    BY <1>4 DEF AfterAnswer
  <2> HIDE DEF next
  <2> QED
    BY <1>2, <1>4, <2>1, PageZero DEF Step, next
<1>5. CASE at.s \in {"locks", "before", "after", "ready"}
  <2>1. w \in Flags /\ at.page + 1 \in Nat /\ 0 \in Nat
    BY <1>1, <1>5 DEF Fits, Pages
  <2>2. \/ next \in {Idle, at} \/ \E f \in Nat : \E val : next = Scan(f, val)
        \/ next = [at EXCEPT !.s = "unlock"] \/ next = [at EXCEPT !.s = "word"]
    BY <1>5, <2>1 DEF AfterAnswer
  <2>3. \/ next \in {Idle, at} \/ next = Step("mode", 0, 0) \/ \E p \in Pages : next = Step("before", p, 0)
        \/ next = Step("unlock", at.page, at.word) \/ next = Step("word", at.page, at.word)
    BY <1>1, <2>2, ScanTypes DEF Step
  <2> HIDE DEF next
  <2> QED
    BY <1>1, <1>2, <1>5, <2>3, PageZero DEF Step, Posts, Asks, next
<1> QED
  BY <1>3, <1>4, <1>5 DEF Asks

\* A packet goes into the next bank.
LEMMA SendBanks ==
  ASSUME NoneIsApart, LoaderInv, NEW c \in Posted \cup Asked, Send(c),
         currentRcvBank' = currentRcvBank, pc' = pc, buf' = buf
  PROVE  /\ s1' = s1 /\ event = "none" /\ port = "up" /\ configured
         /\ rx' \in [{0, 1} -> Posted \cup Asked \cup {None}] /\ bank' \in {0, 1}
         /\ InSync => /\ InSync' /\ s3 = None
                      /\ \/ s2 = None /\ s2' = c /\ s3' = None
                         \/ s2 # None /\ s2' = s2 /\ s3' = c
         /\ Lost /\ ~InSync /\ ~waiting => bank' = 1 /\ rx'[0] = c /\ rx'[1] = None
<1>1. /\ currentRcvBank \in {0, 1} /\ bank \in {0, 1} /\ rx \in [{0, 1} -> Posted \cup Asked \cup {None}]
  BY DEF LoaderInv, PortInv
<1>2. port = "up" /\ event = "none" /\ rx[bank] = None /\ rx' = [rx EXCEPT ![bank] = c] /\ bank' = 1 - bank
  BY DEF Send
<1>3. c # None
  BY DEF NoneIsApart
<1>4. /\ rx' \in [{0, 1} -> Posted \cup Asked \cup {None}] /\ bank' \in {0, 1}
      /\ \A b \in {0, 1} : rx'[b] = IF b = bank THEN c ELSE rx[b]
  BY <1>1, <1>2
<1>5. s1' = s1 /\ configured
  BY <1>2 DEF s1, Taken, LoaderInv, PortInv
<1>6. NoPackets[0] = None /\ NoPackets[1] = None
  BY DEF NoPackets
<1>7. Lost /\ ~InSync /\ ~waiting => bank' = 1 /\ rx'[0] = c /\ rx'[1] = None
  BY <1>1, <1>2, <1>4 DEF Lost
<1>8. ASSUME InSync
      PROVE  /\ InSync' /\ s3 = None
             /\ \/ s2 = None /\ s2' = c /\ s3' = None
                \/ s2 # None /\ s2' = s2 /\ s3' = c
  <2>1. CASE currentRcvBank = bank
    <3>1. rx = NoPackets
      BY <1>1, <1>2, <1>8, <2>1 DEF InSync
    <3>2. bank' # currentRcvBank /\ rx'[currentRcvBank] = c /\ rx'[bank'] = None /\ bank' = 1 - currentRcvBank
      BY <1>1, <1>2, <1>4, <1>6, <2>1, <3>1
    <3> QED
      BY <1>1, <1>3, <1>6, <2>1, <3>1, <3>2 DEF InSync, s2, s3
  <2>2. CASE currentRcvBank # bank
    <3>1. rx[currentRcvBank] # None
      BY <1>1, <1>2, <1>8, <2>2 DEF InSync
    <3>2. bank = 1 - currentRcvBank /\ bank' = currentRcvBank
      BY <1>1, <1>2, <2>2
    <3>3. rx'[currentRcvBank] = rx[currentRcvBank] /\ rx'[bank] = c
      BY <1>1, <1>4, <2>2
    <3>4. rx'[0] # None /\ rx'[1] # None
      BY <1>1, <1>3, <3>1, <3>2, <3>3
    <3> QED
      BY <1>2, <3>1, <3>2, <3>3, <3>4 DEF InSync, s2, s3
  <2> QED
    BY <2>1, <2>2
<1> QED
  BY <1>2, <1>4, <1>5, <1>7, <1>8

LEMMA SendPort ==
  ASSUME NoneIsApart, LoaderInv, NEW c \in Posted \cup Asked, Send(c), LineOnly
  PROVE  PortInv' /\ ChipInv'
<1>1. /\ event = "none" /\ port = "up" /\ configured
      /\ rx' \in [{0, 1} -> Posted \cup Asked \cup {None}] /\ bank' \in {0, 1}
  BY SendBanks DEF LineOnly
<1>2. UNCHANGED <<port, event, tx, txcomp, configured, currentRcvBank, buf, out, pc, chip, interactive, replugged>>
  BY DEF LineOnly
<1> QED
  BY <1>1, <1>2 DEF LoaderInv, PortInv, ChipInv

\* The tool posts a write and goes on.
LEMMA PostedStep ==
  ASSUME NoneIsApart, LoaderInv, NEW c \in Posted, Send(c), LineOnly,
         ~waiting, waiting' = waiting, inq' = inq, at.s \notin {"off", "T", "N"},
         at'.s \in {"after", "word", "program", "ready", "idle"},
         at'.page \in Pages, at'.word \in Words, at' = Step(at'.s, at'.page, at'.word),
         at'.s = "idle" => at' = Idle,
         seen' \in Values \cup {None}, got' \in {got, <<>>}, done' \in {"none", "flash", "unlock", "read"}
  PROVE  LoaderInv'
<1>1. PortInv' /\ ChipInv'
  BY SendPort
<1>2. UNCHANGED <<port, event, tx, txcomp, configured, currentRcvBank, buf, out, pc, chip, interactive, replugged>>
  BY DEF LineOnly
<1>3. None \notin Posted
  BY DEF NoneIsApart
<1>4. InSync /\ ~Lost
  <2>1. event = "none"
    BY DEF Send
  <2> QED
    BY <2>1 DEF LoaderInv, BankInv, Lost
<1>5. /\ s1' = s1 /\ event = "none" /\ port = "up" /\ configured /\ InSync' /\ s3 = None
      /\ \/ s2 = None /\ s2' = c /\ s3' = None
         \/ s2 # None /\ s2' = s2 /\ s3' = c
  BY <1>2, <1>4, SendBanks
<1>6. BankInv'
  BY <1>2, <1>5 DEF LoaderInv, BankInv
<1>7. ToolInv'
  <2>1. got' \in Seq(Replies) /\ Len(got') <= NumWords
    <3>1. got \in Seq(Replies) /\ Len(got) <= NumWords
      BY DEF LoaderInv, ToolInv
    <3>2. <<>> \in Seq(Replies) /\ Len(<<>>) <= NumWords
      BY PageZero
    <3> QED
      BY <3>1, <3>2
  <2>2. at'.s \in Posts \cup Asks \cup {"idle", "off"} /\ at'.s \notin {"off", "T", "R"}
    BY DEF Posts, Asks
  <2>3. inq \in Seq(Packets) /\ waiting \in BOOLEAN
    BY DEF LoaderInv, ToolInv
  <2> QED
    BY <1>2, <1>5, <2>1, <2>2, <2>3 DEF ToolInv
<1>8. Resting
  BY <1>5 DEF LoaderInv, SessionInv, Sent, Answered
<1>9. Resting'
  BY <1>2, <1>5, <1>8 DEF Resting, OnlyPosts, Silent, Maybe
<1>10. ModeInv'
  <2>1. ~interactive
    BY <1>5 DEF LoaderInv, ModeInv
  <2> QED
    BY <1>2, <2>1 DEF ModeInv
<1> QED
  BY <1>1, <1>6, <1>7, <1>9, <1>10 DEF LoaderInv, SessionInv

LEMMA WriteMemStep ==
  ASSUME NoneIsApart, LoaderInv, NEW v \in Values, cmd_write_mem(v)
  PROVE  LoaderInv'
<1>1. at = Idle /\ at.s = "idle" /\ at' = Idle /\ Idle.s = "idle" /\ Idle.page = 0 /\ Idle.word = 0
      /\ Idle = Step(Idle.s, Idle.page, Idle.word)
  BY DEF cmd_write_mem, Host, Idle, Step
<1>2. Cmd("W", Reg("ram"), v) \in Posted
  BY DEF Posted
<1>3. ~waiting
  BY <1>1 DEF LoaderInv, ToolInv, Asks
<1>4. done' \in {"none", "flash", "unlock", "read"}
  BY EndsType DEF cmd_write_mem, Host
<1> QED
  BY <1>1, <1>2, <1>3, <1>4, PageZero, PostedStep DEF cmd_write_mem

LEMMA PostStep ==
  ASSUME NoneIsApart, LoaderInv, Post
  PROVE  LoaderInv' /\ Command \in Posted /\ Command.at.reg # "ram"
<1>1. ToolInv /\ at.s \in Posts /\ at' = AfterPost
  BY DEF LoaderInv, Post, Host
<1>2. Command \in Posted /\ Command.at.reg # "ram"
  BY <1>1, PostedCommand DEF ToolInv
<1>3. /\ at'.s \in {"after", "word", "program", "ready", "idle"}
      /\ at'.page \in Pages /\ at'.word \in Words
      /\ at' = Step(at'.s, at'.page, at'.word)
      /\ at'.s = "idle" => at' = Idle
  BY <1>1, AfterPostTypes
<1>4. ~waiting /\ seen \in Values \cup {None} /\ at.s \notin {"off", "T", "N"}
  BY <1>1 DEF LoaderInv, ToolInv, Asks, Posts
<1>5. done' \in {"none", "flash", "unlock", "read"}
  BY EndsType DEF Post, Host
<1> QED
  BY <1>2, <1>3, <1>4, <1>5, PostedStep DEF Post

LEMMA AskStep ==
  ASSUME NoneIsApart, LoaderInv, Ask
  PROVE  LoaderInv' /\ Command \in Asked
<1>1. at.s \in Asks /\ ~waiting /\ Send(Command) /\ waiting' = TRUE
  BY DEF Ask
<1>2. UNCHANGED <<port, event, tx, txcomp, configured, currentRcvBank, buf, out, pc, chip, interactive,
                  replugged, at, inq, seen, got, done>>
  BY DEF Ask, LineOnly
<1>3. Command \in Asked /\ None \notin Posted /\ None \notin Asked /\ Command \notin Posted /\ Command # None
  BY <1>1, AskedCommand, CommandKinds DEF NoneIsApart, LoaderInv, ToolInv
<1>4. PortInv' /\ ChipInv'
  BY <1>1, <1>3, SendPort DEF Ask
<1>5. /\ s1' = s1 /\ event = "none" /\ port = "up" /\ configured
      /\ InSync => /\ InSync' /\ s3 = None
                   /\ \/ s2 = None /\ s2' = Command /\ s3' = None
                      \/ s2 # None /\ s2' = s2 /\ s3' = Command
      /\ Lost /\ ~InSync => bank' = 1 /\ rx'[0] = Command /\ rx'[1] = None
  BY <1>1, <1>2, <1>3, SendBanks
<1>6. Command' = Command
  BY <1>2 DEF Command
<1>7. ToolInv'
  BY <1>1, <1>2, <1>5 DEF LoaderInv, ToolInv
<1>8. Resting
  BY <1>1, <1>5 DEF LoaderInv, SessionInv, Sent, Answered
<1>9. CASE InSync
  <2>1. BankInv'
    BY <1>2, <1>5, <1>9 DEF LoaderInv, BankInv
  <2>2. AskedLast' /\ ~Empty'
    BY <1>3, <1>5, <1>6, <1>8, <1>9 DEF AskedLast, Empty, Resting, OnlyPosts, Maybe
  <2>3. Silent' /\ (at'.s = "R" => got' = <<>>)
    BY <1>1, <1>2, <1>8 DEF Resting, Silent, LoaderInv, ToolInv
  <2>4. SessionInv'
    BY <1>1, <2>2, <2>3 DEF SessionInv, Sent
  <2>5. ModeInv'
    BY <1>1, <1>2, <1>3, <1>5, <1>9, <2>2 DEF LoaderInv, ModeInv
  <2> QED
    BY <1>3, <1>4, <1>7, <2>1, <2>4, <2>5 DEF LoaderInv
<1>10. CASE ~InSync
  <2>1. Lost /\ replugged
    BY <1>5, <1>10 DEF LoaderInv, BankInv
  <2>2. bank' = 1 /\ rx'[0] = Command /\ rx'[1] = None
    BY <1>5, <1>10, <2>1
  <2>3. Lost'
    BY <1>1, <1>2, <1>6, <2>1, <2>2 DEF Lost
  <2>4. BankInv'
    BY <1>2, <1>5, <2>1, <2>3 DEF LoaderInv, BankInv
  <2>5. currentRcvBank = 1 /\ pc # "samba" /\ at.s = "T"
    BY <1>1, <2>1 DEF Lost, Asks
  <2>6. s1' = None /\ s2' = None /\ s3' = Command
    BY <1>2, <2>2, <2>5 DEF s1, s2, s3, Taken
  <2>7. SessionInv'
    BY <1>1, <1>2, <1>8, <2>3, <2>5 DEF SessionInv, Sent, Resting, Silent
  <2>8. ModeInv'
    BY <1>2, <1>3, <2>5, <2>6 DEF ModeInv, Empty
  <2> QED
    BY <1>3, <1>4, <1>7, <2>4, <2>7, <2>8 DEF LoaderInv
<1> QED
  BY <1>9, <1>10

\* The tool takes a packet.  It was waiting for an answer, and has it when
\* nothing more is to come.
LEMMA TakeStep ==
  ASSUME NoneIsApart, LoaderInv, io_read
  PROVE  LoaderInv' /\ (at.s = "rw" => at' = Idle) /\ (at.s # "rw" => at'.s # "rw")
<1>1. waiting /\ inq # <<>> /\ inq' = Tail(inq) /\ at.s \in Asks /\ configured /\ port = "up" /\ event # "reset"
  BY DEF io_read, LoaderInv, ToolInv, PortInv, Off, Step, Asks
<1>2. UNCHANGED <<port, event, bank, rx, tx, txcomp, configured, currentRcvBank, buf, out, pc, chip,
                  interactive, replugged>>
  BY DEF io_read, Quiet, usbVars, udpVars
<1>3. Empty /\ Answering
  BY <1>1 DEF LoaderInv, SessionInv, Resting, Sent, Silent, Answered
<1>4. ToolInv /\ inq \in Seq(Packets)
  BY DEF LoaderInv, ToolInv
<1>5. /\ inq' \in Seq(Packets) /\ Head(inq) \in Packets /\ Len(inq') = Len(inq) - 1 /\ Len(inq) \in Nat
      /\ \A j \in 1 .. Len(inq') : inq'[j] = inq[j + 1]
  BY <1>1, <1>4, HeadTailProperties
<1>6. Len(inq) # 0
  BY <1>1, <1>4, EmptySeq
<1> DEFINE w == Head(inq).word
<1>7. w \in Replies /\ Fits(w)
  <2>1. Head(inq) = inq[1] /\ 1 \in 1 .. Len(inq)
    BY <1>4, <1>5, <1>6
  <2> QED
    BY <1>3, <1>5, <2>1 DEF Answering, Packets
<1>8. /\ seen' = IF at.s = "rw" THEN w ELSE seen
      /\ got' = IF at.s = "R" THEN Append(got, w) ELSE got
      /\ IF at.s = "R" /\ Len(got') < NumWords THEN UNCHANGED <<at, waiting, done>>
         ELSE waiting' = FALSE /\ Host(AfterAnswer(w))
  BY DEF io_read
<1> HIDE DEF w
<1>9. got \in Seq(Replies) /\ Len(got) \in Nat /\ Len(got) <= NumWords
  BY <1>4 DEF ToolInv
<1>10. got' \in Seq(Replies) /\ Len(got') = IF at.s = "R" THEN Len(got) + 1 ELSE Len(got)
  BY <1>7, <1>8, <1>9, AppendProperties
<1>11. seen' \in Values \cup {None}
  BY <1>4, <1>7, <1>8 DEF ToolInv, Fits
<1>12. PortInv' /\ ChipInv'
  BY <1>2 DEF LoaderInv, PortInv, ChipInv
<1>13. s1' = None /\ s2' = None /\ s3' = None
  BY <1>2, <1>3 DEF s1, s2, s3, Taken, Empty
<1>14. InSync /\ InSync'
  <2>1. ~Lost
    <3>1. Lost => rx[0] = Command /\ Command \in Asked /\ s3 = rx[0]
      BY <1>1, <1>4, AskedCommand DEF Lost, ToolInv, s3
    <3> QED
      BY <1>3, <3>1 DEF Empty, NoneIsApart
  <2>2. InSync
    BY <1>1, <2>1 DEF LoaderInv, BankInv
  <2> QED
    BY <1>2, <2>2 DEF InSync
<1>15. BankInv'
  BY <1>2, <1>14 DEF LoaderInv, BankInv
<1>16. /\ out \in Seq(Packets) /\ Len(out) \in Nat /\ (out # <<>> => Len(out) # 0)
       /\ Coming \in Nat /\ Coming = Len(inq) + (IF tx = None THEN 0 ELSE 1) + Len(out)
  <2>1. out \in Seq(Packets)
    BY DEF LoaderInv, PortInv
  <2>2. Len(out) \in Nat /\ (out # <<>> => Len(out) # 0)
    BY <2>1, EmptySeq
  <2> QED
    BY <1>5, <2>1, <2>2 DEF Coming
<1>17. Coming' = Coming - 1
  BY <1>2, <1>5, <1>16 DEF Coming
<1>18. CASE at.s = "R" /\ Len(got') < NumWords
  <2>1. at' = at /\ waiting' = waiting /\ done' = done
    BY <1>8, <1>18
  <2>2. ToolInv'
    <3>1. got' \in Seq(Replies) /\ Len(got') <= NumWords
      BY <1>9, <1>10, <1>18, PageZero
    <3>2. at.s # "off"
      BY <1>1 DEF Asks
    <3> QED
      BY <1>1, <1>2, <1>4, <1>5, <1>11, <2>1, <3>1, <3>2 DEF ToolInv
  <2>3. Len(got') + Coming' = NumWords /\ Coming' > 0
    <3>1. Len(got) + Coming = NumWords
      BY <1>3, <1>18 DEF Answering
    <3>2. Len(got') = Len(got) + 1 /\ Len(got') < NumWords
      BY <1>10, <1>18
    <3> QED
      <4>1. Coming \in Nat /\ Len(got) \in Nat /\ NumWords \in Nat
        BY <1>9, <1>16, PageZero
      <4>2. Coming' = NumWords - Len(got) - 1
        BY <1>17, <3>1, <4>1
      <4>3. Len(got') = Len(got) + 1
        BY <3>2
      <4>4. Len(got) + 1 < NumWords
        BY <3>2
      <4>5. Len(got') + Coming' = NumWords
        BY <4>1, <4>2, <4>3
      <4>6. Coming' > 0
        BY <4>1, <4>2, <4>4
      <4> QED
        BY <4>5, <4>6
  <2>4. Answering'
    BY <1>2, <1>3, <1>18, <2>1, <2>3 DEF Answering, Fits
  <2>5. SessionInv'
    BY <1>1, <1>13, <2>1, <2>4 DEF SessionInv, Answered, Empty
  <2>6. ModeInv'
    BY <1>1, <1>2, <1>13, <1>18, <2>1 DEF LoaderInv, ModeInv, NoneIsApart
  <2> QED
    BY <1>12, <1>15, <1>18, <2>1, <2>2, <2>5, <2>6 DEF LoaderInv
<1>19. CASE ~(at.s = "R" /\ Len(got') < NumWords)
  <2>1. waiting' = FALSE /\ at' = AfterAnswer(w) /\ done' \in {"none", "flash", "unlock", "read"}
    BY <1>8, <1>19, EndsType DEF Host
  <2>2. /\ at'.s \in Posts \cup Asks \cup {"idle", "off"}
        /\ at'.page \in Pages /\ at'.word \in Words
        /\ at' = Step(at'.s, at'.page, at'.word)
        /\ at'.s = "idle" => at' = Idle
        /\ at'.s = "off" => at' = Off
        /\ at'.s \notin {"T", "R", "rw"}
        /\ at'.s = "N" <=> at.s = "T"
        /\ at.s = "T" => at'.s # "off"
    BY <1>1, <1>4, <1>7, <2>1, AfterAnswerTypes
  <2>3. at.s = "rw" => at' = Idle
    BY <2>1 DEF AfterAnswer
  <2>4. Coming' = 0
    <3>1. CASE at.s = "R"
      BY <1>3, <1>9, <1>10, <1>16, <1>17, <1>19, <3>1, PageZero DEF Answering
    <3>2. CASE at.s # "R"
      BY <1>3, <1>17, <3>2 DEF Answering
    <3> QED
      BY <3>1, <3>2
  <2>5. Silent'
    <3>1. Coming' = Len(inq') + (IF tx = None THEN 0 ELSE 1) + Len(out)
      BY <1>2 DEF Coming
    <3>2. Len(inq') = 0 /\ tx = None /\ Len(out) = 0
      BY <1>5, <1>6, <1>16, <2>4, <3>1
    <3>3. inq' = <<>>
      BY <1>5, <3>2, EmptySeq
    <3>4. out = <<>>
      BY <1>16, <3>2
    <3> QED
      BY <1>2, <3>2, <3>3, <3>4 DEF Silent
  <2>6. ToolInv'
    <3>1. got' \in Seq(Replies) /\ Len(got') <= NumWords
      BY <1>3, <1>9, <1>10, <1>16 DEF Answering
    <3>2. inq' = <<>>
      BY <2>5 DEF Silent
    <3> QED
      BY <1>1, <1>2, <1>5, <1>11, <2>1, <2>2, <3>1, <3>2 DEF ToolInv
  <2>7. SessionInv'
    BY <1>13, <2>1, <2>5 DEF SessionInv, Resting, OnlyPosts, Maybe
  <2>8. (at.s = "T" => interactive) /\ (at.s # "T" => ~interactive)
    BY <1>1, <1>3 DEF LoaderInv, ModeInv, Asks
  <2>9. ModeInv'
    BY <1>2, <1>13, <2>1, <2>2, <2>8 DEF ModeInv, Empty, NoneIsApart
  <2> QED
    BY <1>12, <1>15, <2>2, <2>3, <2>6, <2>7, <2>9 DEF LoaderInv
<1> QED
  BY <1>18, <1>19

\* The tool starts and ends, and its commands begin: nothing is sent.
LEMMA StartStep ==
  ASSUME LoaderInv, ~waiting, Quiet, waiting' = waiting, inq' = inq,
         NEW s \in {"T", "off", "locks", "ready", "rw", "V", "R"}, NEW p \in Pages, at' = Step(s, p, 0),
         done' = Ends(at'), seen' \in {seen, None}, got' \in {got, <<>>},
         \/ at = Off /\ s = "T" /\ port = "up"
         \/ at = Idle /\ s = "off" /\ p = 0
         \/ at = Idle /\ s \notin {"T", "off"} /\ (s = "R" => got' = <<>>)
  PROVE  LoaderInv' /\ tx = None /\ inq' = <<>>
<1>1. UNCHANGED <<port, event, bank, rx, tx, txcomp, configured, currentRcvBank, buf, out, pc, chip,
                  interactive, replugged>>
  BY DEF Quiet, usbVars, udpVars
<1>2. /\ Off.s = "off" /\ Idle.s = "idle" /\ Off # Idle /\ Step("off", 0, 0) = Off
      /\ at'.s = s /\ at'.page = p /\ at'.word = 0
  BY DEF Off, Idle, Step
<1>3. port = "up" /\ event # "reset" /\ (at = Idle => configured)
  BY <1>2 DEF LoaderInv, ToolInv, PortInv
<1>4. PortInv' /\ ChipInv'
  BY <1>1 DEF LoaderInv, PortInv, ChipInv
<1>5. Lost => at = Off
  BY <1>2 DEF Lost
<1>6. (InSync => InSync') /\ (Lost => Lost')
  <2>1. InSync => InSync'
    BY <1>1 DEF InSync
  <2>2. Lost => Lost'
    BY <1>1, <1>2, <1>5 DEF Lost
  <2> QED
    BY <2>1, <2>2
<1>7. BankInv'
  BY <1>1, <1>6 DEF LoaderInv, BankInv
<1>8. Resting
  BY <1>3 DEF LoaderInv, SessionInv, Sent, Answered
<1>9. ToolInv'
  <2>1. got' \in Seq(Replies) /\ Len(got') <= NumWords
    <3>1. got \in Seq(Replies) /\ Len(got) <= NumWords
      BY DEF LoaderInv, ToolInv
    <3>2. <<>> \in Seq(Replies) /\ Len(<<>>) <= NumWords
      BY PageZero
    <3> QED
      BY <3>1, <3>2
  <2>2. seen' \in Values \cup {None} /\ done' \in {"none", "flash", "unlock", "read"}
    BY EndsType DEF LoaderInv, ToolInv
  <2>3. inq \in Seq(Packets) /\ waiting \in BOOLEAN /\ inq = <<>>
    BY <1>8 DEF LoaderInv, ToolInv, Resting, Silent
  <2>4. s \in Asks \cup {"off"}
    BY DEF Asks
  <2>5. 0 \in Words
    BY PageZero
  <2> QED
    BY <1>1, <1>2, <1>3, <2>1, <2>2, <2>3, <2>4, <2>5 DEF ToolInv
<1>10. s1' = s1 /\ s2' = s2 /\ s3' = s3
  BY <1>1 DEF s1, s2, s3, Taken
<1>11. Resting'
  BY <1>1, <1>8, <1>10 DEF Resting, OnlyPosts, Silent
<1>12. ModeInv'
  <2>1. s \notin {"off", "T", "N"} => ~interactive
    BY <1>2, <1>3 DEF LoaderInv, ModeInv
  <2>2. s # "N"
    OBVIOUS
  <2> QED
    BY <1>1, <1>2, <1>3, <1>10, <2>1, <2>2 DEF LoaderInv, ModeInv
<1> QED
  BY <1>4, <1>7, <1>8, <1>9, <1>11, <1>12 DEF LoaderInv, SessionInv, Resting, Silent

\* No command is under way when the tool is not running, or idle.
LEMMA NotWaiting ==
  ASSUME LoaderInv, at \in {Off, Idle}
  PROVE  ~waiting
BY DEF LoaderInv, ToolInv, Asks, Off, Idle, Step

LEMMA OpenStep ==
  ASSUME LoaderInv, io_init \/ io_cleanup
  PROVE  LoaderInv' /\ at.s # "rw" /\ at'.s # "rw"
<1>1. 0 \in Pages /\ Off = Step("off", 0, 0) /\ Off.s = "off" /\ Idle.s = "idle" /\ Step("T", 0, 0).s = "T"
  BY PageZero DEF Off, Idle, Step
<1>2. CASE io_init
  BY <1>1, <1>2, NotWaiting, StartStep DEF io_init, Host
<1>3. CASE io_cleanup
  BY <1>1, <1>3, NotWaiting, StartStep DEF io_cleanup, Host
<1> QED
  BY <1>2, <1>3

LEMMA BeginStep ==
  ASSUME LoaderInv, NEW s \in {"locks", "ready", "rw", "V", "R"}, NEW p \in Pages, Begin(s, p)
  PROVE  LoaderInv' /\ tx = None /\ inq' = <<>> /\ at.s # "rw"
<1>1. Idle.s = "idle"
  BY DEF Idle, Step
<1> QED
  BY <1>1, NotWaiting, StartStep DEF Begin, Host

\* A packet for the tool arrives.
LEMMA ArriveStep ==
  ASSUME NoneIsApart, LoaderInv, Arrive
  PROVE  LoaderInv' /\ (at.s # "R" => inq = <<>>) /\ s1' = s1 /\ s2' = s2 /\ s3' = s3
<1>1. at # Off /\ port = "up" /\ tx # None /\ tx' = None /\ txcomp' = TRUE /\ inq' = Append(inq, tx)
  BY DEF Arrive, Receive
<1>2. UNCHANGED <<chip, interactive, port, event, bank, rx, configured, currentRcvBank, buf, out,
                  pc, at, waiting, seen, got, done, replugged>>
  BY DEF Arrive
<1>3. event # "reset" /\ pc = "write" /\ at.s # "off"
  BY <1>1 DEF LoaderInv, PortInv, ToolInv
<1>4. waiting /\ Empty /\ Answering
  BY <1>1, <1>3 DEF LoaderInv, SessionInv, Resting, Sent, Silent, Answered
<1>5. tx \in Packets /\ inq \in Seq(Packets) /\ out \in Seq(Packets)
  BY <1>1 DEF LoaderInv, PortInv, ToolInv
<1>6. /\ inq' \in Seq(Packets) /\ Len(inq') = Len(inq) + 1 /\ Len(inq) \in Nat /\ Len(out) \in Nat
      /\ \A j \in 1 .. Len(inq) : inq'[j] = inq[j]
      /\ inq'[Len(inq) + 1] = tx
  BY <1>1, <1>5, AppendProperties
<1>7. s1' = s1 /\ s2' = s2 /\ s3' = s3
  BY <1>2 DEF s1, s2, s3, Taken
<1>8. PortInv' /\ ChipInv'
  BY <1>1, <1>2, <1>3 DEF LoaderInv, PortInv, ChipInv
<1>9. ~Lost
  BY <1>3 DEF Lost
<1>10. BankInv'
  <2>1. InSync => InSync'
    BY <1>2 DEF InSync
  <2> QED
    BY <1>2, <1>9, <2>1 DEF LoaderInv, BankInv
<1>11. ToolInv'
  BY <1>2, <1>3, <1>6 DEF LoaderInv, ToolInv
<1>12. Coming' = Coming
  BY <1>1, <1>2, <1>6 DEF Coming
<1>13. Answering'
  <2>1. Fits(tx.word)
    BY <1>1, <1>4 DEF Answering
  <2>2. ASSUME NEW j \in 1 .. Len(inq') PROVE Fits(inq'[j].word)
    <3>1. CASE j = Len(inq) + 1
      BY <1>6, <2>1, <3>1
    <3>2. CASE j # Len(inq) + 1
      <4>1. j \in 1 .. Len(inq)
        BY <1>6, <3>2
      <4>2. inq'[j] = inq[j] /\ Fits(inq[j].word)
        BY <1>4, <1>6, <4>1 DEF Answering
      <4> QED
        BY <4>2
    <3> QED
      BY <3>1, <3>2
  <2> QED
    BY <1>1, <1>2, <1>4, <1>12, <2>2 DEF Answering, Fits
<1>14. SessionInv'
  BY <1>2, <1>4, <1>7, <1>13 DEF SessionInv, Answered, Empty
<1>15. ModeInv'
  BY <1>2, <1>7 DEF LoaderInv, ModeInv, Empty
<1>16. at.s # "R" => inq = <<>>
  <2>1. at.s # "R" => Len(inq) + 1 + Len(out) = 1
    BY <1>1, <1>4 DEF Answering, Coming
  <2>2. at.s # "R" => Len(inq) = 0
    BY <1>6, <2>1
  <2> QED
    BY <1>5, <2>2, EmptySeq
<1> QED
  BY <1>7, <1>8, <1>10, <1>11, <1>14, <1>15, <1>16 DEF LoaderInv

-----------------------------------------------------------------------------
(* The line and the power.                                                 *)
\* What a lost session leaves of the tool.
LEMMA LostTool ==
  ASSUME LoaderInv, SessionLost
  PROVE  ToolInv' /\ ~waiting' /\ at'.s = "off" /\ inq' = <<>>
<1>1. Off = [s |-> "off", page |-> 0, word |-> 0]
  BY DEF Off, Step
<1>2. /\ at' = Off /\ waiting' = FALSE /\ inq' = <<>> /\ seen' = None /\ got' = <<>>
      /\ done' \in {"none", "flash", "unlock", "read"}
  BY DEF SessionLost, Ends, LoaderInv, ToolInv
<1>3. <<>> \in Seq(Packets) /\ <<>> \in Seq(Replies) /\ Len(<<>>) <= NumWords
  BY PageZero
<1> QED
  BY <1>1, <1>2, <1>3, PageZero DEF ToolInv, Step

LEMMA PlugStep ==
  ASSUME LoaderInv, Plug
  PROVE  LoaderInv' /\ s1' = s1 /\ s2' = s2 /\ s3' = s3
<1>1. /\ pc # "booted" /\ event' = "reset" /\ port' = "reset" /\ SessionLost
      /\ replugged' = (replugged \/ port # "gone")
  BY DEF Plug, BusReset
<1>2. UNCHANGED <<chip, interactive, bank, rx, tx, txcomp, configured, currentRcvBank, buf, out, pc>>
  BY DEF Plug
<1>3. replugged' \in BOOLEAN /\ (~replugged' => ~replugged /\ port = "gone")
  BY <1>1
<1>4. PortInv'
  BY <1>1, <1>2, <1>3 DEF LoaderInv, PortInv
<1>5. InSync => InSync'
  BY <1>2 DEF InSync
<1>6. BankInv'
  BY <1>1, <1>2, <1>3, <1>5 DEF LoaderInv, BankInv, PortInv
<1>7. ToolInv' /\ ChipInv'
  BY <1>1, <1>2, LostTool DEF LoaderInv, ChipInv
<1>8. SessionInv' /\ ModeInv'
  BY <1>1 DEF SessionInv, ModeInv
<1>9. s1' = s1 /\ s2' = s2 /\ s3' = s3
  BY <1>2 DEF s1, s2, s3, Taken
<1> QED
  BY <1>4, <1>6, <1>7, <1>8, <1>9 DEF LoaderInv

LEMMA EnumerateStep ==
  ASSUME LoaderInv, Enumerate
  PROVE  /\ LoaderInv'
         /\ at.s = "off" /\ s1 = None /\ s2 = None /\ s3 = None
         /\ s1' = s1 /\ s2' = s2 /\ s3' = s3
<1>1. port = "reset" /\ event = "none" /\ pc = "poll" /\ ~configured /\ event' = "configure" /\ port' = "up"
  BY DEF Enumerate, SetConfiguration
<1>2. UNCHANGED <<chip, interactive, bank, rx, tx, txcomp, configured, currentRcvBank, buf, out, pc,
                  at, waiting, inq, seen, got, done, replugged>>
  BY DEF Enumerate, toolVars
<1>3. PortInv' /\ ChipInv'
  BY <1>1, <1>2 DEF LoaderInv, PortInv, ChipInv
<1>4. Command' = Command /\ at = Off /\ at.s = "off"
  BY <1>1, <1>2 DEF Command, LoaderInv, ToolInv, Off, Step
<1>5. (InSync => InSync') /\ (Lost => Lost')
  BY <1>2, <1>4 DEF InSync, Lost
<1>6. BankInv'
  BY <1>1, <1>2, <1>5 DEF LoaderInv, BankInv
<1>7. ToolInv'
  BY <1>1, <1>2 DEF LoaderInv, ToolInv
<1>8. s1' = s1 /\ s2' = s2 /\ s3' = s3
  BY <1>2 DEF s1, s2, s3, Taken
<1>9. s1 = None /\ s2 = None /\ s3 = None
  <2>1. rx = NoPackets /\ currentRcvBank \in {0, 1}
    BY <1>1 DEF LoaderInv, PortInv
  <2> QED
    BY <1>1, <2>1 DEF s1, s2, s3, Taken, NoPackets
<1>10. Resting
  <2>1. ~waiting
    BY <1>4 DEF LoaderInv, ToolInv, Asks
  <2> QED
    BY <1>1, <2>1 DEF LoaderInv, SessionInv, Sent, Answered
<1>11. Resting'
  BY <1>2, <1>8, <1>10 DEF Resting, OnlyPosts, Silent
<1>12. ModeInv'
  BY <1>1, <1>2, <1>8 DEF LoaderInv, ModeInv, Empty
<1> QED
  BY <1>3, <1>4, <1>6, <1>7, <1>8, <1>9, <1>11, <1>12 DEF LoaderInv, SessionInv

\* What is true of the port and the driver when the power comes.
LEMMA PowerUpPort ==
  ASSUME NoneIsApart, PowerUp, pc' \in {"poll", "booted"}, replugged' = FALSE, ~waiting', at'.s = "off",
         inq' = <<>>
  PROVE  /\ PortInv' /\ BankInv' /\ SessionInv' /\ ModeInv'
         /\ s1' = None /\ s2' = None /\ s3' = None /\ interactive' \in BOOLEAN
<1>1. /\ port' = "gone" /\ event' = "none" /\ bank' = 0 /\ rx' = NoPackets /\ tx' = None
      /\ txcomp' = FALSE /\ configured' = FALSE /\ currentRcvBank' = 0 /\ buf' = None /\ out' = <<>>
      /\ interactive' = TRUE
  BY DEF PowerUp
<1>2. NoPackets \in [{0, 1} -> Posted \cup Asked \cup {None}] /\ NoPackets[0] = None /\ NoPackets[1] = None
  BY DEF NoPackets
<1>3. PortInv'
  BY <1>1, <1>2 DEF PortInv
<1>4. BankInv'
  BY <1>1 DEF BankInv, InSync
<1>5. s1' = None /\ s2' = None /\ s3' = None
  BY <1>1, <1>2 DEF s1, s2, s3, Taken
<1>6. SessionInv'
  BY <1>1, <1>5 DEF SessionInv, Resting, OnlyPosts, Silent, Maybe
<1>7. ModeInv'
  BY <1>5 DEF ModeInv, NoneIsApart
<1> QED
  BY <1>1, <1>3, <1>4, <1>5, <1>6, <1>7

LEMMA PowerStep ==
  ASSUME NoneIsApart, LoaderInv, PowerCycle
  PROVE  LoaderInv' /\ chip'.ram \in Values /\ s1' = None /\ s2' = None /\ s3' = None
<1>1. PowerUp /\ SessionLost /\ replugged' = FALSE /\ pc' \in {"poll", "booted"}
  BY DEF PowerCycle, Boots
<1>2. ToolInv' /\ ~waiting' /\ at'.s = "off" /\ inq' = <<>>
  BY <1>1, LostTool
<1>3. /\ PortInv' /\ BankInv' /\ SessionInv' /\ ModeInv' /\ interactive' \in BOOLEAN
      /\ s1' = None /\ s2' = None /\ s3' = None
  BY <1>1, <1>2, PowerUpPort
<1> DEFINE f == IF chip.busy.op # "program" THEN chip.flash
                ELSE [chip.flash EXCEPT ![chip.busy.page] = Latch(Junk)]
           l == Latch(Erased)
<1>4. PICK v \in Values :
        chip' = [chip EXCEPT !.ram = v, !.latch = l, !.busy = NoPage, !.locke = FALSE, !.flash = f]
  BY DEF PowerCycle
<1>5. chip \in ChipType
  BY DEF LoaderInv, ChipInv
<1>6. l \in [Words -> Values \cup {Erased}] /\ Latch(Junk) \in [Words -> Content]
  BY DEF Latch, Content
<1>7. f \in [Pages -> [Words -> Content]]
  BY <1>5, <1>6 DEF ChipType
<1>8. NoPage \in [op : {"none", "program", "unlock"}, page : Pages]
  BY PageZero DEF NoPage
<1> HIDE DEF f, l
<1>9. chip' \in ChipType /\ chip'.ram = v
  BY <1>4, <1>5, <1>6, <1>7, <1>8 DEF ChipType
<1> QED
  BY <1>2, <1>3, <1>9 DEF LoaderInv, ChipInv

LEMMA LoaderInit ==
  ASSUME NoneIsApart, Init
  PROVE  LoaderInv
<1>1. PICK c \in Chips, v \in Values :
        chip = [ram |-> v, latch |-> Latch(Erased), flash |-> [p \in Pages |-> Latch(Erased)],
                locked |-> c.locked, slow |-> c.slow, gpnvm |-> c.gpnvm, busy |-> NoPage, locke |-> FALSE]
  BY DEF Init
<1>2. c.locked \in SUBSET Pages /\ c.slow \in BOOLEAN /\ c.gpnvm \in BOOLEAN
  BY LoaderAssumption
<1>3. Latch(Erased) \in [Words -> Values \cup {Erased}] /\ Latch(Erased) \in [Words -> Content]
  BY DEF Latch, Content
<1>4. [p \in Pages |-> Latch(Erased)] \in [Pages -> [Words -> Content]]
  BY <1>3
<1>5. NoPage \in [op : {"none", "program", "unlock"}, page : Pages]
  BY PageZero DEF NoPage
<1>6. chip \in ChipType
  BY <1>1, <1>2, <1>3, <1>4, <1>5 DEF ChipType
<1>7. /\ at = Off /\ waiting = FALSE /\ inq = <<>> /\ seen = None /\ got = <<>>
      /\ done = "none" /\ replugged = FALSE /\ pc = "poll"
  BY DEF Init
<1>8. /\ port = "gone" /\ event = "none" /\ bank = 0 /\ rx = NoPackets /\ tx = None
      /\ txcomp = FALSE /\ configured = FALSE /\ currentRcvBank = 0 /\ buf = None /\ out = <<>>
      /\ interactive = TRUE
  BY DEF Init, PoweredUp
<1>9. NoPackets \in [{0, 1} -> Posted \cup Asked \cup {None}] /\ NoPackets[0] = None /\ NoPackets[1] = None
  BY DEF NoPackets
<1>10. PortInv
  BY <1>7, <1>8, <1>9 DEF PortInv
<1>11. BankInv
  BY <1>7, <1>8 DEF BankInv, InSync
<1>12. s1 = None /\ s2 = None /\ s3 = None
  BY <1>7, <1>8, <1>9 DEF s1, s2, s3, Taken
<1>13. SessionInv
  BY <1>7, <1>8, <1>12 DEF SessionInv, Resting, OnlyPosts, Silent, Maybe
<1>14. Off = [s |-> "off", page |-> 0, word |-> 0]
  BY DEF Off, Step
<1>15. ModeInv
  BY <1>7, <1>12, <1>14 DEF ModeInv, NoneIsApart
<1>16. ToolInv
  <2>1. <<>> \in Seq(Packets) /\ <<>> \in Seq(Replies) /\ Len(<<>>) <= NumWords
    BY PageZero
  <2> QED
    BY <1>7, <1>14, <2>1, PageZero DEF ToolInv, Step
<1> QED
  BY <1>6, <1>8, <1>10, <1>11, <1>13, <1>15, <1>16 DEF LoaderInv, ChipInv

LEMMA LoaderNext ==
  ASSUME NoneIsApart, LoaderInv, [Next]_loaderVars
  PROVE  LoaderInv'
<1>1. ASSUME Tool PROVE LoaderInv'
  <2>1. ASSUME NEW s \in {"locks", "ready", "rw", "V"}, Begin(s, 0) PROVE LoaderInv'
    BY <2>1, BeginStep, PageZero
  <2>2. ASSUME NEW p \in Pages, Begin("R", p) PROVE LoaderInv'
    BY <2>2, BeginStep
  <2>3. ASSUME NEW v \in Values, cmd_write_mem(v) PROVE LoaderInv'
    BY <2>3, WriteMemStep
  <2>4. ASSUME io_init \/ io_cleanup PROVE LoaderInv'
    BY <2>4, OpenStep
  <2>5. ASSUME Post \/ Ask \/ io_read PROVE LoaderInv'
    BY <2>5, PostStep, AskStep, TakeStep
  <2> QED
    BY <1>1, <2>1, <2>2, <2>3, <2>4, <2>5 DEF Tool
<1>2. ASSUME Board PROVE LoaderInv'
  BY <1>2, PollStep, ReadStep, WriteStep, ExecuteStep DEF Board, Firmware
<1>3. ASSUME Flash PROVE LoaderInv'
  BY <1>3, FlashStep DEF Flash
<1>4. ASSUME Arrive \/ Plug \/ Enumerate \/ PowerCycle PROVE LoaderInv'
  BY <1>4, ArriveStep, PlugStep, EnumerateStep, PowerStep
<1>5. ASSUME UNCHANGED loaderVars PROVE LoaderInv'
  <2>1. UNCHANGED <<chip, interactive, port, event, bank, rx, tx, txcomp, configured, currentRcvBank, buf,
                    out, pc, at, waiting, inq, seen, got, done, replugged>>
    BY <1>5 DEF loaderVars, usbVars, udpVars, toolVars
  <2>2. ChipInv' /\ PortInv' /\ ToolInv'
    BY <2>1 DEF LoaderInv, ChipInv, PortInv, ToolInv
  <2>3. BankInv' /\ SessionInv' /\ ModeInv'
    BY <2>1, SameBanks DEF Banks
  <2> QED
    BY <2>2, <2>3 DEF LoaderInv
<1> QED
  BY <1>1, <1>2, <1>3, <1>4, <1>5 DEF Next

LEMMA LoaderHolds ==
  ASSUME NoneIsApart
  PROVE  Spec => []LoaderInv
<1>1. Init => LoaderInv
  BY LoaderInit
<1>2. LoaderInv /\ [Next]_loaderVars => LoaderInv'
  BY LoaderNext
<1> QED
  BY <1>1, <1>2, PTL DEF Spec

-----------------------------------------------------------------------------
\* Until a bus reset comes the driver and the port never lose each other:
\* when the loader waits for a packet with both banks empty, the bank that it
\* looks at is the one that the port fills next.
THEOREM BanksAlwaysAgree ==
  ASSUME NoneIsApart
  PROVE  Spec => []BanksAgree
<1>1. LoaderInv => BanksAgree
  <2> SUFFICES ASSUME LoaderInv, pc = "read", InFlight = <<>>, ~replugged PROVE currentRcvBank = bank
    BY DEF BanksAgree
  <2>1. InSync
    BY DEF LoaderInv, BankInv
  <2>2. s2 = None
    BY DEF InFlight, Held, Taken, s2
  <2> QED
    BY <2>1, <2>2 DEF InSync, s2
<1> QED
  BY <1>1, LoaderHolds, PTL

\* Registers, banks, buffers and the tool's state stay in their types; an
\* answer is never longer than the tool expects.
THEOREM LoaderTypeCorrect ==
  ASSUME NoneIsApart
  PROVE  Spec => []LoaderTypeOK
<1>1. LoaderInv => LoaderTypeOK
  <2> SUFFICES ASSUME LoaderInv PROVE LoaderTypeOK
    OBVIOUS
  <2>1. chip \in ChipType /\ interactive \in BOOLEAN
    BY DEF LoaderInv, ChipInv
  <2>2. Len(inq) <= NumWords
    <3>1. inq \in Seq(Packets) /\ out \in Seq(Packets) /\ Len(got) <= NumWords /\ got \in Seq(Replies)
      BY DEF LoaderInv, PortInv, ToolInv
    <3>2. CASE inq = <<>>
      BY <3>2, PageZero
    <3>3. CASE inq # <<>>
      <4>1. event # "reset"
        BY <3>3 DEF LoaderInv, PortInv, ToolInv, Off, Step
      <4>2. Answering
        BY <3>3, <4>1 DEF LoaderInv, SessionInv, Resting, Sent, Silent, Answered
      <4>3. Len(inq) \in Nat /\ Len(out) \in Nat /\ Len(got) \in Nat
        BY <3>1
      <4>4. CASE at.s = "R"
        <5>1. Len(got) + Coming = NumWords
          BY <4>2, <4>4 DEF Answering
        <5> QED
          BY <4>3, <5>1, PageZero DEF Coming
      <4>5. CASE at.s # "R"
        <5>1. Coming = 1
          BY <4>2, <4>5 DEF Answering
        <5> QED
          BY <4>3, <5>1, PageZero DEF Coming
      <4> QED
        BY <4>4, <4>5
    <3> QED
      BY <3>2, <3>3
  <2> QED
    BY <2>1, <2>2 DEF LoaderTypeOK, LoaderInv, PortInv, ToolInv, ChipType, Content, Regions
<1> QED
  BY <1>1, LoaderHolds, PTL

-----------------------------------------------------------------------------
(* What the loader promises the tool.                                      *)
LEMMA ConsOf ==
  ASSUME NEW S, NEW x \in S, NEW a \in Seq(S)
  PROVE  <<x>> \o a # <<>> /\ Head(<<x>> \o a) = x /\ Tail(<<x>> \o a) = a
<1>1. <<x>> \in Seq(S) /\ Len(<<x>>) = 1 /\ <<x>>[1] = x
  OBVIOUS
<1> DEFINE s == <<x>> \o a
<1>2. /\ s \in Seq(S) /\ Len(s) = 1 + Len(a) /\ Len(a) \in Nat
      /\ \A i \in 1 .. 1 + Len(a) : s[i] = IF i <= 1 THEN <<x>>[i] ELSE a[i - 1]
  BY <1>1, ConcatProperties
<1> HIDE DEF s
<1>3. s # <<>>
  BY <1>2
<1>4. Head(s) = x
  BY <1>1, <1>2, <1>3
<1>5. /\ Tail(s) \in Seq(S) /\ Len(Tail(s)) = Len(a)
      /\ \A i \in 1 .. Len(Tail(s)) : Tail(s)[i] = s[i + 1]
  BY <1>2, <1>3, HeadTailProperties
<1>6. \A i \in 1 .. Len(Tail(s)) : Tail(s)[i] = a[i]
  BY <1>2, <1>5
<1>7. Tail(s) = a
  BY <1>5, <1>6, SeqEqual
<1> QED
  BY <1>3, <1>4, <1>7 DEF s

\* Three places in a row, at most one of which changes.
LEMMA QueueForms ==
  ASSUME NEW S, NEW x \in S, NEW a \in Seq(S), NEW b \in Seq(S)
  PROVE  /\ <<>> \o a \o b = a \o b /\ a \o b \o <<>> = a \o b
         /\ <<x>> \o a \o b # <<>> /\ Head(<<x>> \o a \o b) = x
         /\ Tail(<<x>> \o a \o b) = a \o b
         /\ Append(a \o <<>> \o <<>>, x) = a \o <<x>> \o <<>>
         /\ Append(a \o b, x) = a \o b \o <<x>>
         /\ <<>> \o <<>> \o <<>> = <<>>
<1>1. <<x>> \in Seq(S) /\ <<>> \in Seq(S) /\ a \o b \in Seq(S) /\ a \o <<x>> \in Seq(S)
  BY ConcatProperties
<1>2. \A s \in Seq(S) : <<>> \o s = s /\ s \o <<>> = s
  BY ConcatEmptySeq
<1>3. \A s \in Seq(S) : Append(s, x) = s \o <<x>>
  BY AppendIsConcat
<1>4. (<<x>> \o a) \o b = <<x>> \o (a \o b)
  BY <1>1, ConcatAssociative
<1>5. /\ <<x>> \o (a \o b) # <<>> /\ Head(<<x>> \o (a \o b)) = x
      /\ Tail(<<x>> \o (a \o b)) = a \o b
  BY <1>1, ConsOf
<1> QED
  BY <1>1, <1>2, <1>3, <1>4, <1>5

\* The queue and the answer that RemoteMemory sees.
RamQueue  == Held(OfRam(s1)) \o Held(OfRam(s2)) \o Held(OfRam(s3))
RamAnswer == IF at.s # "rw" THEN None ELSE IF tx # None THEN tx.word
             ELSE IF inq # <<>> THEN Head(inq).word ELSE None

LEMMA OfRamOnly ==
  ASSUME NoneIsApart
  PROVE  /\ Held(OfRam(None)) = <<>>
         /\ \A c \in Posted \cup Asked : Held(OfRam(c)) = IF c.at = Reg("ram") THEN <<c>> ELSE <<>>
         /\ \A c \in Posted \cup Asked \cup {None} : Held(OfRam(c)) \in Seq(Posted \cup Asked)
<1>1. \A c \in Posted \cup Asked : c # None
  BY DEF NoneIsApart
<1>2. Held(OfRam(None)) = <<>>
  BY DEF Held, OfRam
<1>3. \A c \in Posted \cup Asked : Held(OfRam(c)) = IF c.at = Reg("ram") THEN <<c>> ELSE <<>>
  BY <1>1 DEF Held, OfRam
<1>4. <<>> \in Seq(Posted \cup Asked) /\ \A c \in Posted \cup Asked : <<c>> \in Seq(Posted \cup Asked)
  OBVIOUS
<1> QED
  BY <1>2, <1>3, <1>4

LEMMA SlotTypes ==
  ASSUME LoaderInv
  PROVE  {s1, s2, s3} \subseteq Posted \cup Asked \cup {None}
BY DEF LoaderInv, PortInv, s1, s2, s3, Taken

LEMMA EmptyQueue ==
  ASSUME NoneIsApart
  PROVE  /\ Empty => RamQueue = <<>>
         /\ Empty' => RamQueue' = <<>>
<1>1. <<>> \o <<>> \o <<>> = <<>>
  OBVIOUS
<1> QED
  BY <1>1, OfRamOnly DEF Empty, RamQueue

\* The banks move up: the order of the commands is kept.
LEMMA QueueMoved ==
  ASSUME NoneIsApart, LoaderInv, s1 = None, s1' = s2, s2' = s3, s3' = None
  PROVE  RamQueue' = RamQueue
<1> DEFINE a == Held(OfRam(s2))
           b == Held(OfRam(s3))
<1>1. a \in Seq(Posted \cup Asked) /\ b \in Seq(Posted \cup Asked)
  BY SlotTypes, OfRamOnly
<1>2. RamQueue = <<>> \o a \o b
  BY OfRamOnly DEF RamQueue
<1>3. RamQueue' = a \o b \o <<>>
  BY OfRamOnly DEF RamQueue
<1>4. Cmd("W", Reg("fmr"), None) \in Posted \cup Asked
  BY DEF Posted
<1> HIDE DEF a, b
<1> QED
  BY <1>1, <1>2, <1>3, <1>4, QueueForms

\* A command is executed: it was the first.
LEMMA QueueTaken ==
  ASSUME NoneIsApart, LoaderInv, s1 \in Posted \cup Asked, s1' = None, s2' = s2, s3' = s3
  PROVE  /\ s1.at # Reg("ram") => RamQueue' = RamQueue
         /\ s1.at = Reg("ram") => RamQueue # <<>> /\ Head(RamQueue) = s1 /\ RamQueue' = Tail(RamQueue)
<1> DEFINE a == Held(OfRam(s2))
           b == Held(OfRam(s3))
<1>1. a \in Seq(Posted \cup Asked) /\ b \in Seq(Posted \cup Asked)
  BY SlotTypes, OfRamOnly
<1>2. RamQueue = (IF s1.at = Reg("ram") THEN <<s1>> ELSE <<>>) \o a \o b
  BY OfRamOnly DEF RamQueue
<1>3. RamQueue' = <<>> \o a \o b
  BY OfRamOnly DEF RamQueue
<1> HIDE DEF a, b
<1> DEFINE x == s1
<1>5. x \in Posted \cup Asked
  OBVIOUS
<1> HIDE DEF x
<1>4. /\ <<x>> \o a \o b # <<>> /\ Head(<<x>> \o a \o b) = x
      /\ Tail(<<x>> \o a \o b) = a \o b /\ <<>> \o a \o b = a \o b
  BY <1>1, <1>5, QueueForms
<1> QED
  BY <1>2, <1>3, <1>4 DEF x

\* A command is given: it is the last.
LEMMA QueueGiven ==
  ASSUME NoneIsApart, LoaderInv, NEW c \in Posted \cup Asked, Send(c), LineOnly, InSync
  PROVE  RamQueue' = IF c.at = Reg("ram") THEN Append(RamQueue, c) ELSE RamQueue
<1>1. currentRcvBank' = currentRcvBank /\ pc' = pc /\ buf' = buf
  BY DEF LineOnly
<1>2. /\ s1' = s1 /\ s3 = None
      /\ \/ s2 = None /\ s2' = c /\ s3' = None
         \/ s2 # None /\ s2' = s2 /\ s3' = c
  BY <1>1, SendBanks
<1> DEFINE a == Held(OfRam(s1))
           b == Held(OfRam(s2))
           new == Held(OfRam(c))
<1>3. a \in Seq(Posted \cup Asked) /\ b \in Seq(Posted \cup Asked)
  BY SlotTypes, OfRamOnly
<1>4. new = IF c.at = Reg("ram") THEN <<c>> ELSE <<>>
  BY OfRamOnly
<1>5. RamQueue = a \o b \o <<>>
  BY <1>2, OfRamOnly DEF RamQueue
<1>6. \/ b = <<>> /\ RamQueue' = a \o new \o <<>>
      \/ RamQueue' = a \o b \o new
  BY <1>2, OfRamOnly DEF RamQueue
<1> HIDE DEF a, b, new
<1>7. /\ Append(a \o <<>> \o <<>>, c) = a \o <<c>> \o <<>>
      /\ Append(a \o b, c) = a \o b \o <<c>> /\ a \o b \o <<>> = a \o b
  BY <1>3, QueueForms
<1> QED
  BY <1>4, <1>5, <1>6, <1>7

\* A step that the abstract memory does not see, a bus reset that it does.
LEMMA Unseen ==
  ASSUME chip'.ram = chip.ram, port' = port, RamQueue' = RamQueue, RamAnswer' = RamAnswer
  PROVE  UNCHANGED Memory!memoryVars
BY DEF Memory!memoryVars, RamQueue, RamAnswer, s1, s2, s3

LEMMA NoAnswerYet ==
  /\ at.s # "rw" => RamAnswer = None
  /\ tx = None /\ inq = <<>> => RamAnswer = None
  /\ at'.s # "rw" => RamAnswer' = None
  /\ tx' = None /\ inq' = <<>> => RamAnswer' = None
BY DEF RamAnswer

LEMMA ResetForgets ==
  ASSUME NoneIsApart, LoaderInv, ResetEndpoints, UNCHANGED Rest, pc' = "poll"
  PROVE  Memory!Forget
<1>1. port = "reset" /\ currentRcvBank \in {0, 1}
  BY DEF ResetEndpoints, LoaderInv, PortInv
<1>2. port' = port /\ chip' = chip /\ at' = at /\ rx' = NoPackets /\ currentRcvBank' = currentRcvBank
  BY DEF Rest, toolVars, ResetEndpoints
<1>3. at.s = "off"
  BY <1>1 DEF LoaderInv, ToolInv, Off, Step
<1>4. RamAnswer = None /\ RamAnswer' = None
  BY <1>2, <1>3, NoAnswerYet
<1>5. Empty'
  BY <1>1, <1>2 DEF Empty, s1, s2, s3, Taken, NoPackets
<1>6. RamQueue' = <<>>
  BY <1>5, EmptyQueue
<1> QED
  BY <1>1, <1>2, <1>4, <1>6 DEF Memory!Forget, RamQueue, RamAnswer, s1, s2, s3

\* The firmware.
LEMMA PollSeen ==
  ASSUME NoneIsApart, LoaderInv, usb_poll, UNCHANGED <<chip, interactive, toolVars, replugged>>
  PROVE  Memory!Forget \/ UNCHANGED Memory!memoryVars
<1>1. pc = "poll" /\ out' = out /\ currentRcvBank' = currentRcvBank /\ buf' = buf /\ port' = port
  BY DEF usb_poll
<1>2. CASE event = "reset"
  <2>1. ResetEndpoints
    BY <1>2 DEF usb_poll, usb_isconfigured, usb_enumerate
  <2>2. pc' = "poll"
    BY <2>1 DEF usb_poll, ResetEndpoints
  <2> QED
    BY <1>1, <2>1, <2>2, ResetForgets DEF Rest
<1>3. CASE event # "reset"
  <2>1. tx' = tx /\ rx' = rx
    BY <1>3 DEF usb_poll, usb_isconfigured, usb_enumerate, ResetEndpoints, udpVars, LoaderInv, PortInv
  <2>2. pc' \in {"poll", "read"} /\ at' = at /\ inq' = inq /\ chip' = chip
    BY DEF usb_poll, toolVars
  <2>3. s1' = s1 /\ s2' = s2 /\ s3' = s3
    BY <1>1, <2>1, <2>2 DEF s1, s2, s3, Taken
  <2>4. RamQueue' = RamQueue /\ RamAnswer' = RamAnswer
    BY <2>1, <2>2, <2>3 DEF RamQueue, RamAnswer
  <2> QED
    BY <1>1, <2>2, <2>4, Unseen
<1> QED
  BY <1>2, <1>3

LEMMA ReadSeen ==
  ASSUME NoneIsApart, LoaderInv, usb_read, UNCHANGED <<chip, interactive, toolVars, replugged>>
  PROVE  Memory!Forget \/ UNCHANGED Memory!memoryVars
<1>1. pc = "read" /\ UNCHANGED <<port, out>>
  BY DEF usb_read
<1>2. CASE event = "none" /\ Fetch /\ UNCHANGED <<event, bank, tx, txcomp, configured>>
  <2>1. RamQueue' = RamQueue
    BY <1>1, <1>2, FetchBanks, QueueMoved
  <2>2. RamAnswer' = RamAnswer
    BY <1>2 DEF RamAnswer, toolVars
  <2> QED
    BY <1>1, <2>1, <2>2, Unseen
<1>3. CASE event # "none"
  <2>1. ResetEndpoints
    BY <1>1, <1>3, EventIsReset DEF usb_read
  <2>2. pc' = "poll" /\ currentRcvBank' = currentRcvBank
    BY <1>3, <2>1 DEF usb_read, ResetEndpoints
  <2> QED
    BY <1>1, <2>1, <2>2, ResetForgets DEF Rest
<1> QED
  BY <1>2, <1>3 DEF usb_read

LEMMA WriteSeen ==
  ASSUME NoneIsApart, LoaderInv, usb_write, UNCHANGED <<chip, interactive, toolVars, replugged>>
  PROVE  Memory!Forget \/ UNCHANGED Memory!memoryVars
<1>1. pc = "write" /\ UNCHANGED <<port, currentRcvBank, buf>>
  BY DEF usb_write
<1>2. CASE txcomp
  <2>1. s1' = s1 /\ s2' = s2 /\ s3' = s3 /\ tx = None /\ (at.s = "rw" => tx' = None)
    BY <1>1, <1>2, WriteNext DEF usb_write
  <2>2. RamQueue' = RamQueue
    BY <2>1 DEF RamQueue
  <2>3. RamAnswer' = RamAnswer
    BY <2>1 DEF RamAnswer, toolVars
  <2> QED
    BY <1>1, <2>2, <2>3, Unseen
<1>3. CASE ~txcomp
  <2>1. ResetEndpoints
    BY <1>1, <1>3, EventIsReset DEF usb_write
  <2>2. pc' = "poll"
    BY <1>3, <2>1 DEF usb_write, ResetEndpoints
  <2> QED
    BY <1>1, <2>1, <2>2, ResetForgets DEF Rest
<1> QED
  BY <1>2, <1>3

\* A command is performed when it is executed.
LEMMA ExecuteSeen ==
  ASSUME NoneIsApart, LoaderInv, Execute, UNCHANGED <<toolVars, replugged>>
  PROVE  Memory!Perform \/ Memory!Forget \/ UNCHANGED Memory!memoryVars
<1>1. pc = "samba" /\ buf \in Posted \cup Asked /\ configured
  BY DEF Execute, LoaderInv, PortInv
<1>2. at' = at /\ inq' = inq
  BY DEF toolVars
<1>3. CASE event # "none"
  <2>1. ResetEndpoints
    BY <1>1, <1>3, EventIsReset DEF Execute
  <2> QED
    BY <1>3, <2>1, ResetForgets DEF Execute, Rest
<1>4. CASE event = "none" /\ buf \in Posted
  <2>1. /\ s1 = buf /\ s1' = None /\ s2' = s2 /\ s3' = s3 /\ tx' = tx
        /\ chip' = Store(buf.at, buf.val)
    BY <1>1, <1>4, ExecutePosted DEF Execute
  <2>2. /\ buf.at # Reg("ram") => RamQueue' = RamQueue
        /\ buf.at = Reg("ram") => RamQueue # <<>> /\ Head(RamQueue) = buf /\ RamQueue' = Tail(RamQueue)
    BY <1>1, <2>1, QueueTaken
  <2>3. RamAnswer' = RamAnswer
    BY <1>2, <2>1 DEF RamAnswer
  <2>4. port = "up" /\ port' = port
    BY <1>1, <1>4 DEF Execute, LoaderInv, PortInv
  <2>5. CASE buf.at = Reg("ram")
    <3>1. chip'.ram = buf.val /\ buf.op = "W"
      BY <1>4, <2>1, <2>5, StoreTypes, CommandKinds DEF LoaderInv
    <3> QED
      BY <2>2, <2>3, <2>4, <2>5, <3>1 DEF Memory!Perform, RamQueue, RamAnswer, s1, s2, s3
  <2>6. CASE buf.at # Reg("ram")
    <3>1. chip'.ram = chip.ram
      BY <1>4, <2>1, <2>6, StoreTypes DEF LoaderInv
    <3> QED
      BY <2>2, <2>3, <2>4, <2>6, <3>1, Unseen
  <2> QED
    BY <2>5, <2>6
<1>5. CASE event = "none" /\ buf \in Asked
  <2>1. /\ s1 = Command /\ s1' = None /\ s2' = s2 /\ s3' = s3
        /\ waiting /\ tx = None /\ inq = <<>> /\ tx' # None /\ (at.s = "rw" => tx'.word = chip.ram)
        /\ chip'.ram = chip.ram
    BY <1>1, <1>5, ExecuteAsked DEF Execute
  <2>2. s1 = buf
    BY <1>1 DEF s1, Taken
  <2>3. /\ buf.at # Reg("ram") => RamQueue' = RamQueue
        /\ buf.at = Reg("ram") => RamQueue # <<>> /\ Head(RamQueue) = buf /\ RamQueue' = Tail(RamQueue)
    BY <1>1, <2>1, <2>2, QueueTaken
  <2>4. port = "up" /\ port' = port
    BY <1>1, <1>5 DEF Execute, LoaderInv, PortInv
  <2>5. at.s \in Asks /\ at.page \in Pages
    BY <2>1 DEF LoaderInv, ToolInv
  <2>6. CASE at.s = "rw"
    <3>1. buf.op = "w" /\ buf.at = Reg("ram")
      BY <2>1, <2>2, <2>5, <2>6, AskedCommand DEF Cmd
    <3>2. RamAnswer = None /\ RamAnswer' = chip.ram
      BY <1>2, <2>1, <2>6 DEF RamAnswer
    <3> QED
      BY <2>1, <2>3, <2>4, <3>1, <3>2 DEF Memory!Perform, RamQueue, RamAnswer, s1, s2, s3
  <2>7. CASE at.s # "rw"
    <3>1. buf.at # Reg("ram")
      BY <2>1, <2>2, <2>5, <2>7, AskedCommand DEF Cmd, Reg, Cell, Asks
    <3>2. RamAnswer' = RamAnswer
      BY <1>2, <2>7, NoAnswerYet
    <3> QED
      BY <2>1, <2>3, <2>4, <3>1, <3>2, Unseen
  <2> QED
    BY <2>6, <2>7
<1> QED
  BY <1>1, <1>3, <1>4, <1>5

\* The commands of the tool: writes and reads of the cell are given, the others
\* are not seen.
LEMMA WriteMemSeen ==
  ASSUME NoneIsApart, LoaderInv, NEW v \in Values, cmd_write_mem(v)
  PROVE  Memory!Give(Cmd("W", Reg("ram"), v))
<1> DEFINE c == Cmd("W", Reg("ram"), v)
<1>1. c \in Posted /\ c.at = Reg("ram")
  BY DEF Posted, Cmd
<1> HIDE DEF c
<1>2. Send(c) /\ LineOnly /\ at = Idle /\ at' = Idle
  BY DEF cmd_write_mem, Host, c
<1>3. Idle.s = "idle" /\ Idle # Off
  BY DEF Idle, Off, Step
<1>4. event = "none" /\ port = "up" /\ port' = port /\ chip' = chip
  BY <1>2 DEF Send, LineOnly
<1>5. InSync
  BY <1>2, <1>3, <1>4 DEF LoaderInv, BankInv, Lost
<1>6. RamQueue' = Append(RamQueue, c)
  BY <1>1, <1>2, <1>5, QueueGiven
<1>7. RamAnswer = None /\ RamAnswer' = None
  BY <1>2, <1>3, NoAnswerYet
<1> QED
  BY <1>4, <1>6, <1>7 DEF c, Memory!Give, RamQueue, RamAnswer, s1, s2, s3

LEMMA PostSeen ==
  ASSUME NoneIsApart, LoaderInv, Post
  PROVE  UNCHANGED Memory!memoryVars
<1>1. at.s \in Posts /\ Send(Command) /\ LineOnly /\ at' = AfterPost
  BY DEF Post, Host
<1>2. Command \in Posted /\ Command.at # Reg("ram")
  BY PostStep DEF Reg
<1>3. event = "none" /\ port' = port /\ chip' = chip
  BY <1>1 DEF Send, LineOnly
<1>4. InSync
  BY <1>1, <1>3 DEF LoaderInv, BankInv, Lost, Posts
<1>5. RamQueue' = RamQueue
  BY <1>1, <1>2, <1>4, QueueGiven
<1>6. at.s # "rw" /\ at'.s # "rw"
  BY <1>1, AfterPostTypes DEF Posts, LoaderInv
<1> QED
  BY <1>3, <1>5, <1>6, NoAnswerYet, Unseen

LEMMA AskSeen ==
  ASSUME NoneIsApart, LoaderInv, Ask
  PROVE  Memory!Give(Cmd("w", Reg("ram"), None)) \/ UNCHANGED Memory!memoryVars
<1>1. at.s \in Asks /\ at.page \in Pages /\ ~waiting /\ Send(Command) /\ LineOnly /\ at' = at /\ inq' = inq
  BY DEF Ask, LoaderInv, ToolInv
<1>2. Command \in Asked
  BY AskStep
<1>3. event = "none" /\ port = "up" /\ port' = port /\ chip' = chip /\ tx' = tx
      /\ currentRcvBank' = currentRcvBank /\ pc' = pc /\ buf' = buf
  BY <1>1 DEF Send, LineOnly
<1>4. RamAnswer' = RamAnswer
  BY <1>1, <1>3 DEF RamAnswer
<1>5. CASE at.s = "rw"
  <2>1. Command = Cmd("w", Reg("ram"), None) /\ Command.at = Reg("ram")
    BY <1>1, <1>5, AskedCommand DEF Cmd
  <2>2. InSync
    BY <1>3, <1>5 DEF LoaderInv, BankInv, Lost
  <2>3. RamQueue' = Append(RamQueue, Command)
    BY <1>1, <1>2, <2>1, <2>2, QueueGiven
  <2> QED
    BY <1>3, <1>4, <2>1, <2>3 DEF Memory!Give, RamQueue, RamAnswer, s1, s2, s3
<1>6. CASE at.s # "rw"
  <2>1. Command.at # Reg("ram")
    BY <1>1, <1>6, AskedCommand DEF Cmd, Reg, Cell, Asks
  <2>2. CASE InSync
    BY <1>1, <1>2, <1>3, <1>4, <2>1, <2>2, QueueGiven, Unseen
  <2>3. CASE ~InSync
    <3>1. Lost /\ currentRcvBank = 1 /\ rx[0] = None /\ rx[1] = None /\ pc # "samba"
      BY <1>1, <1>3, <2>3 DEF LoaderInv, BankInv, Lost
    <3>2. Empty
      BY <3>1 DEF Empty, s1, s2, s3, Taken
    <3>3. rx'[0] = Command /\ rx'[1] = None
      BY <1>1, <1>2, <1>3, <2>3, <3>1, SendBanks
    <3>4. s1' = None /\ s2' = None /\ s3' = Command
      BY <1>3, <3>1, <3>3 DEF s1, s2, s3, Taken
    <3>5. Held(OfRam(s3')) = <<>>
      BY <1>2, <2>1, <3>4, OfRamOnly
    <3>6. RamQueue' = <<>> \o <<>> \o <<>>
      BY <3>4, <3>5, OfRamOnly DEF RamQueue
    <3>7. RamQueue' = RamQueue
      BY <3>2, <3>6, EmptyQueue
    <3> QED
      BY <1>3, <1>4, <3>7, Unseen
  <2> QED
    BY <2>2, <2>3
<1> QED
  BY <1>5, <1>6

LEMMA SameSlots ==
  ASSUME UNCHANGED <<pc, buf, rx, currentRcvBank>>
  PROVE  RamQueue' = RamQueue
BY DEF RamQueue, s1, s2, s3, Taken

LEMMA ToolSeen ==
  ASSUME NoneIsApart, LoaderInv,
         io_init \/ io_cleanup \/ (\E s \in {"locks", "ready", "rw", "V", "R"}, p \in Pages : Begin(s, p))
  PROVE  UNCHANGED Memory!memoryVars
<1>1. Quiet
  BY DEF io_init, io_cleanup, Begin
<1>2. UNCHANGED <<pc, buf, rx, currentRcvBank, port, chip, tx>>
  BY <1>1 DEF Quiet, usbVars, udpVars
<1>3. CASE io_init \/ io_cleanup
  BY <1>2, <1>3, OpenStep, NoAnswerYet, SameSlots, Unseen
<1>4. CASE \E s \in {"locks", "ready", "rw", "V", "R"}, p \in Pages : Begin(s, p)
  <2>1. tx = None /\ inq' = <<>> /\ at.s # "rw"
    BY <1>4, BeginStep
  <2> QED
    BY <1>2, <2>1, NoAnswerYet, SameSlots, Unseen
<1> QED
  BY <1>3, <1>4

LEMMA TakeSeen ==
  ASSUME NoneIsApart, LoaderInv, io_read
  PROVE  Memory!Take \/ UNCHANGED Memory!memoryVars
<1>1. UNCHANGED <<pc, buf, rx, currentRcvBank, port, chip, tx>>
  BY DEF io_read, Quiet, usbVars, udpVars
<1>2. RamQueue' = RamQueue
  BY <1>1, SameSlots
<1>3. CASE at.s = "rw"
  <2>1. at' = Idle /\ Idle.s # "rw"
    BY <1>3, TakeStep DEF Idle, Step
  <2>2. port = "up"
    BY <1>3 DEF LoaderInv, ToolInv, Off, Step
  <2>3. RamAnswer' = None
    BY <2>1, NoAnswerYet
  <2> QED
    BY <1>1, <1>2, <2>2, <2>3 DEF Memory!Take, RamQueue, RamAnswer, s1, s2, s3
<1>4. CASE at.s # "rw"
  BY <1>1, <1>2, <1>4, TakeStep, NoAnswerYet, Unseen
<1> QED
  BY <1>3, <1>4

\* The answer on its way from the port to the tool.
LEMMA ArriveSeen ==
  ASSUME NoneIsApart, LoaderInv, Arrive
  PROVE  UNCHANGED Memory!memoryVars
<1>1. tx # None /\ tx' = None /\ inq' = Append(inq, tx) /\ at' = at /\ port' = port /\ chip' = chip
  BY DEF Arrive, Receive
<1>2. RamQueue' = RamQueue
  BY ArriveStep DEF RamQueue
<1>3. RamAnswer' = RamAnswer
  <2>1. CASE at.s = "rw"
    <3>1. inq = <<>>
      BY <2>1, ArriveStep
    <3>2. inq' # <<>> /\ Head(inq') = tx
      BY <1>1, <3>1
    <3> QED
      BY <1>1, <2>1, <3>2 DEF RamAnswer
  <2>2. CASE at.s # "rw"
    BY <1>1, <2>2, NoAnswerYet
  <2> QED
    BY <2>1, <2>2
<1> QED
  BY <1>1, <1>2, <1>3, Unseen

\* The line and the power.
LEMMA PlugSeen ==
  ASSUME NoneIsApart, LoaderInv, Plug
  PROVE  Memory!Fail
<1>1. port' = "reset" /\ chip' = chip
  BY DEF Plug, BusReset
<1>2. RamQueue' = RamQueue
  BY PlugStep DEF RamQueue
<1>3. RamAnswer' = None
  BY LostTool, NoAnswerYet DEF Plug
<1>4. chip'.ram \in Values
  BY <1>1 DEF LoaderInv, ChipInv, ChipType
<1> QED
  BY <1>1, <1>2, <1>3, <1>4 DEF Memory!Fail, RamQueue, RamAnswer, s1, s2, s3

LEMMA EnumerateSeen ==
  ASSUME NoneIsApart, LoaderInv, Enumerate
  PROVE  Memory!Restore
<1>1. port' = "up" /\ chip' = chip /\ at' = at
  BY DEF Enumerate, SetConfiguration, toolVars
<1>2. Empty /\ Empty' /\ at.s = "off"
  BY EnumerateStep DEF Empty
<1>3. RamQueue = <<>> /\ RamQueue' = <<>>
  BY <1>2, EmptyQueue
<1>4. RamAnswer = None /\ RamAnswer' = None
  BY <1>1, <1>2, NoAnswerYet
<1> QED
  BY <1>1, <1>3, <1>4 DEF Memory!Restore, RamQueue, RamAnswer, s1, s2, s3

LEMMA PowerSeen ==
  ASSUME NoneIsApart, LoaderInv, PowerCycle
  PROVE  Memory!Fail
<1>1. port' = "gone"
  BY DEF PowerCycle, PowerUp
<1>2. chip'.ram \in Values /\ Empty'
  BY PowerStep DEF Empty
<1>3. RamQueue' = <<>>
  BY <1>2, EmptyQueue
<1>4. RamAnswer' = None
  BY LostTool, NoAnswerYet DEF PowerCycle
<1> QED
  BY <1>1, <1>2, <1>3, <1>4 DEF Memory!Fail, RamQueue, RamAnswer, s1, s2, s3

LEMMA FlashSeen ==
  ASSUME LoaderInv, Flash
  PROVE  UNCHANGED Memory!memoryVars
<1>1. UNCHANGED <<pc, buf, rx, currentRcvBank, port, tx, at, inq>>
  BY DEF Flash, usbVars, udpVars, toolVars
<1>2. chip'.ram = chip.ram
  BY FlashStep DEF Flash
<1>3. RamAnswer' = RamAnswer
  BY <1>1 DEF RamAnswer
<1> QED
  BY <1>1, <1>2, <1>3, SameSlots, Unseen

LEMMA MemoryStart ==
  ASSUME NoneIsApart, Init
  PROVE  Memory!Init
<1>1. LoaderInv
  BY LoaderInit
<1>2. chip.ram \in Values
  BY <1>1 DEF LoaderInv, ChipInv, ChipType
<1>3. port = "gone" /\ rx = NoPackets /\ currentRcvBank = 0 /\ buf = None /\ at = Off
  BY DEF Init, PoweredUp
<1>4. Empty
  BY <1>3 DEF Empty, s1, s2, s3, Taken, NoPackets
<1>5. at.s # "rw"
  BY <1>3 DEF Off, Step
<1>6. RamQueue = <<>> /\ RamAnswer = None
  BY <1>4, <1>5, EmptyQueue, NoAnswerYet
<1> QED
  BY <1>2, <1>3, <1>6 DEF Memory!Init, RamQueue, RamAnswer, s1, s2, s3

LEMMA MemoryNext ==
  ASSUME NoneIsApart, LoaderInv, [Next]_loaderVars
  PROVE  [Memory!Next]_(Memory!memoryVars)
<1>1. ASSUME Tool PROVE [Memory!Next]_(Memory!memoryVars)
  <2>1. ASSUME NEW s \in {"locks", "ready", "rw", "V"}, Begin(s, 0) PROVE UNCHANGED Memory!memoryVars
    BY <2>1, ToolSeen, PageZero
  <2>2. ASSUME NEW p \in Pages, Begin("R", p) PROVE UNCHANGED Memory!memoryVars
    BY <2>2, ToolSeen
  <2>3. ASSUME NEW v \in Values, cmd_write_mem(v) PROVE Memory!Next
    BY <2>3, WriteMemSeen DEF Memory!Next
  <2>4. ASSUME io_init \/ io_cleanup \/ Post PROVE UNCHANGED Memory!memoryVars
    BY <2>4, ToolSeen, PostSeen
  <2>5. ASSUME Ask PROVE [Memory!Next]_(Memory!memoryVars)
    BY <2>5, AskSeen DEF Memory!Next
  <2>6. ASSUME io_read PROVE [Memory!Next]_(Memory!memoryVars)
    BY <2>6, TakeSeen DEF Memory!Next
  <2> QED
    BY <1>1, <2>1, <2>2, <2>3, <2>4, <2>5, <2>6 DEF Tool
<1>2. ASSUME Board PROVE [Memory!Next]_(Memory!memoryVars)
  BY <1>2, PollSeen, ReadSeen, WriteSeen, ExecuteSeen DEF Board, Firmware, Memory!Next
<1>3. ASSUME Flash \/ Arrive PROVE UNCHANGED Memory!memoryVars
  BY <1>3, FlashSeen, ArriveSeen
<1>4. ASSUME Plug \/ Enumerate \/ PowerCycle PROVE Memory!Next
  BY <1>4, PlugSeen, EnumerateSeen, PowerSeen DEF Memory!Next
<1>5. ASSUME UNCHANGED loaderVars PROVE UNCHANGED Memory!memoryVars
  <2>1. UNCHANGED <<pc, buf, rx, currentRcvBank, port, chip, tx, at, inq>>
    BY <1>5 DEF loaderVars, usbVars, udpVars, toolVars
  <2>2. RamAnswer' = RamAnswer
    BY <2>1 DEF RamAnswer
  <2> QED
    BY <2>1, <2>2, SameSlots, Unseen
<1> QED
  BY <1>1, <1>2, <1>3, <1>4, <1>5 DEF Next

\* The loader is a memory at the end of a line: the writes that the tool posts
\* land once each and in order, a word that is read is what was written last,
\* and when the line fails what was under way is dropped and never executed
\* for a later session.
THEOREM RemoteMemoryImplemented ==
  ASSUME NoneIsApart
  PROVE  Spec => ImplementsRemoteMemory
<1>1. Init => Memory!Init
  BY MemoryStart
<1>2. LoaderInv /\ [Next]_loaderVars => [Memory!Next]_(Memory!memoryVars)
  BY MemoryNext
<1> QED
  BY <1>1, <1>2, LoaderHolds, PTL DEF Spec, ImplementsRemoteMemory, Memory!Spec

-----------------------------------------------------------------------------
(* What a command that has ended leaves behind.                            *)
\* The flashes on which neither of the tool's two slips shows (cmd.c:399, 598;
\* see the known defects): others it cannot be relied on to unlock or program.
Programmable == \A c \in Chips :
  /\ c.slow => c.locked = {} /\ ~c.gpnvm
  /\ \E m \in Pages : c.locked \subseteq {0, m}

\* What flash, latch and locks will be when the commands under way are done.
State(latch, flash, locked) == [latch |-> latch, flash |-> flash, locked |-> locked]
Settled ==
  IF chip.busy = NoPage THEN State(chip.latch, chip.flash, chip.locked)
  ELSE IF chip.busy.op = "unlock" THEN State(chip.latch, chip.flash, chip.locked \ {chip.busy.page})
  ELSE State(Latch(Erased), [chip.flash EXCEPT ![chip.busy.page] = chip.latch], chip.locked)
Heavy(c) == c \in Posted /\ c.at.reg \in {"flash", "fcr"}
Starts(c) == c \in Posted /\ c.at.reg = "fcr"
Effect(x, c) ==
  IF ~Heavy(c) THEN x
  ELSE IF ~Starts(c) THEN State([x.latch EXCEPT ![c.at.word] = c.val], x.flash, x.locked)
  ELSE IF c.val.op = "unlock" THEN State(x.latch, x.flash, x.locked \ {c.val.page})
  ELSE IF c.val.page \in x.locked THEN x
  ELSE State(Latch(Erased), [x.flash EXCEPT ![c.val.page] = x.latch], x.locked)
Final == Effect(Effect(Effect(Settled, s1), s2), s3)

FlashInv ==
  /\ chip.slow => chip.locked = {} /\ ~chip.locke /\ ~chip.gpnvm
  /\ \E m \in Pages : chip.locked \subseteq {0, m}

\* Nothing reaches a flash that takes its time before it is ready.
FlowInv == chip.slow /\ event # "reset" =>
  /\ chip.busy # NoPage => ~Heavy(s1) /\ ~Heavy(s2) /\ ~Heavy(s3)
  /\ Starts(s1) => ~Heavy(s2) /\ ~Heavy(s3)
  /\ Starts(s2) => ~Heavy(s3)
ReadyInv == chip.slow =>
  /\ at.s \in {"word", "program"} => chip.busy = NoPage /\ ~Starts(s1) /\ ~Starts(s2) /\ ~Starts(s3)
  /\ at.s \notin {"before", "unlock", "after", "mode"}

\* The status that the tool gets is still true.
Status == {"locks", "before", "after", "ready"}
Current(w) == w.locks = Final.locked /\ (chip.slow => ~w.locke /\ ~w.gpnvm /\ (w.frdy => chip.busy = NoPage))
StatusInv == waiting /\ Empty /\ at.s \in Status =>
  /\ tx # None => Current(tx.word)
  /\ \A i \in 1 .. Len(inq) : Current(inq[i].word)

Good(q) == q \in Final.locked \/ Final.flash[q] = File[q]
ProgramInv ==
  /\ at.s \in {"ready", "word", "program"} => \A q \in Pages : q < at.page => Good(q)
  /\ at.s = "ready" => at.word = 0
  /\ at.s = "word" => \A i \in Words : i < at.word => Final.latch[i] = File[at.page][i]
  /\ at.s = "program" => Final.latch = File[at.page]
  /\ at # Off /\ done = "flash" => \A q \in Pages : Good(q)

UnlockInv ==
  /\ at.s \in {"before", "unlock"} => at.page \in Final.locked /\ \A r \in Final.locked : at.page <= r
  /\ at.s = "after" => Final.locked = {} \/ (at.page = 0 /\ 0 \notin Final.locked)
  /\ at.s = "mode" \/ (at # Off /\ done = "unlock") => Final.locked = {}

ReadInv ==
  /\ at.s = "R" \/ (at # Off /\ done = "read") => chip.busy = NoPage /\ {s1, s2, s3} \cap Posted = {}
  /\ at.s = "R" =>
       /\ \A i \in 1 .. Len(got) : got[i] = chip.flash[at.page][i - 1]
       /\ \A i \in 1 .. Len(inq) : inq[i].word = chip.flash[at.page][Len(got) + i - 1]
       /\ tx # None => tx.word = chip.flash[at.page][Len(got) + Len(inq)]
       /\ \A i \in 1 .. Len(out) :
            out[i].word = chip.flash[at.page][Len(got) + Len(inq) + (IF tx = None THEN 0 ELSE 1) + i - 1]
  /\ at # Off /\ done = "read" => \E p \in Pages : \A i \in Words : got[i + 1] = chip.flash[p][i]

DoneInv == done # "none" => at \in {Idle, Off}
EndInv == FlashInv /\ FlowInv /\ ReadyInv /\ StatusInv /\ ProgramInv /\ UnlockInv /\ ReadInv /\ DoneInv

StateType == [latch : [Words -> Content], flash : [Pages -> [Words -> Content]], locked : SUBSET Pages]

\* Which commands there are, for the flash.
LEMMA HeavyForms ==
  ASSUME NEW c, Heavy(c)
  PROVE  \/ \E p \in Pages, i \in Words, v \in Values : c = Cmd("W", Cell(p, i), v) /\ ~Starts(c)
         \/ \E o \in {"unlock", "program"}, p \in Pages :
              c = Cmd("W", Reg("fcr"), [op |-> o, page |-> p]) /\ Starts(c)
<1>1. c \in Posted /\ c.at.reg \in {"flash", "fcr"}
  BY DEF Heavy
<1>2. CASE \E v \in Values : c = Cmd("W", Reg("ram"), v)
  BY <1>1, <1>2 DEF Cmd, Reg
<1>3. CASE c = Cmd("W", Reg("fmr"), None)
  BY <1>1, <1>3 DEF Cmd, Reg
<1>4. CASE \E o \in {"unlock", "program"}, p \in Pages : c = Cmd("W", Reg("fcr"), [op |-> o, page |-> p])
  <2>1. c.at.reg = "fcr"
    BY <1>4 DEF Cmd, Reg
  <2>2. Starts(c)
    BY <1>1, <2>1 DEF Starts
  <2> QED
    BY <1>4, <2>2
<1>5. CASE \E p \in Pages, i \in Words, v \in Values : c = Cmd("W", Cell(p, i), v)
  <2>1. c.at.reg = "flash"
    BY <1>5 DEF Cmd, Cell
  <2>2. ~Starts(c)
    BY <2>1 DEF Starts
  <2> QED
    BY <1>5, <2>2
<1>6. \/ \E v \in Values : c = Cmd("W", Reg("ram"), v)
      \/ c = Cmd("W", Reg("fmr"), None)
      \/ \E o \in {"unlock", "program"}, p \in Pages : c = Cmd("W", Reg("fcr"), [op |-> o, page |-> p])
      \/ \E p \in Pages, i \in Words, v \in Values : c = Cmd("W", Cell(p, i), v)
  BY <1>1 DEF Posted
<1> QED
  BY <1>2, <1>3, <1>4, <1>5, <1>6

LEMMA LightCommands ==
  ASSUME NoneIsApart
  PROVE  /\ ~Heavy(None) /\ ~Starts(None)
         /\ \A c \in Asked : ~Heavy(c) /\ ~Starts(c)
         /\ \A c : Starts(c) => Heavy(c)
         /\ \A c : c \in Posted /\ c.at.reg \notin {"flash", "fcr"} => ~Heavy(c)
         /\ \A x, c : ~Heavy(c) => Effect(x, c) = x
<1>1. None \notin Posted /\ \A c \in Asked : c \notin Posted
  BY CommandKinds DEF NoneIsApart
<1> QED
  BY <1>1 DEF Heavy, Starts, Effect

LEMMA EffectForms ==
  ASSUME NEW x
  PROVE  /\ \A p \in Pages, i \in Words, v \in Values :
              Effect(x, Cmd("W", Cell(p, i), v)) = State([x.latch EXCEPT ![i] = v], x.flash, x.locked)
         /\ \A p \in Pages :
              Effect(x, Cmd("W", Reg("fcr"), [op |-> "unlock", page |-> p]))
                = State(x.latch, x.flash, x.locked \ {p})
         /\ \A p \in Pages :
              Effect(x, Cmd("W", Reg("fcr"), [op |-> "program", page |-> p]))
                = IF p \in x.locked THEN x
                  ELSE State(Latch(Erased), [x.flash EXCEPT ![p] = x.latch], x.locked)
<1>1. ASSUME NEW p \in Pages, NEW i \in Words, NEW v \in Values
      PROVE  Effect(x, Cmd("W", Cell(p, i), v)) = State([x.latch EXCEPT ![i] = v], x.flash, x.locked)
  <2> DEFINE c == Cmd("W", Cell(p, i), v)
  <2>1. c \in Posted /\ c.at.reg = "flash" /\ c.at.word = i /\ c.val = v
    BY DEF Posted, Cmd, Cell
  <2> HIDE DEF c
  <2>2. Heavy(c) /\ ~Starts(c)
    BY <2>1 DEF Heavy, Starts
  <2>3. Effect(x, c) = State([x.latch EXCEPT ![c.at.word] = c.val], x.flash, x.locked)
    BY <2>2 DEF Effect
  <2> QED
    BY <2>1, <2>3 DEF c
<1>2. ASSUME NEW o \in {"unlock", "program"}, NEW p \in Pages
      PROVE  Effect(x, Cmd("W", Reg("fcr"), [op |-> o, page |-> p]))
               = IF o = "unlock" THEN State(x.latch, x.flash, x.locked \ {p})
                 ELSE IF p \in x.locked THEN x
                 ELSE State(Latch(Erased), [x.flash EXCEPT ![p] = x.latch], x.locked)
  <2> DEFINE c == Cmd("W", Reg("fcr"), [op |-> o, page |-> p])
  <2>1. c \in Posted /\ c.at.reg = "fcr" /\ c.val.op = o /\ c.val.page = p
    BY DEF Posted, Cmd, Reg
  <2> HIDE DEF c
  <2>2. Heavy(c) /\ Starts(c)
    BY <2>1 DEF Heavy, Starts
  <2>3. Effect(x, c) = IF c.val.op = "unlock" THEN State(x.latch, x.flash, x.locked \ {c.val.page})
                       ELSE IF c.val.page \in x.locked THEN x
                       ELSE State(Latch(Erased), [x.flash EXCEPT ![c.val.page] = x.latch], x.locked)
    BY <2>2 DEF Effect
  <2>4. Effect(x, c) = IF o = "unlock" THEN State(x.latch, x.flash, x.locked \ {p})
                       ELSE IF p \in x.locked THEN x
                       ELSE State(Latch(Erased), [x.flash EXCEPT ![p] = x.latch], x.locked)
    BY <2>1, <2>3
  <2> QED
    BY <2>4 DEF c
<1> QED
  BY <1>1, <1>2

LEMMA EffectTypes ==
  ASSUME NoneIsApart, NEW x \in StateType, NEW c
  PROVE  Effect(x, c) \in StateType /\ Effect(x, c).locked \subseteq x.locked
<1>1. CASE ~Heavy(c)
  BY <1>1, LightCommands DEF StateType
<1>2. CASE \E p \in Pages, i \in Words, v \in Values : c = Cmd("W", Cell(p, i), v)
  <2>1. PICK p \in Pages, i \in Words, v \in Values : c = Cmd("W", Cell(p, i), v)
    BY <1>2
  <2> DEFINE l == [x.latch EXCEPT ![i] = v]
  <2>2. Effect(x, c) = State(l, x.flash, x.locked)
    BY <2>1, EffectForms
  <2>3. l \in [Words -> Content]
    BY DEF StateType, Content
  <2> HIDE DEF l
  <2> QED
    BY <2>2, <2>3 DEF State, StateType
<1>3. CASE \E p \in Pages : c = Cmd("W", Reg("fcr"), [op |-> "unlock", page |-> p])
  <2>1. PICK p \in Pages : c = Cmd("W", Reg("fcr"), [op |-> "unlock", page |-> p])
    BY <1>3
  <2> DEFINE k == x.locked \ {p}
  <2>2. Effect(x, c) = State(x.latch, x.flash, k)
    BY <2>1, EffectForms
  <2>3. k \in SUBSET Pages /\ k \subseteq x.locked
    BY DEF StateType
  <2> HIDE DEF k
  <2> QED
    BY <2>2, <2>3 DEF State, StateType
<1>4. CASE \E p \in Pages : c = Cmd("W", Reg("fcr"), [op |-> "program", page |-> p])
  <2>1. PICK p \in Pages : c = Cmd("W", Reg("fcr"), [op |-> "program", page |-> p])
    BY <1>4
  <2> DEFINE f == [x.flash EXCEPT ![p] = x.latch]
             l == Latch(Erased)
  <2>2. Effect(x, c) = x \/ Effect(x, c) = State(l, f, x.locked)
    BY <2>1, EffectForms
  <2>3. f \in [Pages -> [Words -> Content]] /\ l \in [Words -> Content]
    BY DEF StateType, Latch, Content
  <2> HIDE DEF f, l
  <2> QED
    BY <2>2, <2>3 DEF State, StateType
<1> QED
  BY <1>1, <1>2, <1>3, <1>4, HeavyForms

LEMMA SettledTypes ==
  ASSUME ChipInv
  PROVE  Settled \in StateType /\ Settled.locked \subseteq chip.locked
<1>1. /\ chip.latch \in [Words -> Content] /\ chip.flash \in [Pages -> [Words -> Content]]
      /\ chip.locked \in SUBSET Pages
  BY DEF ChipInv, ChipType, Content
<1> DEFINE k == chip.locked \ {chip.busy.page}
           f == [chip.flash EXCEPT ![chip.busy.page] = chip.latch]
           l == Latch(Erased)
<1>2. k \in SUBSET Pages /\ k \subseteq chip.locked
  BY <1>1
<1>3. f \in [Pages -> [Words -> Content]] /\ l \in [Words -> Content]
  BY <1>1 DEF Latch, Content
<1>4. \/ Settled = State(chip.latch, chip.flash, chip.locked)
      \/ Settled = State(chip.latch, chip.flash, k)
      \/ Settled = State(l, f, chip.locked)
  BY DEF Settled
<1> HIDE DEF k, f, l
<1> QED
  BY <1>1, <1>2, <1>3, <1>4 DEF State, StateType

LEMMA FinalTypes ==
  ASSUME NoneIsApart, ChipInv
  PROVE  Final \in StateType /\ Final.locked \subseteq chip.locked
<1> DEFINE x == Effect(Settled, s1)
           y == Effect(x, s2)
<1>1. x \in StateType /\ x.locked \subseteq chip.locked
  BY SettledTypes, EffectTypes
<1>2. y \in StateType /\ y.locked \subseteq chip.locked
  <2> HIDE DEF x
  <2> QED
    BY <1>1, EffectTypes
<1>3. Final = Effect(y, s3)
  BY DEF Final
<1> HIDE DEF x, y
<1> QED
  BY <1>2, <1>3, EffectTypes

\* A posted write that is not lost does to the chip, when it is at rest again,
\* what it is for.
LEMMA StoreSettled ==
  ASSUME NoneIsApart, ChipInv, NEW c \in Posted, Heavy(c) => chip.busy = NoPage,
         chip' = Store(c.at, c.val)
  PROVE  /\ Settled' = Effect(Settled, c)
         /\ chip'.slow = chip.slow /\ chip'.gpnvm = chip.gpnvm /\ chip'.locked = chip.locked
         /\ chip.locked = {} => chip'.locke = chip.locke
         /\ ~Starts(c) => chip'.busy = chip.busy
<1>0. chip \in ChipType
  BY DEF ChipInv
<1>1. CASE ~Heavy(c)
  <2>1. c.at.reg \notin {"flash", "fcr"}
    BY <1>1 DEF Heavy
  <2>2. chip' = chip \/ chip' = [chip EXCEPT !.ram = c.val]
    BY <2>1 DEF Store
  <2>3. /\ chip'.latch = chip.latch /\ chip'.flash = chip.flash /\ chip'.locked = chip.locked
        /\ chip'.slow = chip.slow /\ chip'.gpnvm = chip.gpnvm /\ chip'.locke = chip.locke /\ chip'.busy = chip.busy
    BY <1>0, <2>2 DEF ChipType
  <2>4. Settled' = Settled
    BY <2>3 DEF Settled
  <2> QED
    BY <1>1, <2>3, <2>4, LightCommands
<1>2. CASE \E p \in Pages, i \in Words, v \in Values : c = Cmd("W", Cell(p, i), v)
  <2>1. PICK p \in Pages, i \in Words, v \in Values : c = Cmd("W", Cell(p, i), v)
    BY <1>2
  <2>2. c.at.reg = "flash" /\ c.at.word = i /\ c.val = v
    BY <2>1 DEF Cmd, Cell
  <2>3. chip.busy = NoPage
    BY <2>2 DEF Heavy
  <2>4. chip' = [chip EXCEPT !.latch[i] = v]
    BY <2>2, <2>3 DEF Store
  <2> DEFINE l == [chip.latch EXCEPT ![i] = v]
  <2>5. /\ chip'.latch = l /\ chip'.flash = chip.flash /\ chip'.locked = chip.locked
        /\ chip'.slow = chip.slow /\ chip'.gpnvm = chip.gpnvm /\ chip'.locke = chip.locke /\ chip'.busy = chip.busy
    BY <1>0, <2>4 DEF ChipType
  <2>6. Settled = State(chip.latch, chip.flash, chip.locked)
    BY <2>3 DEF Settled
  <2>7. Settled' = State(chip'.latch, chip.flash, chip.locked)
    BY <2>3, <2>5 DEF Settled
  <2>8. Effect(Settled, c) = State([Settled.latch EXCEPT ![i] = v], Settled.flash, Settled.locked)
    BY <2>1, EffectForms
  <2>9. Settled.latch = chip.latch /\ Settled.flash = chip.flash /\ Settled.locked = chip.locked
    BY <2>6 DEF State
  <2>10. Effect(Settled, c) = State(l, chip.flash, chip.locked)
    BY <2>8, <2>9
  <2> QED
    BY <2>5, <2>7, <2>10
<1>3. CASE \E o \in {"unlock", "program"}, p \in Pages : c = Cmd("W", Reg("fcr"), [op |-> o, page |-> p])
  <2>1. PICK o \in {"unlock", "program"}, p \in Pages : c = Cmd("W", Reg("fcr"), [op |-> o, page |-> p])
    BY <1>3
  <2> DEFINE b == [op |-> o, page |-> p]
  <2>2. c.at.reg = "fcr" /\ c.val = b
    BY <2>1 DEF Cmd, Reg
  <2>3. Heavy(c) /\ Starts(c) /\ chip.busy = NoPage
    BY <2>2 DEF Heavy, Starts
  <2>4. b.op = o /\ b.page = p /\ b # NoPage
    BY DEF NoPage
  <2>5. chip' = IF o = "program" /\ p \in chip.locked THEN [chip EXCEPT !.locke = TRUE]
                ELSE [chip EXCEPT !.busy = b]
    BY <2>2, <2>3, <2>4 DEF Store, Start
  <2> HIDE DEF b
  <2>6. Settled = State(chip.latch, chip.flash, chip.locked)
    BY <2>3 DEF Settled
  <2>7. Settled.latch = chip.latch /\ Settled.flash = chip.flash /\ Settled.locked = chip.locked
    BY <2>6 DEF State
  <2>8. CASE o = "program" /\ p \in chip.locked
    <3>1. /\ chip'.latch = chip.latch /\ chip'.flash = chip.flash /\ chip'.locked = chip.locked
          /\ chip'.slow = chip.slow /\ chip'.gpnvm = chip.gpnvm /\ chip'.busy = chip.busy
      BY <1>0, <2>5, <2>8 DEF ChipType
    <3>2. Settled' = Settled
      BY <3>1 DEF Settled
    <3>3. Effect(Settled, c) = Settled
      BY <2>1, <2>7, <2>8, EffectForms
    <3> QED
      BY <2>3, <2>8, <3>1, <3>2, <3>3
  <2>9. CASE ~(o = "program" /\ p \in chip.locked)
    <3>1. /\ chip'.latch = chip.latch /\ chip'.flash = chip.flash /\ chip'.locked = chip.locked
          /\ chip'.slow = chip.slow /\ chip'.gpnvm = chip.gpnvm /\ chip'.locke = chip.locke /\ chip'.busy = b
      BY <1>0, <2>5, <2>9 DEF ChipType
    <3>2. CASE o = "unlock"
      <4>1. Settled' = State(chip.latch, chip.flash, chip.locked \ {p})
        BY <2>4, <3>1, <3>2 DEF Settled
      <4>2. Effect(Settled, c) = State(Settled.latch, Settled.flash, Settled.locked \ {p})
        BY <2>1, <3>2, EffectForms
      <4> QED
        BY <2>3, <2>7, <3>1, <4>1, <4>2
    <3>3. CASE o = "program"
      <4>1. p \notin chip.locked
        BY <2>9, <3>3
      <4>2. Settled' = State(Latch(Erased), [chip.flash EXCEPT ![p] = chip.latch], chip.locked)
        BY <2>4, <3>1, <3>3 DEF Settled
      <4>3. Effect(Settled, c)
              = State(Latch(Erased), [Settled.flash EXCEPT ![p] = Settled.latch], Settled.locked)
        BY <2>1, <2>7, <3>3, <4>1, EffectForms
      <4> QED
        BY <2>3, <2>7, <3>1, <4>2, <4>3
    <3> QED
      BY <3>2, <3>3
  <2> QED
    BY <2>8, <2>9
<1> QED
  BY <1>1, <1>2, <1>3, HeavyForms

\* So does the flash, when it gets ready.
LEMMA FinishSettled ==
  ASSUME ChipInv, Finish
  PROVE  /\ Settled' = Settled /\ chip'.busy = NoPage
         /\ chip'.slow = chip.slow /\ chip'.gpnvm = chip.gpnvm /\ chip'.locked \subseteq chip.locked /\ chip'.locke = chip.locke
<1>0. chip \in ChipType /\ chip.busy # NoPage
  BY DEF ChipInv, Finish
<1>1. CASE chip.busy.op = "unlock"
  <2> DEFINE k == chip.locked \ {chip.busy.page}
  <2>1. chip' = [chip EXCEPT !.locked = k, !.busy = NoPage]
    BY <1>1 DEF Finish
  <2>2. Settled = State(chip.latch, chip.flash, k)
    BY <1>0, <1>1 DEF Settled
  <2>3. k \subseteq chip.locked
    OBVIOUS
  <2> HIDE DEF k
  <2>4. /\ chip'.latch = chip.latch /\ chip'.flash = chip.flash /\ chip'.locked = k
        /\ chip'.slow = chip.slow /\ chip'.gpnvm = chip.gpnvm /\ chip'.locke = chip.locke /\ chip'.busy = NoPage
    BY <1>0, <2>1 DEF ChipType
  <2>5. Settled' = State(chip'.latch, chip'.flash, chip'.locked)
    BY <2>4 DEF Settled
  <2> QED
    BY <2>2, <2>3, <2>4, <2>5
<1>2. CASE chip.busy.op # "unlock"
  <2> DEFINE f == [chip.flash EXCEPT ![chip.busy.page] = chip.latch]
             l == Latch(Erased)
  <2>1. chip' = [chip EXCEPT !.flash = f, !.latch = l, !.busy = NoPage]
    BY <1>0, <1>2 DEF Finish, ChipType
  <2>2. Settled = State(l, f, chip.locked)
    BY <1>0, <1>2 DEF Settled
  <2> HIDE DEF f, l
  <2>4. /\ chip'.latch = l /\ chip'.flash = f /\ chip'.locked = chip.locked
        /\ chip'.slow = chip.slow /\ chip'.gpnvm = chip.gpnvm /\ chip'.locke = chip.locke /\ chip'.busy = NoPage
    BY <1>0, <2>1 DEF ChipType
  <2>5. Settled' = State(chip'.latch, chip'.flash, chip'.locked)
    BY <2>4 DEF Settled
  <2> QED
    BY <2>2, <2>4, <2>5
<1> QED
  BY <1>1, <1>2

LEMMA FinalSame ==
  ASSUME Settled' = Settled, s1' = s1, s2' = s2, s3' = s3
  PROVE  Final' = Final
BY DEF Final

LEMMA FinalMoved ==
  ASSUME NoneIsApart, chip' = chip, s1 = None, s1' = s2, s2' = s3, s3' = None
  PROVE  Final' = Final
<1>1. Settled' = Settled
  BY DEF Settled
<1>2. \A x : Effect(x, None) = x
  BY LightCommands
<1>3. Final = Effect(Effect(Settled, s2), s3)
  BY <1>2 DEF Final
<1>4. Final' = Effect(Effect(Settled, s2), s3)
  BY <1>1, <1>2 DEF Final
<1> QED
  BY <1>3, <1>4

LEMMA FinalTaken ==
  ASSUME NoneIsApart, Settled' = Effect(Settled, s1), s1' = None, s2' = s2, s3' = s3
  PROVE  Final' = Final
<1>1. \A x : Effect(x, None) = x
  BY LightCommands
<1>2. Final' = Effect(Effect(Effect(Settled, s1), s2), s3)
  BY <1>1 DEF Final
<1> QED
  BY <1>2 DEF Final

LEMMA FinalGiven ==
  ASSUME NoneIsApart, chip' = chip, NEW c, s1' = s1, s3 = None,
         \/ s2 = None /\ s2' = c /\ s3' = None
         \/ s2 # None /\ s2' = s2 /\ s3' = c
  PROVE  Final' = Effect(Final, c)
<1>1. Settled' = Settled
  BY DEF Settled
<1>2. \A x : Effect(x, None) = x
  BY LightCommands
<1>3. CASE s2 = None /\ s2' = c /\ s3' = None
  <2>1. Final = Effect(Settled, s1)
    BY <1>2, <1>3 DEF Final
  <2>2. Final' = Effect(Effect(Settled, s1), c)
    BY <1>1, <1>2, <1>3 DEF Final
  <2> QED
    BY <2>1, <2>2
<1>4. CASE s2 # None /\ s2' = s2 /\ s3' = c
  <2>1. Final = Effect(Effect(Settled, s1), s2)
    BY <1>2 DEF Final
  <2>2. Final' = Effect(Effect(Effect(Settled, s1), s2), c)
    BY <1>1, <1>4 DEF Final
  <2> QED
    BY <2>1, <2>2
<1> QED
  BY <1>3, <1>4

LEMMA KeepEnds ==
  ASSUME ProgramInv, UnlockInv, DoneInv, Final' = Final, at' = at, done' = done
  PROVE  ProgramInv' /\ UnlockInv' /\ DoneInv'
<1>1. \A q : Good(q)' <=> Good(q)
  BY DEF Good
<1> QED
  BY <1>1 DEF ProgramInv, UnlockInv, DoneInv

LEMMA KeepFlash ==
  ASSUME FlashInv, chip'.slow = chip.slow, chip'.gpnvm = chip.gpnvm, chip'.locked \subseteq chip.locked,
         chip.locked = {} /\ ~chip.locke => ~chip'.locke
  PROVE  FlashInv'
BY DEF FlashInv

\* Nothing that the invariants look at changes.
LEMMA SameEnds ==
  ASSUME EndInv, UNCHANGED <<chip, at, done, waiting, tx, inq, out, got>>,
         s1' = s1, s2' = s2, s3' = s3, event' # "reset" => event # "reset"
  PROVE  EndInv'
<1>1. Settled' = Settled
  BY DEF Settled
<1>2. Final' = Final
  BY <1>1, FinalSame
<1>3. ProgramInv' /\ UnlockInv' /\ DoneInv'
  BY <1>2, KeepEnds DEF EndInv
<1>4. FlashInv' /\ FlowInv' /\ ReadyInv'
  BY DEF EndInv, FlashInv, FlowInv, ReadyInv
<1>5. \A w : Current(w)' <=> Current(w)
  BY <1>2 DEF Current
<1>6. StatusInv'
  BY <1>5 DEF EndInv, StatusInv, Empty
<1>7. ReadInv'
  BY DEF EndInv, ReadInv
<1> QED
  BY <1>3, <1>4, <1>6, <1>7 DEF EndInv

\* No session: what was under way is dropped.
LEMMA OffEnds ==
  ASSUME NoneIsApart, at' = Off, ~waiting', FlashInv', event' = "reset" \/ Empty'
  PROVE  EndInv'
<1>1. Off.s = "off" /\ Off # Idle
  BY DEF Off, Idle, Step
<1>2. FlowInv'
  BY LightCommands DEF FlowInv, Empty
<1>3. ReadyInv' /\ StatusInv' /\ ProgramInv' /\ UnlockInv' /\ ReadInv' /\ DoneInv'
  BY <1>1 DEF ReadyInv, StatusInv, ProgramInv, UnlockInv, ReadInv, DoneInv
<1> QED
  BY <1>2, <1>3 DEF EndInv

LEMMA ResetEnds ==
  ASSUME NoneIsApart, LoaderInv, EndInv, ResetEndpoints, UNCHANGED Rest, pc' = "poll"
  PROVE  EndInv'
<1>1. port = "reset" /\ currentRcvBank \in {0, 1}
  BY DEF ResetEndpoints, LoaderInv, PortInv
<1>2. chip' = chip /\ at' = at /\ waiting' = waiting /\ done' = done /\ rx' = NoPackets
      /\ currentRcvBank' = currentRcvBank
  BY DEF Rest, toolVars, ResetEndpoints
<1>3. at = Off /\ Off.s = "off" /\ Off # Idle
  BY <1>1 DEF LoaderInv, ToolInv, Off, Idle, Step
<1>4. ~waiting
  BY <1>3, NotWaiting
<1>5. Empty'
  BY <1>1, <1>2 DEF Empty, s1, s2, s3, Taken, NoPackets
<1>6. FlashInv'
  BY <1>2 DEF EndInv, FlashInv
<1> QED
  BY <1>2, <1>3, <1>4, <1>5, <1>6, OffEnds

LEMMA PollEnds ==
  ASSUME NoneIsApart, LoaderInv, EndInv, usb_poll, UNCHANGED <<chip, interactive, toolVars, replugged>>
  PROVE  EndInv'
<1>1. pc = "poll" /\ out' = out /\ currentRcvBank' = currentRcvBank /\ buf' = buf /\ port' = port
  BY DEF usb_poll
<1>2. CASE event = "reset"
  <2>1. ResetEndpoints
    BY <1>2 DEF usb_poll, usb_isconfigured, usb_enumerate
  <2>2. pc' = "poll"
    BY <2>1 DEF usb_poll, ResetEndpoints
  <2> QED
    BY <1>1, <2>1, <2>2, ResetEnds DEF Rest
<1>3. CASE event # "reset"
  <2>1. tx' = tx /\ rx' = rx
    BY <1>3 DEF usb_poll, usb_isconfigured, usb_enumerate, ResetEndpoints, udpVars, LoaderInv, PortInv
  <2>2. pc' \in {"poll", "read"} /\ UNCHANGED <<chip, at, done, waiting, inq, got>>
    BY DEF usb_poll, toolVars
  <2>3. s1' = s1 /\ s2' = s2 /\ s3' = s3
    BY <1>1, <2>1, <2>2 DEF s1, s2, s3, Taken
  <2> QED
    BY <1>1, <1>3, <2>1, <2>2, <2>3, SameEnds
<1> QED
  BY <1>2, <1>3

LEMMA ReadEnds ==
  ASSUME NoneIsApart, LoaderInv, EndInv, usb_read, UNCHANGED <<chip, interactive, toolVars, replugged>>
  PROVE  EndInv'
<1>1. pc = "read" /\ UNCHANGED <<port, out>>
  BY DEF usb_read
<1>2. CASE event = "none" /\ Fetch /\ UNCHANGED <<event, bank, tx, txcomp, configured>>
  <2>1. s1 = None /\ s1' = s2 /\ s2' = s3 /\ s3' = None /\ s2 # None
    BY <1>1, <1>2, FetchBanks
  <2>2. UNCHANGED <<chip, at, done, waiting, tx, inq, out, got, event>>
    BY <1>1, <1>2 DEF toolVars
  <2>3. Final' = Final
    BY <2>1, <2>2, FinalMoved
  <2>4. ProgramInv' /\ UnlockInv' /\ DoneInv'
    BY <2>2, <2>3, KeepEnds DEF EndInv
  <2>5. ~Heavy(None) /\ ~Starts(None) /\ None \notin Posted
    BY LightCommands DEF NoneIsApart
  <2>6. FlashInv' /\ FlowInv' /\ ReadyInv'
    BY <2>1, <2>2, <2>5 DEF EndInv, FlashInv, FlowInv, ReadyInv
  <2>7. ~Empty'
    BY <2>1 DEF Empty
  <2>8. StatusInv' /\ ReadInv'
    BY <2>1, <2>2, <2>5, <2>7 DEF EndInv, StatusInv, ReadInv
  <2> QED
    BY <2>4, <2>6, <2>8 DEF EndInv
<1>3. CASE event # "none"
  <2>1. ResetEndpoints
    BY <1>1, <1>3, EventIsReset DEF usb_read
  <2>2. pc' = "poll" /\ currentRcvBank' = currentRcvBank
    BY <1>3, <2>1 DEF usb_read, ResetEndpoints
  <2> QED
    BY <1>1, <2>1, <2>2, ResetEnds DEF Rest
<1> QED
  BY <1>2, <1>3 DEF usb_read

LEMMA ExecutePostedEnds ==
  ASSUME NoneIsApart, LoaderInv, EndInv, Execute, buf \in Posted, event = "none",
         UNCHANGED <<toolVars, replugged>>
  PROVE  EndInv'
<1>1. /\ pc = "samba" /\ samba(buf) /\ Respond(Answer(buf)) /\ buf' = None
      /\ UNCHANGED <<port, event, bank, rx, txcomp, configured, currentRcvBank>>
      /\ chip.slow \/ chip.busy = NoPage
  BY DEF Execute
<1>2. /\ s1 = buf /\ s1' = None /\ s2' = s2 /\ s3' = s3 /\ tx' = tx
      /\ chip' = Store(buf.at, buf.val) /\ ~(waiting' /\ Empty')
  BY <1>1, ExecutePosted
<1>3. at' = at /\ done' = done /\ event' = event
  BY <1>1 DEF toolVars
<1>4. Heavy(buf) => chip.busy = NoPage
  BY <1>1, <1>2 DEF EndInv, FlowInv
<1>5. /\ Settled' = Effect(Settled, buf)
      /\ chip'.slow = chip.slow /\ chip'.gpnvm = chip.gpnvm /\ chip'.locked = chip.locked
      /\ chip.locked = {} => chip'.locke = chip.locke
      /\ ~Starts(buf) => chip'.busy = chip.busy
  BY <1>2, <1>4, StoreSettled DEF LoaderInv
<1>6. Final' = Final
  BY <1>2, <1>5, FinalTaken
<1>7. ProgramInv' /\ UnlockInv' /\ DoneInv'
  BY <1>3, <1>6, KeepEnds DEF EndInv
<1>8. FlashInv'
  BY <1>5, KeepFlash DEF EndInv
<1>9. ~Heavy(None) /\ ~Starts(None) /\ \A c : Starts(c) => Heavy(c)
  BY LightCommands
<1>10. FlowInv' /\ ReadyInv'
  BY <1>2, <1>3, <1>5, <1>9 DEF EndInv, FlowInv, ReadyInv
<1>11. StatusInv'
  BY <1>2 DEF StatusInv
<1>12. ReadInv'
  BY <1>2, <1>3 DEF EndInv, ReadInv
<1> QED
  BY <1>7, <1>8, <1>10, <1>11, <1>12 DEF EndInv

LEMMA ExecuteAskedEnds ==
  ASSUME NoneIsApart, LoaderInv, EndInv, Execute, buf \in Asked, event = "none",
         UNCHANGED <<toolVars, replugged>>
  PROVE  EndInv'
<1>1. /\ pc = "samba" /\ samba(buf) /\ Respond(Answer(buf)) /\ buf' = None
      /\ UNCHANGED <<port, event, bank, rx, txcomp, configured, currentRcvBank>>
      /\ chip.slow \/ chip.busy = NoPage
  BY DEF Execute
<1>2. /\ s1 = Command /\ s2 = None /\ s3 = None /\ s1' = None /\ s2' = s2 /\ s3' = s3
      /\ waiting /\ inq = <<>> /\ tx' # None
      /\ chip' \in {chip, [chip EXCEPT !.locke = FALSE]}
      /\ at.s \in {"locks", "before", "after", "ready"} => tx'.word = FSR
      /\ at.s = "R" => /\ got = <<>> /\ tx'.word = chip.flash[at.page][0]
                       /\ \A i \in 1 .. Len(out') : out'[i].word = chip.flash[at.page][i]
  BY <1>1, ExecuteAsked
<1>3. at' = at /\ done' = done /\ event' = event /\ waiting' = waiting /\ inq' = inq /\ got' = got
  BY <1>1 DEF toolVars
<1>4. chip \in ChipType
  BY DEF LoaderInv, ChipInv
<1>5. /\ chip'.latch = chip.latch /\ chip'.flash = chip.flash /\ chip'.locked = chip.locked
      /\ chip'.slow = chip.slow /\ chip'.gpnvm = chip.gpnvm /\ chip'.busy = chip.busy /\ (~chip.locke => ~chip'.locke)
  BY <1>2, <1>4 DEF ChipType
<1>6. Settled' = Settled
  BY <1>5 DEF Settled
<1>7. s1 = buf /\ ~Heavy(s1) /\ ~Heavy(None) /\ ~Starts(None) /\ None \notin Posted /\ buf \notin Posted
  BY <1>1, LightCommands, CommandKinds DEF s1, Taken, NoneIsApart
<1>8. Effect(Settled, s1) = Settled
  BY <1>7, LightCommands
<1>9. Final' = Final
  BY <1>2, <1>6, <1>8, FinalTaken
<1>10. ProgramInv' /\ UnlockInv' /\ DoneInv'
  BY <1>3, <1>9, KeepEnds DEF EndInv
<1>11. FlashInv'
  BY <1>5, KeepFlash DEF EndInv
<1>12. FlowInv' /\ ReadyInv'
  BY <1>2, <1>3, <1>5, <1>7 DEF EndInv, FlowInv, ReadyInv
<1>13. ASSUME at.s \in Status PROVE Current(tx.word)'
  <2>1. Final = Settled
    BY <1>2, <1>8, LightCommands DEF Final
  <2>2. FSR.locks = Final.locked
    <3>1. CASE chip.slow
      <4>1. chip.locked = {}
        BY <3>1 DEF EndInv, FlashInv
      <4>2. Settled.locked \subseteq chip.locked
        BY SettledTypes DEF LoaderInv
      <4> QED
        BY <2>1, <4>1, <4>2 DEF FSR
    <3>2. CASE ~chip.slow
      <4>1. Settled = State(chip.latch, chip.flash, chip.locked)
        BY <1>1, <3>2 DEF Settled
      <4> QED
        BY <2>1, <4>1 DEF FSR, State
    <3> QED
      BY <3>1, <3>2
  <2>3. chip.slow => ~FSR.locke /\ ~FSR.gpnvm /\ (FSR.frdy => chip.busy = NoPage)
    BY DEF FSR, EndInv, FlashInv
  <2>4. tx'.word = FSR
    BY <1>2, <1>13 DEF Status
  <2> QED
    BY <1>5, <1>9, <2>2, <2>3, <2>4 DEF Current
<1>14. StatusInv'
  BY <1>2, <1>3, <1>13 DEF StatusInv
<1>15. ReadInv'
  <2>1. at \notin {Idle, Off}
    BY <1>2, NotWaiting
  <2>2. done' # "read"
    BY <1>3, <2>1 DEF EndInv, DoneInv
  <2>3. CASE at.s # "R"
    BY <1>3, <2>2, <2>3 DEF ReadInv
  <2>4. CASE at.s = "R"
    <3>1. /\ Len(got) = 0 /\ Len(inq) = 0 /\ tx'.word = chip.flash[at.page][0]
          /\ \A i \in 1 .. Len(out') : out'[i].word = chip.flash[at.page][i]
      BY <1>2, <2>4
    <3>2. out' \in Seq(Packets)
      BY <1>1, ExecuteAsked DEF LoaderInv, PortInv
    <3>3. \A i \in 1 .. Len(out') : 0 + 0 + 1 + i - 1 = i
      BY <3>2
    <3>4. chip.busy = NoPage
      BY <2>4 DEF EndInv, ReadInv
    <3>5. {s1', s2', s3'} \cap Posted = {}
      BY <1>2, <1>7
    <3> QED
      BY <1>2, <1>3, <1>5, <2>2, <3>1, <3>3, <3>4, <3>5 DEF ReadInv
  <2> QED
    BY <2>3, <2>4
<1> QED
  BY <1>10, <1>11, <1>12, <1>14, <1>15 DEF EndInv

LEMMA ExecuteEnds ==
  ASSUME NoneIsApart, LoaderInv, EndInv, Execute, UNCHANGED <<toolVars, replugged>>
  PROVE  EndInv'
<1>1. pc = "samba" /\ buf \in Posted \cup Asked
  BY DEF Execute, LoaderInv, PortInv
<1>2. CASE event # "none"
  <2>1. ResetEndpoints
    BY <1>1, <1>2, EventIsReset DEF Execute
  <2> QED
    BY <1>2, <2>1, ResetEnds DEF Execute, Rest
<1> QED
  BY <1>1, <1>2, ExecutePostedEnds, ExecuteAskedEnds

LEMMA FlashEnds ==
  ASSUME LoaderInv, EndInv, Flash
  PROVE  EndInv'
<1>1. Finish /\ UNCHANGED <<pc, buf, rx, currentRcvBank, event, tx, out, at, inq, waiting, got, done>>
  BY DEF Flash, usbVars, udpVars, toolVars
<1>2. s1' = s1 /\ s2' = s2 /\ s3' = s3
  BY <1>1 DEF s1, s2, s3, Taken
<1>3. /\ Settled' = Settled /\ chip'.busy = NoPage /\ chip.busy # NoPage
      /\ chip'.slow = chip.slow /\ chip'.gpnvm = chip.gpnvm /\ chip'.locked \subseteq chip.locked /\ chip'.locke = chip.locke
  BY <1>1, FinishSettled DEF LoaderInv, Finish
<1>4. Final' = Final
  BY <1>2, <1>3, FinalSame
<1>5. ProgramInv' /\ UnlockInv' /\ DoneInv'
  BY <1>1, <1>4, KeepEnds DEF EndInv
<1>6. FlashInv'
  BY <1>3, KeepFlash DEF EndInv
<1>7. FlowInv' /\ ReadyInv'
  BY <1>1, <1>2, <1>3 DEF EndInv, FlowInv, ReadyInv
<1>8. \A w : Current(w) => Current(w)'
  BY <1>3, <1>4 DEF Current
<1>9. StatusInv'
  BY <1>1, <1>2, <1>8 DEF EndInv, StatusInv, Empty
<1>10. ReadInv'
  BY <1>1, <1>3 DEF EndInv, ReadInv
<1> QED
  BY <1>5, <1>6, <1>7, <1>9, <1>10 DEF EndInv

\* The words of an answer go out one after the other.
LEMMA WriteEnds ==
  ASSUME NoneIsApart, LoaderInv, EndInv, usb_write, UNCHANGED <<chip, interactive, toolVars, replugged>>
  PROVE  EndInv'
<1>1. pc = "write" /\ UNCHANGED <<port, currentRcvBank, buf>>
  BY DEF usb_write
<1>2. UNCHANGED <<chip, at, done, waiting, inq, got>>
  BY DEF toolVars
<1>3. CASE txcomp
  <2>1. /\ s1' = s1 /\ s2' = s2 /\ s3' = s3 /\ tx = None /\ (at.s = "rw" => tx' = None)
    BY <1>1, <1>3, WriteNext DEF usb_write
  <2>2. event' = event /\ Respond(out) /\ (out = <<>> => out' = out)
    BY <1>3 DEF usb_write
  <2>3. CASE out = <<>>
    <3>1. tx' = tx /\ out' = out
      BY <2>2, <2>3 DEF Respond
    <3> QED
      BY <1>2, <2>1, <2>2, <3>1, SameEnds
  <2>4. CASE out # <<>>
    <3>1. tx' = Head(out) /\ out' = Tail(out)
      BY <2>2, <2>4 DEF Respond
    <3>2. out \in Seq(Packets) /\ None \notin Packets
      BY DEF LoaderInv, PortInv, NoneIsApart
    <3>3. /\ Len(out) \in Nat /\ Len(out) > 0 /\ Head(out) = out[1] /\ out[1] \in Packets
          /\ Len(Tail(out)) = Len(out) - 1 /\ \A i \in 1 .. Len(Tail(out)) : Tail(out)[i] = out[i + 1]
      BY <2>4, <3>2, HeadTailProperties
    <3>4. at.s = "R" \/ at.s = "off"
      BY <2>4 DEF LoaderInv, SessionInv, Resting, Sent, Silent, Answered, Answering, ToolInv, PortInv, Off, Step
    <3>5. Final' = Final
      <4>1. Settled' = Settled
        BY <1>2 DEF Settled
      <4> QED
        BY <2>1, <4>1, FinalSame
    <3>6. ProgramInv' /\ UnlockInv' /\ DoneInv'
      BY <1>2, <3>5, KeepEnds DEF EndInv
    <3>7. FlashInv' /\ FlowInv' /\ ReadyInv'
      BY <1>2, <2>1, <2>2 DEF EndInv, FlashInv, FlowInv, ReadyInv
    <3>8. StatusInv'
      BY <1>2, <3>4 DEF StatusInv, Status
    <3>9. done' # "read" \/ at' = Off
      BY <1>2, <3>4 DEF EndInv, DoneInv, Idle, Step
    <3>10. ASSUME at.s = "off" PROVE ReadInv'
      <4>1. at'.s # "R" /\ (done' # "read" \/ at' = Off)
        BY <1>2, <3>9, <3>10
      <4> QED
        BY <4>1 DEF ReadInv
    <3>11. ASSUME at.s = "R" PROVE ReadInv'
      <4>1. tx' # None
        BY <3>1, <3>2, <3>3
      <4>2. Len(got) \in Nat /\ Len(inq) \in Nat
        BY DEF LoaderInv, ToolInv
      <4>3. \A i \in 1 .. Len(out) : out[i].word = chip.flash[at.page][Len(got) + Len(inq) + 0 + i - 1]
        BY <2>1, <3>11 DEF EndInv, ReadInv
      <4>4. tx'.word = chip.flash[at.page][Len(got) + Len(inq)]
        <5>1. 1 \in 1 .. Len(out) /\ Len(got) + Len(inq) + 0 + 1 - 1 = Len(got) + Len(inq)
          BY <3>3, <4>2
        <5> QED
          BY <3>1, <3>3, <4>3, <5>1
      <4>5. ASSUME NEW i \in 1 .. Len(out')
            PROVE  out'[i].word = chip.flash[at.page][Len(got) + Len(inq) + 1 + i - 1]
        <5>1. i + 1 \in 1 .. Len(out) /\ out'[i] = out[i + 1]
              /\ Len(got) + Len(inq) + 0 + (i + 1) - 1 = Len(got) + Len(inq) + 1 + i - 1
          BY <3>1, <3>3, <4>2
        <5> QED
          BY <4>3, <5>1
      <4>6. /\ chip.busy = NoPage /\ {s1, s2, s3} \cap Posted = {}
            /\ \A i \in 1 .. Len(got) : got[i] = chip.flash[at.page][i - 1]
            /\ \A i \in 1 .. Len(inq) : inq[i].word = chip.flash[at.page][Len(got) + i - 1]
        BY <3>11 DEF EndInv, ReadInv
      <4>7. chip' = chip /\ at' = at /\ done' # "read" /\ inq' = inq /\ got' = got
        BY <1>2, <3>9, <3>11 DEF Off, Step
      <4>8. {s1', s2', s3'} \cap Posted = {}
        BY <2>1, <4>6
      <4> QED
        BY <4>1, <4>4, <4>5, <4>6, <4>7, <4>8 DEF ReadInv
    <3> QED
      BY <3>4, <3>6, <3>7, <3>8, <3>10, <3>11 DEF EndInv
  <2> QED
    BY <2>3, <2>4
<1>4. CASE ~txcomp
  <2>1. ResetEndpoints
    BY <1>1, <1>4, EventIsReset DEF usb_write
  <2>2. pc' = "poll"
    BY <1>4, <2>1 DEF usb_write, ResetEndpoints
  <2> QED
    BY <1>1, <2>1, <2>2, ResetEnds DEF Rest
<1> QED
  BY <1>3, <1>4

LEMMA ArriveEnds ==
  ASSUME NoneIsApart, LoaderInv, EndInv, Arrive
  PROVE  EndInv'
<1>1. /\ tx # None /\ tx' = None /\ inq' = Append(inq, tx)
      /\ UNCHANGED <<chip, event, out, at, waiting, got, done>>
  BY DEF Arrive, Receive
<1>2. s1' = s1 /\ s2' = s2 /\ s3' = s3
  BY ArriveStep
<1>3. Final' = Final
  <2>1. Settled' = Settled
    BY <1>1 DEF Settled
  <2> QED
    BY <1>2, <2>1, FinalSame
<1>4. ProgramInv' /\ UnlockInv' /\ DoneInv'
  BY <1>1, <1>3, KeepEnds DEF EndInv
<1>5. FlashInv' /\ FlowInv' /\ ReadyInv'
  BY <1>1, <1>2 DEF EndInv, FlashInv, FlowInv, ReadyInv
<1>6. inq \in Seq(Packets) /\ tx \in Packets /\ Len(got) \in Nat /\ Len(inq) \in Nat
  BY <1>1 DEF LoaderInv, ToolInv, PortInv
<1>7. /\ Len(inq') = Len(inq) + 1 /\ inq'[Len(inq) + 1] = tx
      /\ \A i \in 1 .. Len(inq) : inq'[i] = inq[i]
  BY <1>1, <1>6, AppendProperties
<1>8. \A i \in 1 .. Len(inq') : i \in 1 .. Len(inq) \/ i = Len(inq) + 1
  BY <1>6, <1>7
<1>9. StatusInv'
  <2>1. \A w : Current(w)' <=> Current(w)
    BY <1>1, <1>3 DEF Current
  <2> QED
    BY <1>1, <1>2, <1>7, <1>8, <2>1 DEF EndInv, StatusInv, Empty
<1>10. ReadInv'
  <2>1. CASE at.s # "R"
    BY <1>1, <1>2, <2>1 DEF EndInv, ReadInv
  <2>2. CASE at.s = "R"
    <3>1. done # "read"
      BY <2>2 DEF EndInv, DoneInv, Idle, Off, Step
    <3>2. /\ \A i \in 1 .. Len(inq) : inq[i].word = chip.flash[at.page][Len(got) + i - 1]
          /\ tx.word = chip.flash[at.page][Len(got) + Len(inq)]
          /\ \A i \in 1 .. Len(out) : out[i].word = chip.flash[at.page][Len(got) + Len(inq) + 1 + i - 1]
      BY <1>1, <2>2 DEF EndInv, ReadInv
    <3>3. ASSUME NEW i \in 1 .. Len(inq') PROVE inq'[i].word = chip.flash[at.page][Len(got) + i - 1]
      <4>1. CASE i \in 1 .. Len(inq)
        BY <1>7, <3>2, <4>1
      <4>2. CASE i = Len(inq) + 1
        <5>1. Len(got) + i - 1 = Len(got) + Len(inq) /\ inq'[i] = tx
          BY <1>6, <1>7, <4>2
        <5> QED
          BY <3>2, <5>1
      <4> QED
        BY <1>8, <4>1, <4>2
    <3>4. ASSUME NEW i \in 1 .. Len(out)
          PROVE  out[i].word = chip.flash[at.page][Len(got) + Len(inq') + 0 + i - 1]
      <4>1. Len(got) + Len(inq') + 0 + i - 1 = Len(got) + Len(inq) + 1 + i - 1
        BY <1>6, <1>7
      <4> QED
        BY <3>2, <4>1
    <3> QED
      BY <1>1, <1>2, <2>2, <3>1, <3>3, <3>4 DEF EndInv, ReadInv
  <2> QED
    BY <2>1, <2>2
<1> QED
  BY <1>4, <1>5, <1>9, <1>10 DEF EndInv

\* A command of the tool begins; it reads a flash that is at rest.
LEMMA AtRestIsEmpty == InFlight = <<>> => Empty
BY DEF InFlight, Held, Taken, Empty, s1, s2, s3

LEMMA StartEnds ==
  ASSUME NoneIsApart, LoaderInv, EndInv, UNCHANGED <<chip, event, tx, inq, out>>,
         s1' = s1, s2' = s2, s3' = s3, ~waiting', done' = "none",
         NEW s \in {"T", "off", "locks", "ready", "rw", "V", "R"}, NEW p \in Pages, at' = Step(s, p, 0),
         s = "ready" => p = 0,
         s = "R" => at = Idle /\ InFlight = <<>> /\ chip.busy = NoPage /\ got' = <<>>
  PROVE  EndInv'
<1>1. at'.s = s /\ at'.page = p /\ at'.word = 0
  BY DEF Step
<1>2. Final' = Final
  <2>1. Settled' = Settled
    BY DEF Settled
  <2> QED
    BY <2>1, FinalSame
<1>3. FlashInv' /\ FlowInv' /\ ReadyInv' /\ StatusInv' /\ DoneInv'
  BY <1>1 DEF EndInv, FlashInv, FlowInv, ReadyInv, StatusInv, DoneInv
<1>4. ProgramInv'
  <2>1. s = "ready" => \A q \in Pages : ~(q < p)
    BY DEF Pages
  <2> QED
    BY <1>1, <2>1 DEF ProgramInv
<1>5. UnlockInv'
  BY <1>1 DEF UnlockInv
<1>6. ReadInv'
  <2>1. CASE s # "R"
    BY <1>1, <2>1 DEF ReadInv
  <2>2. CASE s = "R"
    <3>1. Empty
      BY <2>2, AtRestIsEmpty
    <3>2. ~waiting /\ event # "reset"
      BY <2>2, NotWaiting DEF LoaderInv, ToolInv, PortInv, Idle, Off, Step
    <3>3. Silent
      BY <3>2 DEF LoaderInv, SessionInv, Resting, Sent, Answered
    <3>4. Len(got') = 0 /\ Len(inq') = 0 /\ tx' = None /\ Len(out') = 0
      BY <2>2, <3>3 DEF Silent
    <3>5. None \notin Posted
      BY DEF NoneIsApart
    <3> QED
      BY <1>1, <2>2, <3>1, <3>4, <3>5 DEF ReadInv, Empty
  <2> QED
    BY <2>1, <2>2
<1> QED
  BY <1>3, <1>4, <1>5, <1>6 DEF EndInv

LEMMA BeginEnds ==
  ASSUME NoneIsApart, LoaderInv, EndInv,
         \/ io_init \/ io_cleanup
         \/ \E s \in {"locks", "ready", "rw", "V"} : Begin(s, 0)
         \/ \E p \in Pages : Begin("R", p)
  PROVE  EndInv'
<1>1. Quiet
  BY DEF io_init, io_cleanup, Begin
<1>2. UNCHANGED <<chip, event, tx, out, pc, buf, rx, currentRcvBank>>
  BY <1>1 DEF Quiet, usbVars, udpVars
<1>3. s1' = s1 /\ s2' = s2 /\ s3' = s3
  BY <1>2 DEF s1, s2, s3, Taken
<1>4. Off = Step("off", 0, 0) /\ Idle = Step("idle", 0, 0) /\ Off # Idle
      /\ \A s \in {"T", "off", "locks", "ready", "rw", "V", "R"}, p \in Pages : Step(s, p, 0) # Idle
  BY DEF Off, Idle, Step
<1>5. 0 \in Pages
  BY PageZero
<1>6. CASE io_init
  <2>1. ~waiting /\ at' = Step("T", 0, 0) /\ done' = "none" /\ inq' = inq /\ waiting' = waiting
    BY <1>4, <1>5, <1>6, NotWaiting DEF io_init, Host, Ends
  <2> QED
    BY <1>2, <1>3, <1>5, <2>1, StartEnds
<1>7. CASE io_cleanup
  <2>1. ~waiting /\ at' = Step("off", 0, 0) /\ done' = "none" /\ inq' = inq /\ waiting' = waiting
    BY <1>4, <1>7, NotWaiting DEF io_cleanup, Host, Ends
  <2> QED
    BY <1>2, <1>3, <1>5, <2>1, StartEnds
<1>8. ASSUME NEW s \in {"locks", "ready", "rw", "V"}, Begin(s, 0) PROVE EndInv'
  <2>1. ~waiting /\ at' = Step(s, 0, 0) /\ done' = "none" /\ inq' = inq /\ waiting' = waiting
    BY <1>4, <1>5, <1>8, NotWaiting DEF Begin, Host, Ends
  <2> QED
    BY <1>2, <1>3, <1>5, <2>1, StartEnds
<1>9. ASSUME NEW p \in Pages, Begin("R", p) PROVE EndInv'
  <2>1. /\ ~waiting /\ at' = Step("R", p, 0) /\ done' = "none" /\ inq' = inq /\ waiting' = waiting
        /\ at = Idle /\ InFlight = <<>> /\ chip.busy = NoPage /\ got' = <<>>
    BY <1>4, <1>9, NotWaiting DEF Begin, Host, Ends
  <2> QED
    BY <1>2, <1>3, <2>1, StartEnds
<1> QED
  BY <1>6, <1>7, <1>8, <1>9

\* The tool sends a command: it is the last of those under way.
LEMMA SendFinal ==
  ASSUME NoneIsApart, LoaderInv, NEW c \in Posted \cup Asked, Send(c), LineOnly, at.s \notin {"off", "T"}
  PROVE  /\ s1' = s1 /\ s3 = None
         /\ \/ s2 = None /\ s2' = c /\ s3' = None
            \/ s2 # None /\ s2' = s2 /\ s3' = c
         /\ Final' = Effect(Final, c) /\ event = "none"
         /\ chip' = chip /\ event' = event /\ tx' = tx /\ out' = out
<1>1. UNCHANGED <<port, event, tx, txcomp, configured, currentRcvBank, buf, out, pc, chip>>
  BY DEF LineOnly
<1>2. InSync
  <2>1. event = "none"
    BY DEF Send
  <2> QED
    BY <2>1 DEF LoaderInv, BankInv, Lost
<1>3. /\ s1' = s1 /\ event = "none" /\ s3 = None
      /\ \/ s2 = None /\ s2' = c /\ s3' = None
         \/ s2 # None /\ s2' = s2 /\ s3' = c
  BY <1>1, <1>2, SendBanks
<1>4. Final' = Effect(Final, c)
  BY <1>1, <1>3, FinalGiven
<1> QED
  BY <1>1, <1>3, <1>4

\* The tool posts a write.
LEMMA PostedEnds ==
  ASSUME NoneIsApart, LoaderInv, EndInv, NEW c \in Posted, Send(c), LineOnly, at.s \notin {"off", "T"},
         ~waiting, waiting' = waiting, done' # "read", ProgramInv', UnlockInv', DoneInv',
         at'.s \in {"after", "word", "program", "ready", "idle"},
         chip.slow /\ Heavy(c) => at.s \in {"word", "program"},
         at'.s = "after" => ~chip.slow,
         at'.s \in {"word", "program"} => at.s = "word" /\ ~Starts(c)
  PROVE  EndInv'
<1>1. /\ s1' = s1 /\ s3 = None /\ chip' = chip /\ event' = event
      /\ \/ s2 = None /\ s2' = c /\ s3' = None
         \/ s2 # None /\ s2' = s2 /\ s3' = c
      /\ event = "none"
  BY SendFinal
<1>2. ~Heavy(None) /\ ~Starts(None) /\ \A x : Starts(x) => Heavy(x)
  BY LightCommands
<1>3. FlashInv'
  BY <1>1 DEF EndInv, FlashInv
<1>4. chip.slow /\ Heavy(c) => chip.busy = NoPage /\ ~Starts(s1) /\ ~Starts(s2)
  BY DEF EndInv, ReadyInv
<1>5. FlowInv'
  BY <1>1, <1>2, <1>4 DEF EndInv, FlowInv
<1>6. ReadyInv'
  <2>1. chip.slow /\ at'.s \in {"word", "program"}
          => chip.busy = NoPage /\ ~Starts(s1) /\ ~Starts(s2) /\ ~Starts(c)
    BY DEF EndInv, ReadyInv
  <2>2. chip.slow => at'.s \notin {"before", "unlock", "after", "mode"}
    OBVIOUS
  <2> QED
    BY <1>1, <1>2, <2>1, <2>2 DEF ReadyInv
<1>7. StatusInv' /\ ReadInv'
  BY DEF StatusInv, ReadInv
<1> QED
  BY <1>3, <1>5, <1>6, <1>7 DEF EndInv

LEMMA WriteMemEnds ==
  ASSUME NoneIsApart, LoaderInv, EndInv, NEW v \in Values, cmd_write_mem(v)
  PROVE  EndInv'
<1> DEFINE c == Cmd("W", Reg("ram"), v)
<1>1. /\ at.s = "idle" /\ at' = Idle /\ Idle.s = "idle" /\ done' = "none" /\ at = Idle
      /\ Send(c) /\ LineOnly /\ waiting' = waiting
  BY DEF cmd_write_mem, Host, Ends, Idle, Step
<1>2. c \in Posted /\ c.at.reg = "ram"
  BY DEF Posted, Cmd, Reg
<1> HIDE DEF c
<1>3. ~Heavy(c)
  BY <1>2, LightCommands
<1>4. ~waiting
  BY <1>1, NotWaiting
<1>5. ProgramInv' /\ UnlockInv' /\ DoneInv'
  BY <1>1 DEF ProgramInv, UnlockInv, DoneInv
<1> QED
  BY <1>1, <1>2, <1>3, <1>4, <1>5, PostedEnds

\* A word of a page goes into the latch.
LEMMA WordEnds ==
  ASSUME NoneIsApart, LoaderInv, EndInv, Post, at.s = "word"
  PROVE  EndInv'
<1> DEFINE c == Command
           p == at.page
           i == at.word
<1>1. Send(c) /\ LineOnly /\ waiting' = waiting /\ at' = AfterPost /\ done' = Ends(at')
  BY DEF Post, Host
<1>2. ToolInv /\ p \in Pages /\ i \in Words /\ at = Step("word", p, i) /\ ~waiting
  BY DEF LoaderInv, ToolInv, Asks
<1>3. File[p] \in [Words -> Values]
  BY <1>2, LoaderAssumption
<1>4. c = Cmd("W", Cell(p, i), File[p][i])
  BY DEF Command
<1> HIDE DEF c
<1>5. c \in Posted
  BY <1>2, <1>3, <1>4 DEF Posted
<1>6. ~Starts(c)
  BY <1>4 DEF Starts, Cmd, Cell
<1>7. Final' = State([Final.latch EXCEPT ![i] = File[p][i]], Final.flash, Final.locked)
  <2>1. Final' = Effect(Final, c)
    BY <1>1, <1>5, SendFinal
  <2> QED
    BY <1>2, <1>3, <1>4, <2>1, EffectForms
<1>8. Final.latch \in [Words -> Content]
  BY FinalTypes DEF LoaderInv, StateType
<1>9. /\ Final'.flash = Final.flash /\ Final'.locked = Final.locked
      /\ Final'.latch = [Final.latch EXCEPT ![i] = File[p][i]]
  BY <1>7 DEF State
<1>10. /\ Final'.latch \in [Words -> Content]
       /\ \A j \in Words : Final'.latch[j] = IF j = i THEN File[p][i] ELSE Final.latch[j]
  BY <1>2, <1>3, <1>8, <1>9 DEF Content
<1>11. \A q : Good(q)' <=> Good(q)
  BY <1>9 DEF Good
<1>12. /\ \A q \in Pages : q < p => Good(q)
       /\ \A j \in Words : j < i => Final.latch[j] = File[p][j]
  BY DEF EndInv, ProgramInv
<1>13. \A j \in Words : j <= i => Final'.latch[j] = File[p][j]
  <2> SUFFICES ASSUME NEW j \in Words, j <= i PROVE Final'.latch[j] = File[p][j]
    OBVIOUS
  <2>1. j = i \/ j < i
    BY <1>2 DEF Words
  <2> QED
    BY <1>10, <1>12, <2>1
<1>14. CASE i = NumWords - 1
  <2>1. at' = Step("program", p, 0)
    BY <1>1, <1>2, <1>14 DEF AfterPost, Step
  <2>2. at'.s = "program" /\ at'.page = p /\ at' # Idle
    BY <2>1 DEF Step, Idle
  <2>3. done' = "none"
    BY <1>1, <2>2 DEF Ends
  <2>4. Final'.latch = File[p]
    <3>1. \A j \in Words : j <= i
      BY <1>14, PageZero DEF Words
    <3>2. \A j \in Words : Final'.latch[j] = File[p][j]
      BY <1>13, <3>1
    <3> QED
      BY <1>3, <1>10, <3>2
  <2>5. ProgramInv' /\ UnlockInv' /\ DoneInv'
    BY <1>11, <1>12, <2>2, <2>3, <2>4 DEF ProgramInv, UnlockInv, DoneInv
  <2> QED
    BY <1>1, <1>2, <1>5, <1>6, <2>2, <2>3, <2>5, PostedEnds
<1>15. CASE i # NumWords - 1
  <2>1. at' = Step("word", p, i + 1)
    BY <1>1, <1>2, <1>15 DEF AfterPost, Step
  <2>2. at'.s = "word" /\ at'.page = p /\ at'.word = i + 1 /\ at' # Idle
    BY <2>1 DEF Step, Idle
  <2>3. done' = "none"
    BY <1>1, <2>2 DEF Ends
  <2>4. \A j \in Words : j < i + 1 => Final'.latch[j] = File[p][j]
    <3>1. \A j \in Words : j < i + 1 => j <= i
      BY <1>2 DEF Words
    <3> QED
      BY <1>13, <3>1
  <2>5. ProgramInv' /\ UnlockInv' /\ DoneInv'
    BY <1>11, <1>12, <2>2, <2>3, <2>4 DEF ProgramInv, UnlockInv, DoneInv
  <2> QED
    BY <1>1, <1>2, <1>5, <1>6, <2>2, <2>3, <2>5, PostedEnds
<1> QED
  BY <1>14, <1>15

\* The latch is the page of the file when the command to program it goes out.
LEMMA ProgramEnds ==
  ASSUME NoneIsApart, LoaderInv, EndInv, Post, at.s = "program"
  PROVE  EndInv'
<1> DEFINE c == Command
           p == at.page
<1>1. Send(c) /\ LineOnly /\ waiting' = waiting /\ at' = AfterPost /\ done' = Ends(at')
  BY DEF Post, Host
<1>2. p \in Pages /\ ~waiting
  BY DEF LoaderInv, ToolInv, Asks
<1>3. c = Cmd("W", Reg("fcr"), [op |-> "program", page |-> p])
  BY DEF Command
<1> HIDE DEF c
<1>4. c \in Posted
  BY <1>2, <1>3 DEF Posted
<1>5. Final' = IF p \in Final.locked THEN Final
               ELSE State(Latch(Erased), [Final.flash EXCEPT ![p] = Final.latch], Final.locked)
  <2>1. Final' = Effect(Final, c)
    BY <1>1, <1>4, SendFinal
  <2> QED
    BY <1>2, <1>3, <2>1, EffectForms
<1>6. Final.flash \in [Pages -> [Words -> Content]]
  BY FinalTypes DEF LoaderInv, StateType
<1>7. Final.latch = File[p] /\ \A q \in Pages : q < p => Good(q)
  BY DEF EndInv, ProgramInv
<1>8. \A q \in Pages : Good(q) \/ q = p => Good(q)'
  <2>1. CASE p \in Final.locked
    BY <1>5, <2>1 DEF Good
  <2>2. CASE p \notin Final.locked
    <3>1. Final'.flash = [Final.flash EXCEPT ![p] = Final.latch] /\ Final'.locked = Final.locked
      BY <1>5, <2>2 DEF State
    <3>2. \A q \in Pages : Final'.flash[q] = IF q = p THEN File[p] ELSE Final.flash[q]
      BY <1>2, <1>6, <1>7, <3>1
    <3> QED
      BY <3>1, <3>2 DEF Good
  <2> QED
    BY <2>1, <2>2
<1>9. \A q \in Pages : q <= p => Good(q)'
  <2>1. \A q \in Pages : q <= p => q < p \/ q = p
    BY <1>2 DEF Pages
  <2> QED
    BY <1>7, <1>8, <2>1
<1>10. CASE p = NumPages - 1
  <2>1. at' = Idle /\ Idle.s = "idle"
    BY <1>1, <1>10 DEF AfterPost, Idle, Step
  <2>2. done' = "flash"
    BY <1>1, <2>1 DEF Ends
  <2>3. \A q \in Pages : q <= p
    BY <1>10, PageZero DEF Pages
  <2>4. ProgramInv' /\ UnlockInv' /\ DoneInv'
    BY <1>9, <2>1, <2>2, <2>3 DEF ProgramInv, UnlockInv, DoneInv
  <2> QED
    BY <1>1, <1>2, <1>4, <2>1, <2>2, <2>4, PostedEnds
<1>11. CASE p # NumPages - 1
  <2>1. at' = Step("ready", p + 1, 0)
    BY <1>1, <1>11 DEF AfterPost
  <2>2. at'.s = "ready" /\ at'.page = p + 1 /\ at'.word = 0 /\ at' # Idle
    BY <2>1 DEF Step, Idle
  <2>3. done' = "none"
    BY <1>1, <2>2 DEF Ends
  <2>4. \A q \in Pages : q < p + 1 => q <= p
    BY <1>2 DEF Pages
  <2>5. ProgramInv' /\ UnlockInv' /\ DoneInv'
    BY <1>9, <2>2, <2>3, <2>4 DEF ProgramInv, UnlockInv, DoneInv
  <2> QED
    BY <1>1, <1>2, <1>4, <2>2, <2>3, <2>5, PostedEnds
<1> QED
  BY <1>10, <1>11

\* The lowest region that is locked is unlocked; at most one above 0 is left.
LEMMA UnlockEnds ==
  ASSUME NoneIsApart, LoaderInv, EndInv, Post, at.s \in {"unlock", "mode"}
  PROVE  EndInv'
<1> DEFINE c == Command
           p == at.page
<1>1. Send(c) /\ LineOnly /\ waiting' = waiting /\ at' = AfterPost /\ done' = Ends(at')
  BY DEF Post, Host
<1>2. p \in Pages /\ at = Step(at.s, p, at.word) /\ ~waiting
  BY DEF LoaderInv, ToolInv, Asks
<1>3. ~chip.slow
  BY DEF EndInv, ReadyInv
<1>4. CASE at.s = "unlock"
  <2>1. c = Cmd("W", Reg("fcr"), [op |-> "unlock", page |-> p])
    BY <1>4 DEF Command
  <2> HIDE DEF c
  <2>2. c \in Posted
    BY <1>2, <2>1 DEF Posted
  <2>3. Final'.locked = Final.locked \ {p}
    <3>1. Final' = Effect(Final, c)
      BY <1>1, <1>4, <2>2, SendFinal
    <3>2. Final' = State(Final.latch, Final.flash, Final.locked \ {p})
      BY <1>2, <2>1, <3>1, EffectForms
    <3> QED
      BY <3>2 DEF State
  <2>4. at' = Step("after", p, at.word)
    BY <1>1, <1>2, <1>4 DEF AfterPost, Step
  <2>5. at'.s = "after" /\ at'.page = p /\ at' # Idle
    BY <2>4 DEF Step, Idle
  <2>6. done' = "none"
    BY <1>1, <2>5 DEF Ends
  <2>7. Final'.locked = {} \/ (p = 0 /\ 0 \notin Final'.locked)
    <3>1. PICK m \in Pages : chip.locked \subseteq {0, m}
      BY DEF EndInv, FlashInv
    <3>2. Final.locked \subseteq {0, m}
      BY <3>1, FinalTypes DEF LoaderInv
    <3>3. p \in Final.locked /\ \A r \in Final.locked : p <= r
      BY <1>4 DEF EndInv, UnlockInv
    <3>4. 0 \in Final.locked => p = 0
      BY <1>2, <3>3 DEF Pages
    <3> QED
      BY <2>3, <3>2, <3>3, <3>4
  <2>8. ProgramInv' /\ UnlockInv' /\ DoneInv'
    BY <2>5, <2>6, <2>7 DEF ProgramInv, UnlockInv, DoneInv
  <2> QED
    BY <1>1, <1>2, <1>3, <1>4, <2>2, <2>5, <2>6, <2>8, PostedEnds
<1>5. CASE at.s = "mode"
  <2>1. c = Cmd("W", Reg("fmr"), None)
    BY <1>5 DEF Command
  <2> HIDE DEF c
  <2>2. c \in Posted /\ c.at.reg = "fmr"
    BY <2>1 DEF Posted, Cmd, Reg
  <2>3. ~Heavy(c)
    BY <2>2, LightCommands
  <2>4. Final' = Final
    <3>1. Final' = Effect(Final, c)
      BY <1>1, <1>5, <2>2, SendFinal
    <3> QED
      BY <2>3, <3>1, LightCommands
  <2>5. at' = Idle /\ Idle.s = "idle"
    BY <1>1, <1>5 DEF AfterPost, Idle, Step
  <2>6. done' = "unlock"
    BY <1>1, <1>5, <2>5 DEF Ends
  <2>7. Final.locked = {}
    BY <1>5 DEF EndInv, UnlockInv
  <2>8. ProgramInv' /\ UnlockInv' /\ DoneInv'
    BY <2>4, <2>5, <2>6, <2>7 DEF ProgramInv, UnlockInv, DoneInv
  <2> QED
    BY <1>1, <1>2, <1>3, <1>5, <2>2, <2>3, <2>5, <2>6, <2>8, PostedEnds
<1> QED
  BY <1>4, <1>5

LEMMA PostEnds ==
  ASSUME NoneIsApart, LoaderInv, EndInv, Post
  PROVE  EndInv'
BY WordEnds, ProgramEnds, UnlockEnds DEF Post, Posts

\* The tool sends a command that it waits for: the flash is left alone.
LEMMA AskEnds ==
  ASSUME NoneIsApart, LoaderInv, EndInv, Ask
  PROVE  EndInv'
<1> DEFINE c == Command
<1>1. at.s \in Asks /\ ~waiting /\ Send(c) /\ LineOnly
  BY DEF Ask
<1>2. UNCHANGED <<event, tx, currentRcvBank, buf, out, pc, chip, at, inq, got, done>>
  BY DEF Ask, LineOnly
<1>3. c \in Asked
  BY <1>1, AskedCommand DEF LoaderInv, ToolInv
<1> HIDE DEF c
<1>4. /\ ~Heavy(c) /\ ~Starts(c) /\ c \notin Posted /\ c # None
      /\ ~Heavy(None) /\ ~Starts(None) /\ None \notin Posted
  BY <1>3, LightCommands, CommandKinds DEF NoneIsApart
<1>5. Settled' = Settled
  BY <1>2 DEF Settled
<1>6. \A x : Effect(x, c) = x /\ Effect(x, None) = x
  BY <1>4, LightCommands
<1>7. /\ Final' = Final /\ ~Empty'
      /\ s1' = s1 /\ s2' \in {s2, c} /\ s3' \in {s3, c}
  <2>1. /\ s1' = s1
        /\ InSync => /\ s3 = None
                     /\ \/ s2 = None /\ s2' = c /\ s3' = None
                        \/ s2 # None /\ s2' = s2 /\ s3' = c
        /\ Lost /\ ~InSync => bank' = 1 /\ rx'[0] = c /\ rx'[1] = None
    BY <1>1, <1>2, <1>3, SendBanks
  <2>2. CASE InSync
    BY <1>2, <1>4, <1>6, <2>1, <2>2, FinalGiven DEF Empty
  <2>3. CASE ~InSync
    <3>1. Lost
      BY <1>1, <2>3 DEF LoaderInv, BankInv, Send
    <3>2. currentRcvBank = 1 /\ pc # "samba" /\ rx[1] = None /\ rx[0] = None
      BY <1>1, <3>1 DEF Lost
    <3>3. s1 = None /\ s2 = None /\ s3 = None
      BY <3>2 DEF s1, s2, s3, Taken
    <3>4. s1' = None /\ s2' = None /\ s3' = c
      BY <1>2, <2>1, <2>3, <3>1, <3>2, <3>3 DEF s2, s3
    <3>5. Final = Settled
      BY <1>6, <3>3 DEF Final
    <3>6. Final' = Settled
      BY <1>5, <1>6, <3>4 DEF Final
    <3> QED
      BY <1>4, <3>3, <3>4, <3>5, <3>6 DEF Empty
  <2> QED
    BY <2>2, <2>3
<1>8. ProgramInv' /\ UnlockInv' /\ DoneInv'
  BY <1>2, <1>7, KeepEnds DEF EndInv
<1>9. FlashInv' /\ FlowInv' /\ ReadyInv'
  BY <1>2, <1>4, <1>7 DEF EndInv, FlashInv, FlowInv, ReadyInv
<1>10. StatusInv'
  BY <1>7 DEF StatusInv
<1>11. ReadInv'
  <2>1. {s1, s2, s3} \cap Posted = {} => {s1', s2', s3'} \cap Posted = {}
    BY <1>4, <1>7
  <2> QED
    BY <1>2, <2>1 DEF EndInv, ReadInv
<1> QED
  BY <1>8, <1>9, <1>10, <1>11 DEF EndInv

\* The next region to unlock is the lowest that is locked.
LEMMA ScanFinds ==
  ASSUME NEW first \in Nat, NEW val, NEW locked \in SUBSET Pages,
         \A r \in Pages : r >= first /\ r - first \in val <=> r \in locked
  PROVE  \/ locked = {} /\ Scan(first, val) = Step("mode", 0, 0)
         \/ \E p \in locked : Scan(first, val) = Step("before", p, 0) /\ \A r \in locked : p <= r
<1>1. {r \in Regions : r >= first /\ r - first \in val} = locked
  BY DEF Regions
<1>2. Scan(first, val) = IF locked = {} THEN Step("mode", 0, 0) ELSE Step("before", Min(locked), 0)
  BY <1>1 DEF Scan
<1>3. CASE locked # {}
  <2>1. locked \in SUBSET Nat
    BY DEF Pages
  <2>2. Min(locked) \in locked /\ \A r \in locked : Min(locked) <= r
    BY <1>3, <2>1, MinOf
  <2> QED
    BY <1>2, <1>3, <2>2
<1> QED
  BY <1>2, <1>3

\* What the tool goes by is the word it has taken.
LEMMA AnswerEnds ==
  ASSUME NoneIsApart, LoaderInv, EndInv, NEW w, at.s \in Status, Current(w),
         chip' = chip, Final' = Final, s1' = None, s2' = None, s3' = None,
         at' = AfterAnswer(w), done' = Ends(at')
  PROVE  ProgramInv' /\ UnlockInv' /\ DoneInv' /\ ReadyInv' /\ at'.s # "R" /\ done' # "read"
<1>1. w.locks = Final.locked /\ (chip.slow => ~w.locke /\ ~w.gpnvm /\ (w.frdy => chip.busy = NoPage))
  BY DEF Current
<1>2. Final.locked \in SUBSET Pages /\ (chip.slow => Final.locked = {})
  <2>1. Final.locked \in SUBSET Pages /\ Final.locked \subseteq chip.locked
    BY FinalTypes DEF LoaderInv, StateType
  <2> QED
    BY <2>1 DEF EndInv, FlashInv
<1>3. at.page \in Pages /\ at = Step(at.s, at.page, at.word)
  BY DEF LoaderInv, ToolInv
<1>4. Idle.s = "idle"
  BY DEF Idle, Step
<1>5. ASSUME at' = Step("mode", 0, 0), Final.locked = {}, ~chip.slow
      PROVE  ProgramInv' /\ UnlockInv' /\ DoneInv' /\ ReadyInv' /\ at'.s # "R" /\ done' # "read"
  <2>1. at'.s = "mode" /\ at' # Idle
    BY <1>5 DEF Step, Idle
  <2>2. done' = "none"
    BY <2>1 DEF Ends
  <2> QED
    BY <1>5, <2>1, <2>2 DEF ProgramInv, UnlockInv, DoneInv, ReadyInv
<1>6. ASSUME NEW p \in Final.locked, at' = Step("before", p, 0), \A r \in Final.locked : p <= r
      PROVE  ProgramInv' /\ UnlockInv' /\ DoneInv' /\ ReadyInv' /\ at'.s # "R" /\ done' # "read"
  <2>1. at'.s = "before" /\ at'.page = p /\ at' # Idle /\ ~chip.slow
    BY <1>2, <1>6 DEF Step, Idle
  <2>2. done' = "none"
    BY <2>1 DEF Ends
  <2> QED
    BY <1>6, <2>1, <2>2 DEF ProgramInv, UnlockInv, DoneInv, ReadyInv
<1>7. ASSUME at' = at, at.s \in {"before", "after", "ready"}
      PROVE  ProgramInv' /\ UnlockInv' /\ DoneInv' /\ ReadyInv' /\ at'.s # "R" /\ done' # "read"
  <2>1. at' # Idle
    BY <1>4, <1>7
  <2>2. done' = "none"
    BY <2>1 DEF Ends
  <2>3. \A q : Good(q)' <=> Good(q)
    BY DEF Good
  <2>4. ProgramInv' /\ UnlockInv' /\ DoneInv'
    BY <1>7, <2>2, <2>3 DEF EndInv, ProgramInv, UnlockInv, DoneInv
  <2>5. ReadyInv'
    BY <1>7 DEF EndInv, ReadyInv
  <2> QED
    BY <1>7, <2>2, <2>4, <2>5
<1>8. CASE at.s = "locks"
  <2>1. CASE w.locks = {}
    <3>1. at' = Idle
      BY <1>8, <2>1 DEF AfterAnswer
    <3>2. done' = "unlock"
      BY <1>8, <3>1 DEF Ends
    <3> QED
      BY <1>1, <1>4, <2>1, <3>1, <3>2 DEF ProgramInv, UnlockInv, DoneInv, ReadyInv
  <2>2. CASE w.locks # {}
    <3>1. at' = Scan(0, w.locks)
      BY <1>8, <2>2 DEF AfterAnswer
    <3>2. \A r \in Pages : r >= 0 /\ r - 0 \in w.locks <=> r \in Final.locked
      <4>1. \A r \in Pages : r >= 0 /\ r - 0 = r
        BY DEF Pages
      <4> QED
        BY <1>1, <4>1
    <3>3. \E p \in Final.locked : at' = Step("before", p, 0) /\ \A r \in Final.locked : p <= r
      BY <1>1, <1>2, <2>2, <3>1, <3>2, ScanFinds
    <3> QED
      BY <1>6, <3>3
  <2> QED
    BY <2>1, <2>2
<1>9. CASE at.s = "before"
  <2>1. CASE Waits(w)
    BY <1>7, <1>9, <2>1 DEF AfterAnswer
  <2>2. CASE ~Waits(w)
    <3>1. at' = Step("unlock", at.page, at.word)
      BY <1>3, <1>9, <2>2 DEF AfterAnswer, Step
    <3>2. at'.s = "unlock" /\ at'.page = at.page /\ at' # Idle
      BY <3>1 DEF Step, Idle
    <3>3. done' = "none"
      BY <3>2 DEF Ends
    <3>4. ~chip.slow /\ at.page \in Final.locked /\ \A r \in Final.locked : at.page <= r
      BY <1>9 DEF EndInv, ReadyInv, UnlockInv
    <3> QED
      BY <3>2, <3>3, <3>4 DEF ProgramInv, UnlockInv, DoneInv, ReadyInv
  <2> QED
    BY <2>1, <2>2
<1>10. CASE at.s = "after"
  <2>1. CASE Waits(w)
    BY <1>7, <1>10, <2>1 DEF AfterAnswer
  <2>2. CASE ~Waits(w)
    <3>1. at' = Scan(at.page + 1, Shifted(w.locks))
      BY <1>10, <2>2 DEF AfterAnswer
    <3>2. ~chip.slow /\ (Final.locked = {} \/ (at.page = 0 /\ 0 \notin Final.locked))
      BY <1>10 DEF EndInv, ReadyInv, UnlockInv
    <3>3. \A r \in Pages : r >= at.page + 1 /\ r - (at.page + 1) \in Shifted(w.locks) <=> r \in Final.locked
      <4>1. CASE Final.locked = {}
        <5>1. Shifted(w.locks) = {}
          BY <1>1, <4>1 DEF Shifted
        <5> QED
          BY <4>1, <5>1
      <4>2. CASE at.page = 0 /\ 0 \notin Final.locked
        <5>1. ASSUME NEW r \in Pages, r \in Final.locked
              PROVE  r >= at.page + 1 /\ r - (at.page + 1) \in Shifted(w.locks)
          <6>1. r \in Nat /\ r # 0
            BY <4>2, <5>1 DEF Pages
          <6>2. r - 1 \in Shifted(w.locks)
            BY <1>1, <5>1, <6>1 DEF Shifted
          <6>3. at.page + 1 = 1 /\ r >= 1
            BY <4>2, <6>1
          <6> QED
            BY <6>2, <6>3
        <5>2. ASSUME NEW r \in Pages, r - (at.page + 1) \in Shifted(w.locks)
              PROVE  r \in Final.locked
          <6>1. at.page + 1 = 1
            BY <4>2
          <6>2. PICK q \in Final.locked : r - 1 = q - 1
            BY <1>1, <5>2, <6>1 DEF Shifted
          <6>3. r = q
            BY <1>2, <6>2 DEF Pages
          <6> QED
            BY <6>3
        <5> QED
          BY <5>1, <5>2
      <4> QED
        BY <3>2, <4>1, <4>2
    <3>4. at.page + 1 \in Nat
      BY <1>3 DEF Pages
    <3>5. \/ Final.locked = {} /\ at' = Step("mode", 0, 0)
          \/ \E p \in Final.locked : at' = Step("before", p, 0) /\ \A r \in Final.locked : p <= r
      BY <1>2, <3>1, <3>3, <3>4, ScanFinds
    <3> QED
      BY <1>5, <1>6, <3>2, <3>5
  <2> QED
    BY <2>1, <2>2
<1>11. CASE at.s = "ready"
  <2>1. CASE Waits(w)
    BY <1>7, <1>11, <2>1 DEF AfterAnswer
  <2>2. CASE ~Waits(w)
    <3>1. at' = Step("word", at.page, at.word)
      BY <1>3, <1>11, <2>2 DEF AfterAnswer, Step
    <3>2. at'.s = "word" /\ at'.page = at.page /\ at'.word = at.word /\ at' # Idle
      BY <3>1 DEF Step, Idle
    <3>3. done' = "none"
      BY <3>2 DEF Ends
    <3>4. at.word = 0 /\ \A q \in Pages : q < at.page => Good(q)
      BY <1>11 DEF EndInv, ProgramInv
    <3>5. \A j \in Words : ~(j < 0)
      BY DEF Words
    <3>6. \A q : Good(q)' <=> Good(q)
      BY DEF Good
    <3>7. ProgramInv' /\ UnlockInv' /\ DoneInv'
      BY <3>2, <3>3, <3>4, <3>5, <3>6 DEF ProgramInv, UnlockInv, DoneInv
    <3>8. chip.slow => chip.busy = NoPage
      BY <1>1, <1>2, <2>2 DEF Waits
    <3>9. ~Starts(s1') /\ ~Starts(s2') /\ ~Starts(s3')
      BY LightCommands
    <3>10. ReadyInv'
      BY <3>2, <3>8, <3>9 DEF ReadyInv
    <3> QED
      BY <3>2, <3>3, <3>7, <3>10
  <2> QED
    BY <2>1, <2>2
<1> QED
  BY <1>8, <1>9, <1>10, <1>11 DEF Status

\* The tool takes a packet: the words of a page are those of the flash, in
\* their order.
LEMMA TakeEnds ==
  ASSUME NoneIsApart, LoaderInv, EndInv, io_read
  PROVE  EndInv'
<1>1. waiting /\ inq # <<>> /\ inq' = Tail(inq) /\ at.s \in Asks /\ event # "reset"
  BY DEF io_read, LoaderInv, ToolInv, PortInv, Off, Step, Asks
<1>2. UNCHANGED <<event, rx, tx, currentRcvBank, buf, out, pc, chip>>
  BY DEF io_read, Quiet, usbVars, udpVars
<1>3. Empty
  BY <1>1 DEF LoaderInv, SessionInv, Resting, Sent, Silent, Answered
<1>4. s1' = s1 /\ s2' = s2 /\ s3' = s3 /\ s1 = None /\ s2 = None /\ s3 = None
  BY <1>2, <1>3 DEF s1, s2, s3, Taken, Empty
<1>5. Final' = Final
  <2>1. Settled' = Settled
    BY <1>2 DEF Settled
  <2> QED
    BY <1>4, <2>1, FinalSame
<1>6. inq \in Seq(Packets) /\ got \in Seq(Replies) /\ Len(got) \in Nat /\ Len(inq) \in Nat /\ Len(inq) # 0
  BY <1>1, EmptySeq DEF LoaderInv, ToolInv
<1>7. /\ Head(inq) = inq[1] /\ inq[1] \in Packets /\ Len(inq') = Len(inq) - 1
      /\ \A j \in 1 .. Len(inq') : inq'[j] = inq[j + 1]
  BY <1>1, <1>6, HeadTailProperties
<1> DEFINE w == Head(inq).word
<1>8. /\ got' = IF at.s = "R" THEN Append(got, w) ELSE got
      /\ IF at.s = "R" /\ Len(got') < NumWords THEN UNCHANGED <<at, waiting, done>>
         ELSE waiting' = FALSE /\ at' = AfterAnswer(w) /\ done' = Ends(at')
  BY DEF io_read, Host
<1>9. w = inq[1].word /\ w \in Replies /\ 1 \in 1 .. Len(inq)
  BY <1>6, <1>7 DEF Packets
<1> HIDE DEF w
<1>10. at # Idle /\ done = "none" /\ Idle.s = "idle" /\ Off.s = "off"
  BY <1>1, NotWaiting DEF EndInv, DoneInv, Idle, Off, Step
<1>11. FlashInv' /\ FlowInv'
  BY <1>2, <1>4 DEF EndInv, FlashInv, FlowInv
<1>12. CASE at.s \in Status
  <2>1. waiting' = FALSE /\ at' = AfterAnswer(w) /\ done' = Ends(at')
    BY <1>8, <1>12 DEF Status
  <2>2. Current(w)
    BY <1>1, <1>3, <1>9, <1>12 DEF EndInv, StatusInv
  <2>3. ProgramInv' /\ UnlockInv' /\ DoneInv' /\ ReadyInv' /\ at'.s # "R" /\ done' # "read"
    BY <1>2, <1>4, <1>5, <1>12, <2>1, <2>2, AnswerEnds
  <2>4. StatusInv' /\ ReadInv'
    BY <2>1, <2>3 DEF StatusInv, ReadInv
  <2> QED
    BY <1>11, <2>3, <2>4 DEF EndInv
<1>13. CASE at.s \in {"T", "N", "V", "id", "rw"}
  <2>1. waiting' = FALSE /\ at' = AfterAnswer(w) /\ done' = Ends(at')
    BY <1>8, <1>13
  <2>2. at' \in {Step("N", 0, 0), Step("id", 0, 0), Idle, Off} /\ done' = "none"
    BY <1>13, <2>1 DEF AfterAnswer, Ends
  <2>3. at'.s \in {"N", "id", "idle", "off"}
    BY <1>10, <2>2 DEF Step
  <2>4. ProgramInv' /\ UnlockInv' /\ DoneInv' /\ ReadyInv' /\ StatusInv' /\ ReadInv'
    BY <2>1, <2>2, <2>3 DEF ProgramInv, UnlockInv, DoneInv, ReadyInv, StatusInv, ReadInv
  <2> QED
    BY <1>11, <2>4 DEF EndInv
<1>14. CASE at.s = "R"
  <2> DEFINE p == at.page
  <2>1. /\ chip.busy = NoPage /\ p \in Pages
        /\ \A i \in 1 .. Len(got) : got[i] = chip.flash[p][i - 1]
        /\ \A i \in 1 .. Len(inq) : inq[i].word = chip.flash[p][Len(got) + i - 1]
        /\ tx # None => tx.word = chip.flash[p][Len(got) + Len(inq)]
        /\ \A i \in 1 .. Len(out) :
             out[i].word = chip.flash[p][Len(got) + Len(inq) + (IF tx = None THEN 0 ELSE 1) + i - 1]
    BY <1>14 DEF EndInv, ReadInv, LoaderInv, ToolInv
  <2>2. {s1', s2', s3'} \cap Posted = {}
    BY <1>4 DEF NoneIsApart
  <2>3. /\ Len(got') = Len(got) + 1 /\ got'[Len(got) + 1] = w
        /\ \A i \in 1 .. Len(got) : got'[i] = got[i]
    BY <1>6, <1>8, <1>9, <1>14, AppendProperties
  <2>4. \A i \in 1 .. Len(got') : got'[i] = chip.flash[p][i - 1]
    <3>1. w = chip.flash[p][Len(got)]
      <4>1. Len(got) + 1 - 1 = Len(got)
        BY <1>6
      <4> QED
        BY <1>9, <2>1, <4>1
    <3>2. \A i \in 1 .. Len(got') : i \in 1 .. Len(got) \/ (i = Len(got) + 1 /\ i - 1 = Len(got))
      BY <1>6, <2>3
    <3> QED
      BY <2>1, <2>3, <3>1, <3>2
  <2>5. CASE Len(got') < NumWords
    <3>1. at' = at /\ waiting' = waiting /\ done' = done
      BY <1>8, <1>14, <2>5
    <3>2. ProgramInv' /\ UnlockInv' /\ DoneInv'
      BY <1>5, <3>1, KeepEnds DEF EndInv
    <3>3. ReadyInv' /\ StatusInv'
      BY <1>2, <1>4, <1>14, <3>1 DEF EndInv, ReadyInv, StatusInv, Status
    <3>4. Len(got') + Len(inq') = Len(got) + Len(inq)
      BY <1>6, <1>7, <2>3
    <3>5. ASSUME NEW i \in 1 .. Len(inq') PROVE inq'[i].word = chip.flash[p][Len(got') + i - 1]
      <4>1. i + 1 \in 1 .. Len(inq) /\ Len(got) + (i + 1) - 1 = Len(got') + i - 1
        BY <1>6, <1>7, <2>3
      <4> QED
        BY <1>7, <2>1, <4>1
    <3> QED
      BY <1>2, <1>10, <1>11, <2>1, <2>2, <2>4, <3>1, <3>2, <3>3, <3>4, <3>5 DEF EndInv, ReadInv
  <2>6. CASE ~(Len(got') < NumWords)
    <3>1. waiting' = FALSE /\ at' = Idle /\ done' = "read"
      BY <1>8, <1>14, <2>6 DEF AfterAnswer, Ends
    <3>2. \A i \in Words : got'[i + 1] = chip.flash[p][i]
      <4> SUFFICES ASSUME NEW i \in Words PROVE got'[i + 1] = chip.flash[p][i]
        OBVIOUS
      <4>1. i + 1 \in 1 .. Len(got') /\ (i + 1) - 1 = i
        BY <1>6, <2>3, <2>6, PageZero DEF Words
      <4>2. got'[i + 1] = chip.flash[p][(i + 1) - 1]
        BY <2>4, <4>1
      <4> QED
        BY <4>1, <4>2
    <3>3. ReadInv'
      BY <1>2, <1>10, <2>1, <2>2, <3>1, <3>2 DEF ReadInv
    <3>4. ProgramInv' /\ UnlockInv' /\ DoneInv' /\ ReadyInv' /\ StatusInv'
      BY <1>10, <3>1 DEF ProgramInv, UnlockInv, DoneInv, ReadyInv, StatusInv
    <3> QED
      BY <1>11, <3>3, <3>4 DEF EndInv
  <2> QED
    BY <2>5, <2>6
<1> QED
  BY <1>1, <1>12, <1>13, <1>14 DEF Asks, Status

\* The line is unplugged, or the power goes.
LEMMA LossEnds ==
  ASSUME NoneIsApart, LoaderInv, EndInv, Plug \/ PowerCycle
  PROVE  EndInv'
<1>1. at' = Off /\ waiting' = FALSE
  BY DEF Plug, PowerCycle, SessionLost
<1>2. CASE Plug
  <2>1. chip' = chip /\ event' = "reset"
    BY <1>2 DEF Plug, BusReset
  <2>2. FlashInv'
    BY <2>1 DEF EndInv, FlashInv
  <2> QED
    BY <1>1, <2>1, <2>2, OffEnds
<1>3. CASE PowerCycle
  <2>1. s1' = None /\ s2' = None /\ s3' = None
    BY <1>3, PowerStep
  <2> DEFINE f == IF chip.busy.op # "program" THEN chip.flash
                  ELSE [chip.flash EXCEPT ![chip.busy.page] = Latch(Junk)]
             l == Latch(Erased)
  <2>2. PICK v \in Values :
          chip' = [chip EXCEPT !.ram = v, !.latch = l, !.busy = NoPage, !.locke = FALSE, !.flash = f]
    BY <1>3 DEF PowerCycle
  <2> HIDE DEF f, l
  <2>3. chip'.slow = chip.slow /\ chip'.gpnvm = chip.gpnvm /\ chip'.locked = chip.locked /\ chip'.locke = FALSE
    BY <2>2 DEF LoaderInv, ChipInv, ChipType
  <2>4. FlashInv'
    BY <2>3, KeepFlash DEF EndInv
  <2> QED
    BY <1>1, <2>1, <2>4, OffEnds DEF Empty
<1> QED
  BY <1>2, <1>3

LEMMA EndInit ==
  ASSUME NoneIsApart, Programmable, Init
  PROVE  EndInv
<1>1. PICK c \in Chips : chip.slow = c.slow /\ chip.gpnvm = c.gpnvm /\ chip.locked = c.locked /\ chip.locke = FALSE
  BY DEF Init
<1>2. FlashInv
  BY <1>1 DEF Programmable, FlashInv
<1>3. at = Off /\ ~waiting /\ done = "none" /\ Off.s = "off"
  BY DEF Init, Off, Step
<1>4. s1 = None /\ s2 = None /\ s3 = None
  BY DEF Init, PoweredUp, NoPackets, s1, s2, s3, Taken
<1>5. FlowInv
  BY <1>4, LightCommands DEF FlowInv
<1>6. ReadyInv /\ StatusInv /\ ProgramInv /\ UnlockInv /\ ReadInv /\ DoneInv
  BY <1>3 DEF ReadyInv, StatusInv, ProgramInv, UnlockInv, ReadInv, DoneInv
<1> QED
  BY <1>2, <1>5, <1>6 DEF EndInv

LEMMA EndNext ==
  ASSUME NoneIsApart, LoaderInv, EndInv, [Next]_loaderVars
  PROVE  EndInv'
<1>1. ASSUME Tool PROVE EndInv'
  BY <1>1, BeginEnds, WriteMemEnds, PostEnds, AskEnds, TakeEnds DEF Tool
<1>2. ASSUME Board PROVE EndInv'
  BY <1>2, PollEnds, ReadEnds, WriteEnds, ExecuteEnds DEF Board, Firmware
<1>3. ASSUME Enumerate PROVE EndInv'
  <2>1. s1' = s1 /\ s2' = s2 /\ s3' = s3
    BY <1>3, EnumerateStep
  <2>2. UNCHANGED <<chip, at, done, waiting, tx, inq, out, got>> /\ event # "reset"
    BY <1>3 DEF Enumerate, SetConfiguration, toolVars
  <2> QED
    BY <2>1, <2>2, SameEnds
<1>4. ASSUME UNCHANGED loaderVars PROVE EndInv'
  <2>1. UNCHANGED <<chip, at, done, waiting, tx, inq, out, got, event, rx, buf, pc, currentRcvBank>>
    BY <1>4 DEF loaderVars, usbVars, udpVars, toolVars
  <2>2. s1' = s1 /\ s2' = s2 /\ s3' = s3
    BY <2>1 DEF s1, s2, s3, Taken
  <2> QED
    BY <2>1, <2>2, SameEnds
<1> QED
  BY <1>1, <1>2, <1>3, <1>4, FlashEnds, ArriveEnds, LossEnds DEF Next

\* In a session that is not cut short, whatever earlier sessions left behind, a
\* command of the tool that has ended without an error has done what it is for:
\* flash (cmd.c, manual_flash) leaves the words of the file in every page that
\* is not locked, unlock leaves no region locked, and a page that is read is a
\* page of the flash.  Programmable keeps away the two defects of cmd.c.
THEOREM AlwaysEndsAsAsked ==
  ASSUME NoneIsApart, Programmable
  PROVE  Spec => []EndsAsAsked
<1>1. Init => LoaderInv /\ EndInv
  BY LoaderInit, EndInit
<1>2. LoaderInv /\ EndInv /\ [Next]_loaderVars => (LoaderInv /\ EndInv)'
  BY LoaderNext, EndNext
<1>3. LoaderInv /\ EndInv => EndsAsAsked
  <2> SUFFICES ASSUME LoaderInv, EndInv PROVE EndsAsAsked
    OBVIOUS
  <2>1. AtRest => Final = State(chip.latch, chip.flash, chip.locked)
    <3> SUFFICES ASSUME AtRest PROVE Final = State(chip.latch, chip.flash, chip.locked)
      OBVIOUS
    <3>1. s1 = None /\ s2 = None /\ s3 = None
      BY AtRestIsEmpty DEF AtRest, Empty
    <3>2. Settled = State(chip.latch, chip.flash, chip.locked)
      BY DEF AtRest, Settled
    <3>3. \A x : Effect(x, None) = x
      BY LightCommands
    <3> QED
      BY <3>1, <3>2, <3>3 DEF Final
  <2>2. AtRest => Final.flash = chip.flash /\ Final.locked = chip.locked
    BY <2>1 DEF State
  <2> SUFFICES ASSUME at # Off PROVE FlashHoldsFile /\ UnlocksAll /\ ReadsBack
    BY DEF EndsAsAsked
  <2>3. FlashHoldsFile
    BY <2>2 DEF FlashHoldsFile, EndInv, ProgramInv, Good
  <2>4. UnlocksAll
    BY <2>2 DEF UnlocksAll, EndInv, UnlockInv
  <2>5. ReadsBack
    BY DEF ReadsBack, EndInv, ReadInv
  <2> QED
    BY <2>3, <2>4, <2>5
<1> QED
  BY <1>1, <1>2, <1>3, PTL DEF Spec
=============================================================================
