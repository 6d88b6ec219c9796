------------------------------- MODULE Loader -------------------------------
(***************************************************************************)
(* The boot loader and the tool on the PC, sam7utils: a session of the     *)
(* tool opens the line, brings the monitor to a known state (samba_init),  *)
(* and then reads and writes words, unlocks and programs the flash, and    *)
(* reads it back.  The board may lose its power and the line be unplugged  *)
(* at any moment.  On power-up the loader starts the firmware if there is  *)
(* one, unless a key is typed.                                             *)
(***************************************************************************)
EXTENDS Usb, FiniteSets, FiniteSetsExt

CONSTANTS
  Chips,  \* records: the locked regions, whether the flash is slow, and
          \* whether its status has SECURITY or a GPNVM bit set
  Values, \* of the cell of RAM
  File    \* the words of the file that the tool programs

ASSUME LoaderAssumption ==
  /\ File \in [Pages -> [Words -> Values]]
  /\ Chips \subseteq [locked : SUBSET Pages, slow : BOOLEAN, gpnvm : BOOLEAN]

VARIABLES
  at,        \* the tool: step of its command, page, word
  waiting,   \* it reads
  inq,       \* packets that have arrived for it
  seen, got, \* the word and the page that it read last
  done,      \* the command that it has completed last
  replugged  \* a bus reset has come since power-up; only the properties look at it

toolVars   == <<at, waiting, inq, seen, got, done>>
loaderVars == <<chip, interactive, usbVars, toolVars, replugged>>

Regions == Pages
Step(s, p, i) == [s |-> s, page |-> p, word |-> i]
Idle == Step("idle", 0, 0)
Off  == Step("off", 0, 0)

-----------------------------------------------------------------------------
(* Which command each step gives, and what follows it.  The file is whole  *)
(* pages (cmd.c sends whatever buff holds behind the end of a short one).  *)
Command ==
  CASE at.s \in {"T", "N", "V"} -> Cmd(at.s, Reg("none"), None)
    [] at.s = "id"      -> Cmd("w", Reg("cidr"), None)
    [] at.s \in {"locks", "before", "after", "ready"} -> Cmd("w", Reg("fsr"), None)
    [] at.s = "unlock"  -> Cmd("W", Reg("fcr"), [op |-> "unlock", page |-> at.page])
    [] at.s = "mode"    -> Cmd("W", Reg("fmr"), None)
    [] at.s = "word"    -> Cmd("W", Cell(at.page, at.word), File[at.page][at.word])
    [] at.s = "program" -> Cmd("W", Reg("fcr"), [op |-> "program", page |-> at.page])
    [] at.s = "rw"      -> Cmd("w", Reg("ram"), None)
    [] at.s = "R"       -> Cmd("R", Cell(at.page, 0), None)

Posts == {"unlock", "mode", "word", "program"}
Asks  == {"T", "N", "V", "id", "locks", "before", "after", "ready", "rw", "R"}

\* Mutant: no wait.
WaitsNever(fsr) == FALSE

\* while (!val & 0x1): as C reads it, while val is 0.
Waits(fsr) == ~fsr.frdy /\ ~fsr.locke /\ ~fsr.gpnvm /\ fsr.locks = {}

\* Mutant: one region too many.
ScanOver(first, val) ==
  LET hits == {r \in 0 .. NumPages : r >= first /\ (r - first \in val \/ r = NumPages)}
  IN IF hits = {} THEN Step("mode", 0, 0) ELSE Step("before", Min(hits), 0)

\* cmd_unlock_regions, for (i = first; ...): the next region whose bit is at
\* the low end of val when its turn comes, and what follows the last.
Scan(first, val) ==
  LET hits == {r \in Regions : r >= first /\ r - first \in val}
  IN IF hits = {} THEN Step("mode", 0, 0) ELSE Step("before", Min(hits), 0)
\* val >>= 1.
Shifted(val) == {r - 1 : r \in val \ {0}}

\* The step after a posted write.
AfterPost ==
  CASE at.s = "unlock" -> [at EXCEPT !.s = "after"]
    [] at.s = "word"   -> IF at.word = NumWords - 1 THEN [at EXCEPT !.s = "program", !.word = 0]
                          ELSE [at EXCEPT !.word = @ + 1]
    [] at.s = "program" -> IF at.page = NumPages - 1 THEN Idle ELSE Step("ready", at.page + 1, 0)
    [] OTHER -> Idle

\* The step after an answer whose word is w.
AfterAnswer(w) ==
  CASE at.s = "T"      -> Step("N", 0, 0)
    [] at.s = "N"      -> Step("id", 0, 0)
    [] at.s = "id"     -> IF w = ChipId THEN Idle ELSE Off
    [] at.s = "locks"  -> IF w.locks = {} THEN Idle ELSE Scan(0, w.locks)
    [] at.s = "before" -> IF Waits(w) THEN at ELSE [at EXCEPT !.s = "unlock"]
    [] at.s = "after"  -> IF Waits(w) THEN at ELSE Scan(at.page + 1, Shifted(w.locks))
    [] at.s = "ready"  -> IF Waits(w) THEN at ELSE [at EXCEPT !.s = "word"]
    [] OTHER           -> Idle

Ends(next) ==
  IF next # Idle THEN "none"
  ELSE IF at.s \in {"locks", "mode"} THEN "unlock"
  ELSE IF at.s = "program" THEN "flash" ELSE IF at.s = "R" THEN "read" ELSE "none"

-----------------------------------------------------------------------------
(* The tool.                                                               *)
Host(next) == at' = next /\ done' = Ends(next)
LineOnly == UNCHANGED <<port, event, tx, txcomp, configured, currentRcvBank, buf, out, pc,
                        chip, interactive, replugged>>
Quiet == UNCHANGED <<chip, interactive, usbVars, replugged>>

\* io_init opens the device, which is there when the PC has configured it.
io_init ==
  /\ at = Off /\ port = "up" /\ Host(Step("T", 0, 0))
  /\ Quiet /\ UNCHANGED <<waiting, inq, seen, got>>

io_cleanup == at = Idle /\ Host(Off) /\ Quiet /\ UNCHANGED <<waiting, inq, seen, got>>

\* The operator gives a command.  He reads the flash back when it is at rest.
Begin(s, p) ==
  /\ at = Idle /\ Host(Step(s, p, 0)) /\ seen' = None /\ got' = <<>>
  /\ (s = "R" => InFlight = <<>> /\ chip.busy = NoPage)
  /\ Quiet /\ UNCHANGED <<waiting, inq>>

cmd_write_mem(v) ==
  /\ at = Idle /\ Send(Cmd("W", Reg("ram"), v)) /\ Host(Idle) /\ seen' = None /\ got' = <<>>
  /\ LineOnly /\ UNCHANGED <<waiting, inq>>

Post ==
  /\ at.s \in Posts /\ Send(Command) /\ Host(AfterPost)
  /\ LineOnly /\ UNCHANGED <<waiting, inq, seen, got>>

Ask ==
  /\ at.s \in Asks /\ ~waiting /\ Send(Command) /\ waiting' = TRUE
  /\ LineOnly /\ UNCHANGED <<at, inq, seen, got, done>>

\* io_read returns; samba_recv_file reads until it has the page.
io_read ==
  /\ waiting /\ inq # <<>> /\ inq' = Tail(inq) /\ Quiet
  /\ LET w == Head(inq).word IN
     /\ seen' = IF at.s = "rw" THEN w ELSE seen
     /\ got'  = IF at.s = "R" THEN Append(got, w) ELSE got
     /\ IF at.s = "R" /\ Len(got') < NumWords THEN UNCHANGED <<at, waiting, done>>
        ELSE waiting' = FALSE /\ Host(AfterAnswer(w))

Tool ==
  \/ \E s \in {"locks", "ready", "rw", "V"} : Begin(s, 0)
  \/ \E p \in Pages : Begin("R", p)
  \/ \E v \in Values : cmd_write_mem(v)
  \/ io_init \/ io_cleanup \/ Post \/ Ask \/ io_read

-----------------------------------------------------------------------------
(* The line and the power.                                                 *)
Arrive ==
  /\ at # Off /\ Receive /\ inq' = Append(inq, tx)
  /\ UNCHANGED <<chip, interactive, port, event, bank, rx, configured, currentRcvBank, buf, out,
                 pc, at, waiting, seen, got, done, replugged>>

\* The line is hung up under the tool.  From then on every write fails, and
\* with it the command that is under way and every later one: the tool is off
\* until it is started again.  But a read that is under way returns 0 bytes,
\* which io_send_cmd and samba_recv_file take for an answer: a command that
\* ends with it can end without an error, and what it has read is rubbish.
SessionLost ==
  /\ at' = Off /\ waiting' = FALSE /\ inq' = <<>> /\ seen' = None /\ got' = <<>>
  /\ done' \in (IF at \in {Idle, Off} THEN {done} ELSE {"none"})
               \cup (IF waiting THEN {Ends(Idle)} ELSE {})

Plug ==
  /\ pc # "booted" /\ BusReset /\ SessionLost /\ replugged' = (replugged \/ port # "gone")
  /\ UNCHANGED <<chip, interactive, bank, rx, tx, txcomp, configured, currentRcvBank, buf, out, pc>>

Enumerate ==
  /\ SetConfiguration
  /\ UNCHANGED <<chip, interactive, bank, rx, tx, txcomp, configured, currentRcvBank, buf, out, pc,
                 toolVars, replugged>>

\* main(): the firmware in region 1 is started unless a key comes.
programmed(region, flash) == flash[region][0] # Erased
Boots(flash) == pc' \in IF programmed(1, flash) THEN {"booted", "poll"} ELSE {"poll"}

\* A page under way is spoilt, the latch and the RAM forget.
PowerCycle ==
  /\ PowerUp /\ SessionLost /\ replugged' = FALSE
  /\ \E v \in Values :
       chip' = [chip EXCEPT !.ram = v, !.latch = Latch(Erased), !.busy = NoPage, !.locke = FALSE,
                            !.flash = IF chip.busy.op # "program" THEN @
                                      ELSE [@ EXCEPT ![chip.busy.page] = Latch(Junk)]]
  /\ Boots(chip'.flash)

Init ==
  /\ \E c \in Chips, v \in Values :
       chip = [ram |-> v, latch |-> Latch(Erased), flash |-> [p \in Pages |-> Latch(Erased)],
               locked |-> c.locked, slow |-> c.slow, gpnvm |-> c.gpnvm, busy |-> NoPage, locke |-> FALSE]
  /\ PoweredUp /\ pc = "poll"
  /\ at = Off /\ waiting = FALSE /\ inq = <<>> /\ seen = None /\ got = <<>>
  /\ done = "none" /\ replugged = FALSE

Board == Firmware /\ UNCHANGED <<toolVars, replugged>>
Flash == Finish /\ UNCHANGED <<usbVars, toolVars, replugged>>
Next == Tool \/ Board \/ Flash \/ Arrive \/ Plug \/ Enumerate \/ PowerCycle

\* The firmware's loop runs, the flash gets ready, the PC polls the line and
\* the tool goes on with a command it has begun.
Fairness ==
  /\ WF_loaderVars(Board) /\ WF_loaderVars(Flash) /\ WF_loaderVars(Arrive)
  /\ WF_loaderVars(Post) /\ WF_loaderVars(Ask) /\ WF_loaderVars(io_read)
Spec == Init /\ [][Next]_loaderVars /\ Fairness

-----------------------------------------------------------------------------
LoaderTypeOK ==
  /\ chip.ram \in Values /\ chip.latch \in [Words -> Values \cup {Erased}]
  /\ chip.flash \in [Pages -> [Words -> Values \cup {Erased, Junk}]]
  /\ chip.locked \subseteq Regions /\ chip.busy.op \in {"none", "program", "unlock"}
  /\ chip.busy.page \in Pages /\ {chip.slow, chip.gpnvm, chip.locke, interactive, configured} \subseteq BOOLEAN
  /\ port \in {"gone", "reset", "up"} /\ event \in {"none", "reset", "configure"}
  /\ {bank, currentRcvBank} \subseteq {0, 1} /\ {txcomp, waiting, replugged} \subseteq BOOLEAN
  /\ pc \in {"poll", "read", "samba", "write", "booted"}
  /\ at.s \in Posts \cup Asks \cup {"idle", "off"} /\ at.page \in Pages /\ at.word \in Words
  /\ Len(inq) <= NumWords /\ seen \in Values \cup {None}
  /\ Len(got) <= NumWords /\ done \in {"none", "flash", "unlock", "read"}

AtRest == InFlight = <<>> /\ chip.busy = NoPage

\* The firmware waits for a packet in the bank that is filled next, unless a
\* bus reset has come: usb_isconfigured then resets the port, which starts
\* with bank 0 again, and not currentRcvBank.
BanksAgree ==
  pc = "read" /\ event = "none" /\ InFlight = <<>> /\ ~replugged => currentRcvBank = bank

\* After a bus reset a packet can be in the bank that is not looked at.
Misbanked == replugged /\ pc = "read" /\ rx[currentRcvBank] = None /\ rx[1 - currentRcvBank] # None

\* The words that are written land once each and in order, a word that is
\* read is what was written last, and nothing of a session that a failure
\* ended is executed in a later one.
OfRam(c) == IF c # None /\ c.at = Reg("ram") THEN c ELSE None
Memory == INSTANCE RemoteMemory WITH
  Commands <- {Cmd("w", Reg("ram"), None)} \cup {Cmd("W", Reg("ram"), v) : v \in Values},
  NoAnswer <- None, ram <- chip.ram, up <- port = "up",
  queue <- Held(OfRam(Taken)) \o Held(OfRam(rx[currentRcvBank]))
             \o Held(OfRam(rx[1 - currentRcvBank])),
  answer <- IF at.s # "rw" THEN None ELSE IF tx # None THEN tx.word
            ELSE IF inq # <<>> THEN Head(inq).word ELSE None
ImplementsRemoteMemory == Memory!Spec

\* Once manual_flash is over and the flash is at rest, the pages that are not
\* locked hold the file.
FlashHoldsFile ==
  done = "flash" /\ AtRest => \A p \in Pages \ chip.locked : chip.flash[p] = File[p]

\* cmd.c, "unlock all lock regions".
UnlocksAll == done = "unlock" /\ AtRest => chip.locked = {}

\* What the tool has read is what the flash holds, word by word.
ReadsBack ==
  done = "read" => \E p \in Pages : \A i \in Words : got[i + 1] = chip.flash[p][i]

\* As long as the line stays up, a command of the tool that has ended without
\* an error has done what it is for: the words posted for a page came before
\* the command to program it and after the flash was ready, and answers belong
\* to the commands they follow.  Of a command that the line cut short nothing
\* is promised, whatever the tool returns.
EndsAsAsked == at # Off => FlashHoldsFile /\ UnlocksAll /\ ReadsBack

\* Every command of the tool ends, unless the line is unplugged at a bad time.
CommandsEnd == at.s \notin {"idle", "off"} ~> at.s \in {"idle", "off"} \/ Misbanked
=============================================================================
