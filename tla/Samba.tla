------------------------------- MODULE Samba -------------------------------
(***************************************************************************)
(* The monitor of the boot loader (loader/samba.c) and the chip it works   *)
(* on: a cell of RAM, the chip id, and the flash with its controller,      *)
(* which sam7utils programs word by word.  A command is one packet; an     *)
(* answer is a sequence of packets.                                        *)
(***************************************************************************)
EXTENDS Integers, Sequences, SequencesExt

CONSTANTS
  NumPages, NumWords,  \* of the flash; a page is a lock region of its own
  Erased, Junk,        \* flash that was erased, or whose programming was cut off
  ChipId, Version,     \* what the id register reads; the answer to V
  None

ASSUME SambaAssumption == NumPages \in Nat \ {0} /\ NumWords \in Nat \ {0}

VARIABLES
  chip,        \* record of the cells and of the flash, see TypeOK of Loader
  interactive  \* of samba.c

Pages == 0 .. NumPages - 1
Words == 0 .. NumWords - 1
NoPage == [op |-> "none", page |-> 0]
Latch(v) == [i \in Words |-> v]

-----------------------------------------------------------------------------
(* The chip.                                                               *)
Reg(r)     == [reg |-> r, page |-> 0, word |-> 0]
Cell(p, i) == [reg |-> "flash", page |-> p, word |-> i]

\* The status of the flash, MC_FSR.  PROGE is not in it: the tool gives no
\* command with a wrong key.
FSR == [frdy |-> chip.busy = NoPage, locke |-> chip.locke, gpnvm |-> chip.gpnvm, locks |-> chip.locked]

Load(a) ==
  CASE a.reg = "ram"  -> chip.ram
    [] a.reg = "cidr" -> ChipId
    [] a.reg = "fsr"  -> FSR
    [] OTHER          -> chip.flash[a.page][a.word]

\* A command to the flash controller; one that comes while it is busy is lost.
Start(c) ==
  IF chip.busy # NoPage THEN chip
  ELSE IF c.op = "program" /\ c.page \in chip.locked THEN [chip EXCEPT !.locke = TRUE]
  ELSE [chip EXCEPT !.busy = c]

Store(a, v) ==
  CASE a.reg = "ram"   -> [chip EXCEPT !.ram = v]
    [] a.reg = "fcr"   -> Start(v)
    [] a.reg = "flash" -> IF chip.busy = NoPage THEN [chip EXCEPT !.latch[a.word] = v] ELSE chip
    [] OTHER           -> chip

Finish ==
  /\ chip.busy # NoPage
  /\ chip' = IF chip.busy.op = "unlock"
             THEN [chip EXCEPT !.locked = @ \ {chip.busy.page}, !.busy = NoPage]
             ELSE [chip EXCEPT !.flash[chip.busy.page] = chip.latch, !.latch = Latch(Erased),
                               !.busy = NoPage]
  /\ UNCHANGED interactive

-----------------------------------------------------------------------------
(* The commands of the monitor that sam7utils gives it.  The byte and half *)
(* word forms o, O, h and H are w and W on a smaller cell.                 *)
Cmd(op, a, v) == [op |-> op, at |-> a, val |-> v]

Mode(c) == CASE c.op = "T" -> TRUE [] c.op = "N" -> FALSE [] OTHER -> interactive

Crlf(c)   == c.op \in {"T", "N"} /\ interactive
\* Mutant: T does not ask for a prompt.
PromptIfWas(c) == interactive
Prompt(c) == c.op = "T" \/ interactive

Data(c) ==
  CASE c.op = "w" -> <<Load(c.at)>>
    [] c.op = "V" -> <<Version>>
    [] c.op = "R" -> [i \in 1 .. NumWords |-> Load(Cell(c.at.page, i - 1))]
    [] OTHER      -> <<>>

Packet(crlf, word, prompt) == [crlf |-> crlf, word |-> word, prompt |-> prompt]

\* Text with a prompt when the mode after the command is interactive, raw
\* bytes or nothing at all when it is not.
Answer(c) ==
  IF Mode(c) THEN IF ~Crlf(c) /\ ~Prompt(c) THEN <<>>
                  ELSE <<Packet(Crlf(c), IF Data(c) = <<>> THEN None ELSE Head(Data(c)), Prompt(c))>>
  ELSE IF Crlf(c) THEN <<Packet(TRUE, None, FALSE)>>
  ELSE [i \in DOMAIN Data(c) |-> Packet(FALSE, Data(c)[i], FALSE)]

\* Reading the status of the flash clears its error flag.
samba(c) ==
  /\ interactive' = Mode(c)
  /\ chip' = IF c.op = "W" THEN Store(c.at, c.val)
             ELSE IF c.op = "w" /\ c.at.reg = "fsr" THEN [chip EXCEPT !.locke = FALSE]
             ELSE chip
=============================================================================
