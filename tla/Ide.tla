-------------------------------- MODULE Ide --------------------------------
(***************************************************************************)
(* The CompactFlash card and the driver of ide.c that polls it: a call of  *)
(* hd_read_mapped, hd_write_mapped or ide_identify_drive, and the reset.   *)
(* The card works on its own while the driver polls its status; it refuses *)
(* a sector that it does not have, and may fail a command, stop for good,  *)
(* or be pulled.  It reports a failure by ERROR of its status, the only    *)
(* bit the driver looks at: a card that sets only WRITE_FAULT is left out. *)
(* A sector is a pair of halves, because disk.c keeps two blocks in one.   *)
(***************************************************************************)
EXTENDS Integers

CONSTANTS
  CardSize,     \* sectors of the card
  Data,         \* values of half a sector
  Junk,         \* what the data port reads when the card does not drive it
  BUSY_TIMEOUT, \* polls of hd_busy_wait (500000)
  PromptCard,   \* a card that answers at all does so before the polls are over
  CardFails,    \* the card may end a command with an error, or never
  CardLeaves    \* the card may be pulled

ASSUME IdeAssumption ==
  /\ CardSize \in Nat \ {0} /\ BUSY_TIMEOUT \in Nat /\ BUSY_TIMEOUT >= 2
  /\ {PromptCard, CardFails, CardLeaves} \subseteq BOOLEAN

VARIABLES
  present, busy, err,  \* the card: in its socket; BUSY and ERROR of its status
  command,             \* the command it works on
  store,               \* its sectors
  hd,                  \* the driver's call
  count,               \* polls of its busy wait
  bufs                 \* buffer (disk.c) and ide_buffer (ide.c)

cardVars == <<present, busy, err, command, store>>
ideVars  == <<cardVars, hd, count, bufs>>

Lbas     == 0 .. CardSize - 1
Reach    == 0 .. 2 * CardSize - 1   \* the sectors that the driver may be asked for
Sector   == [{0, 1} -> Data \cup {Junk}]
Both(v)  == [h \in {0, 1} |-> v]
NoCmd    == [op |-> "NONE", lba |-> 0, data |-> Both(Junk)]
Cmd(op, lba) == [NoCmd EXCEPT !.op = op, !.lba = lba]

-----------------------------------------------------------------------------
(* The card.  COMMIT is a write whose data it has taken.                   *)
\* The sectors once the card has done what it has taken.
Committed == IF command.op = "COMMIT" THEN [store EXCEPT ![command.lba] = command.data]
                                      ELSE store

\* BUSY ends: the command wants or has its data, or is over.
CardReady ==
  /\ present /\ busy /\ command.op # "HANG" /\ command.lba \in Lbas
  /\ busy' = FALSE /\ store' = Committed
  /\ command' = IF command.op \in {"COMMIT", "RESET"} THEN NoCmd ELSE command
  /\ UNCHANGED <<present, err, hd, count, bufs>>

\* A sector behind the last one.
CardRefuse ==
  /\ present /\ busy /\ command.lba \notin Lbas
  /\ busy' = FALSE /\ err' = TRUE /\ command' = NoCmd
  /\ UNCHANGED <<present, store, hd, count, bufs>>

CardError ==
  /\ CardFails /\ present /\ busy /\ command.op \notin {"RESET", "HANG"}
  /\ busy' = FALSE /\ err' = TRUE /\ command' = NoCmd
  /\ UNCHANGED <<present, store, hd, count, bufs>>

\* The card never answers; the data it had taken may have been stored.
CardHang ==
  /\ CardFails /\ present /\ busy /\ command.op # "HANG"
  /\ command' = Cmd("HANG", 0) /\ store' \in {store, Committed}
  /\ UNCHANGED <<present, busy, err, hd, count, bufs>>

Pull ==
  /\ CardLeaves /\ present /\ present' = FALSE /\ busy' = FALSE /\ err' = FALSE
  /\ command' = NoCmd /\ store' \in {store, Committed}
  /\ UNCHANGED <<hd, count, bufs>>

CardAnswers == CardReady \/ CardRefuse
Card == CardAnswers \/ CardError \/ CardHang \/ Pull

\* ide_assert_reset, which does not wait for the card to come back.
AssertReset ==
  /\ store' \in {store, Committed} /\ UNCHANGED present
  /\ IF present THEN busy' = TRUE /\ err' = FALSE /\ command' = Cmd("RESET", 0)
                ELSE UNCHANGED <<busy, err, command>>

-----------------------------------------------------------------------------
(* The driver.  An empty socket reads as all ones.                         *)
BUSY  == ~present \/ busy
ERROR == ~present \/ err

Done == [op |-> "NONE", lba |-> 0, buf |-> "buffer", at |-> "done", rc |-> 0]
Start(op, lba, buf) ==
  hd' = [op |-> op, lba |-> lba, buf |-> buf, at |-> "pre", rc |-> 0] /\ count' = 0
To(at)  == hd' = [hd EXCEPT !.at = at]
Fail    == hd' = [hd EXCEPT !.at = "done", !.rc = -1] /\ count' = 0

\* A prompt card is busy no longer when the last but one poll comes.
InTime == PromptCard /\ present /\ busy /\ command.op # "HANG" => count < BUSY_TIMEOUT - 1

\* Mutant: the busy wait has no limit.
PollForEver(next) ==
  IF BUSY THEN UNCHANGED <<hd, count>>
  ELSE IF ERROR THEN Fail ELSE To(next) /\ count' = 0

\* Mutant: a round too many.
PollOneMore(next) ==
  IF BUSY /\ count <= BUSY_TIMEOUT THEN count' = count + 1 /\ UNCHANGED hd
  ELSE IF count >= BUSY_TIMEOUT \/ ERROR THEN Fail ELSE To(next) /\ count' = 0

\* A round of the loop of hd_busy_wait: number count.  A card that is ready
\* at the last is a timeout too.
Poll(next) ==
  IF BUSY /\ count < BUSY_TIMEOUT THEN count' = count + 1 /\ UNCHANGED hd
  ELSE IF count >= BUSY_TIMEOUT \/ ERROR THEN Fail ELSE To(next) /\ count' = 0

hd_busy_wait(at, next) ==
  /\ hd.at = at /\ InTime
  /\ IF count = 0 THEN IF present THEN count' = 1 /\ UNCHANGED hd ELSE Fail
                  ELSE Poll(next)
  /\ UNCHANGED <<cardVars, bufs>>

\* The task file is written, the command register last.
hd_command ==
  /\ hd.at = "command" /\ To("wait")
  /\ IF present THEN busy' = TRUE /\ err' = FALSE /\ command' = Cmd(hd.op, hd.lba)
                ELSE UNCHANGED <<busy, err, command>>
  /\ UNCHANGED <<present, store, count, bufs>>

\* The card has a sector to give, or wants one.
Transfers == present /\ ~busy /\ command.op = hd.op

DataOut ==
  IF Transfers THEN /\ command' = [op |-> "COMMIT", lba |-> hd.lba, data |-> bufs[hd.buf]]
                    /\ busy' = TRUE
               ELSE UNCHANGED <<busy, command>>
DataIn ==
  /\ bufs' = [bufs EXCEPT ![hd.buf] = IF ~Transfers THEN Both(Junk)
                                      ELSE IF hd.op = "READ" THEN store[hd.lba] ELSE Both(Junk)]
  /\ command' = IF Transfers THEN NoCmd ELSE command

\* The 256 words, with no look at the status between them.
Words ==
  /\ hd.at = "data" /\ To("status")
  /\ IF hd.op = "WRITE" THEN DataOut /\ UNCHANGED bufs ELSE DataIn /\ UNCHANGED busy
  /\ UNCHANGED <<present, err, store, count>>

\* The status is read once more, without a wait.
LastStatus ==
  /\ hd.at = "status" /\ hd' = [hd EXCEPT !.at = "done", !.rc = IF ERROR THEN -1 ELSE 0]
  /\ UNCHANGED <<cardVars, count, bufs>>

Driver ==
  \/ hd_busy_wait("pre", "command") \/ hd_command \/ hd_busy_wait("wait", "data")
  \/ Words \/ LastStatus
=============================================================================
