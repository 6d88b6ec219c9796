-------------------------------- MODULE Rl11 --------------------------------
(***************************************************************************)
(* The RL11 personality: rl11_poll (rl.c), called for ever by main, and    *)
(* the register accesses of cpld_isr (isr2.c), which interrupt it.  The    *)
(* two share cs, ba, da, mp and the pending flags with no lock.  The ISR   *)
(* runs to its end, so one access is one step; rl11_poll is split wherever *)
(* the order matters, and cs |= x, which is a load and a store, is two     *)
(* steps with the register r between them (the build is -O3: the copy is   *)
(* not loaded again).                                                      *)
(*                                                                         *)
(* Word counts are in sectors here; RlTransfer does the arithmetic.        *)
(***************************************************************************)
EXTENDS Integers, Sequences

CONSTANTS
  Drives,      \* unit numbers, 0 .. 3
  Cyls,        \* cylinders of a drive (512)
  Sectors,     \* sectors of a track (40)
  SectSpace,   \* values of the sector field of DA (64)
  DirBit,      \* DA_DIR as a value of that field
  HsBit,       \* DA_HS as a value of that field
  SeekTime,    \* passes of rl11_poll that a seek takes (1000)
  DaValues,    \* values a host writes to DA
  Counts,      \* word counts a host writes to MP, in sectors
  HostFuncs,   \* functions a host commands
  HostReadsMp, \* a host reads MP
  Online,      \* the drives that have a partition
  PoliteHost,  \* the host leaves the registers alone while a command runs,
               \* and until the controller has started
  Restarts     \* how often the CLI restarts the controller

DaSpace == 2 * SectSpace * (Cyls + 1)

Funcs == {"NOP", "WRITECHK", "GETSTATUS", "SEEK", "READHDR", "WRITE", "READ",
          "READNOHDR"}

ASSUME RlAssumption ==
  /\ Cyls \in Nat \ {0} /\ Sectors \in Nat \ {0} /\ SectSpace \in Nat \ {0}
  /\ Sectors <= SectSpace /\ SeekTime \in Nat \ {0} /\ Restarts \in Nat
  /\ DirBit \in Nat \ {0} /\ HsBit \in Nat \ {0}
  /\ DaValues \subseteq 0 .. DaSpace - 1 /\ Counts \subseteq Nat
  /\ 0 \in Drives /\ PoliteHost \in BOOLEAN /\ HostFuncs \subseteq Funcs
  /\ HostReadsMp \in BOOLEAN /\ Online \subseteq Drives

VARIABLES
  cs,            \* the fields of the control and status register
  da, mp,        \* disk address; the three words behind MP
  ds10,          \* selected drive
  ready,         \* drive[].ready
  curr, new,     \* drive[].curr_cyl/curr_head and new_cyl/new_head
  cmd_pending, int_pending, seek_pending, seek_time, init_pending,
  poll,          \* the next step of rl11_poll
  r,             \* its copy of cs
  wlen,          \* sectors that the transfer has left
  from,          \* who called cmd_done: "cmd" or "seek"
  restarts       \* restarts so far

hostRegs == <<da, mp>>
driveVars == <<ready, curr, new>>
flags    == <<cmd_pending, int_pending, seek_pending, seek_time, init_pending>>
rlVars   == <<cs, hostRegs, ds10, driveVars, flags, poll, r, wlen, from, restarts>>

Cs    == [crdy : BOOLEAN, ie : BOOLEAN, drdy : BOOLEAN, err : BOOLEAN,
          func : Funcs, ds : Drives]
Pos   == [cyl : 0 .. Cyls - 1, head : {0, 1}]
Wc(n)   == [kind |-> "wc", v |-> n]
Gs(h)   == [kind |-> "status", v |-> h]
Hdr(p)  == [kind |-> "header", v |-> 2 * p.cyl + p.head]

Bit(n, bit)  == (n \div bit) % 2
DaCyl(d)     == d \div (2 * SectSpace)
DaSect(d)    == d % SectSpace
Same(x)      == <<x, x, x>>

\* cs after a reset; also r when no step uses it.
ResetCs(rdy) == [crdy |-> TRUE, ie |-> FALSE, drdy |-> rdy, err |-> FALSE,
                 func |-> "NOP", ds |-> 0]
NoCopy == ResetCs(FALSE)

-----------------------------------------------------------------------------
(* cpld_isr: what the host's accesses do.                                  *)
\* When a host may access the registers.  A polite one waits for CRDY, and for
\* the interrupt that is owed to it; and it comes after the start-up, the first
\* passes of rl11_poll, which have CRDY set too but reset the registers under
\* it: a command given then is lost.
Polite == PoliteHost => /\ cs.crdy /\ ~init_pending /\ poll # "update_cs"
                        /\ ~int_pending /\ poll \notin {"intr1", "intr2"}
                        /\ poll = "done_int" => ~r.ie

AllButDrdy(c, d) ==
  c.crdy = d.crdy /\ c.ie = d.ie /\ c.err = d.err /\ c.func = d.func /\ c.ds = d.ds

\* update_cs, on the value c of cs.
UpdateCs(c) == [c EXCEPT !.drdy = ready[c.ds]]

\* A write of CS.  With CRDY set it starts nothing; the test for an
\* interrupt at that point (L123) never holds, because cs already has the IE
\* that data has.
WriteCs(crdy, ie, func, ds) ==
  LET c == UpdateCs([cs EXCEPT !.crdy = crdy, !.ie = ie, !.func = func, !.ds = ds])
  IN /\ Polite
     /\ ds10' = ds
     /\ IF crdy
          THEN /\ cs' = c
               /\ int_pending' = (int_pending \/ (ie /\ c.crdy /\ ~c.ie))
               /\ UNCHANGED cmd_pending
          ELSE /\ cs' = [c EXCEPT !.err = FALSE]
               /\ int_pending' = FALSE /\ cmd_pending' = TRUE
     /\ UNCHANGED <<hostRegs, driveVars, seek_pending, seek_time, init_pending,
                    poll, r, wlen, from, restarts>>

WriteDa(d) ==
  /\ Polite /\ da' = d
  /\ UNCHANGED <<cs, mp, ds10, driveVars, flags, poll, r, wlen, from, restarts>>

WriteMp(n) ==
  /\ Polite /\ mp' = Same(Wc(n))
  /\ UNCHANGED <<cs, da, ds10, driveVars, flags, poll, r, wlen, from, restarts>>

\* A read of MP shifts the three words.
ReadMp ==
  /\ HostReadsMp /\ Polite /\ mp' = <<mp[2], mp[3], mp[3]>>
  /\ UNCHANGED <<cs, da, ds10, driveVars, flags, poll, r, wlen, from, restarts>>

\* A DATI of CS, as a host polls it, is answered from cs as it is (the short
\* circuit of cpld_isr) and changes nothing.  It is the read of a DATIP, or of
\* CS at another address of the window, that is an update_cs; a polite host may
\* do that too while it waits.
ReadCs ==
  /\ cs' = UpdateCs(cs) /\ ds10' = cs.ds
  /\ UNCHANGED <<hostRegs, driveVars, flags, poll, r, wlen, from, restarts>>

Host ==
  \/ \E crdy, ie \in BOOLEAN, func \in HostFuncs, ds \in Drives : WriteCs(crdy, ie, func, ds)
  \/ \E d \in DaValues : WriteDa(d)
  \/ \E n \in Counts : WriteMp(n)
  \/ ReadMp \/ ReadCs

-----------------------------------------------------------------------------
(* rl11_poll.                                                              *)
Goto(at, next) == poll = at /\ poll' = next

PollInt(at, intr, next) ==
  /\ Goto(at, IF int_pending THEN intr ELSE next) /\ int_pending' = FALSE
  /\ UNCHANGED <<cs, hostRegs, ds10, driveVars, cmd_pending, seek_pending,
                 seek_time, init_pending, r, wlen, from, restarts>>

\* unibus_interrupt waits until the PDP-11 grants the bus.
Granted(at, next) ==
  /\ Goto(at, next)
  /\ UNCHANGED <<cs, hostRegs, ds10, driveVars, flags, r, wlen, from, restarts>>

\* Mutant: the command stays pending.
PollCmdKeeps ==
  /\ Goto("cmd", IF cmd_pending THEN "load" ELSE "seek")
  /\ UNCHANGED <<cs, hostRegs, ds10, driveVars, flags, r, wlen, from, restarts>>

PollCmd ==
  /\ Goto("cmd", IF cmd_pending THEN "load" ELSE "seek") /\ cmd_pending' = FALSE
  /\ UNCHANGED <<cs, hostRegs, ds10, driveVars, int_pending, seek_pending,
                 seek_time, init_pending, r, wlen, from, restarts>>

\* The load of a cs |= x or cs &= ~x, and its store.
Load(at, next) ==
  /\ Goto(at, next) /\ r' = cs
  /\ UNCHANGED <<cs, hostRegs, ds10, driveVars, flags, wlen, from, restarts>>
Store(at, next, c) ==
  /\ Goto(at, next) /\ cs' = c /\ r' = c
  /\ UNCHANGED <<ds10, driveVars, flags, wlen, from, restarts>>

\* Mutant: clears DRDY with the wrong mask and sets CRDY.
ClearDrdySetsCrdy ==
  \/ Load("load", "clear")
  \/ /\ Store("clear", "exec", [r EXCEPT !.drdy = FALSE, !.crdy = TRUE])
     /\ UNCHANGED hostRegs

ClearDrdy ==
  \/ Load("load", "clear")
  \/ Store("clear", "exec", [r EXCEPT !.drdy = FALSE]) /\ UNCHANGED hostRegs

Exec(func, next) == r.func = func /\ Goto("exec", next) /\ from' = "cmd"

Nop ==
  /\ Exec("NOP", "done")
  /\ UNCHANGED <<cs, hostRegs, ds10, driveVars, flags, r, wlen, restarts>>

GetStatus ==
  /\ Exec("GETSTATUS", "done") /\ mp' = Same(Gs(curr[ds10].head))
  /\ UNCHANGED <<cs, da, ds10, driveVars, flags, r, wlen, restarts>>

\* Mutant: the inner end of the disk is not checked.
SeekTargetUnchecked(c, d) ==
  IF Bit(d, DirBit) = 1 THEN c + DaCyl(d)
  ELSE IF c - DaCyl(d) < 0 THEN 0 ELSE c - DaCyl(d)

\* Where a seek from cylinder c by the difference in d ends.
SeekTarget(c, d) ==
  IF Bit(d, DirBit) = 1
    THEN IF c + DaCyl(d) >= Cyls THEN Cyls - 1 ELSE c + DaCyl(d)
    ELSE IF c - DaCyl(d) < 0 THEN 0 ELSE c - DaCyl(d)

\* Mutant: does not set seek_pending.
SeekStartForgets ==
  /\ Exec("SEEK", "seek") /\ r' = NoCopy /\ seek_time' = SeekTime
  /\ UNCHANGED <<cs, hostRegs, ds10, driveVars, cmd_pending, int_pending,
                 seek_pending, init_pending, wlen, restarts>>

\* Mutant: sets CRDY as it starts the seek, as an RL11 does.
SeekStartReady ==
  /\ Exec("SEEK", "done")
  /\ new' = [new EXCEPT ![ds10].cyl = SeekTarget(curr[ds10].cyl, da)]
  /\ seek_pending' = TRUE /\ seek_time' = SeekTime
  /\ UNCHANGED <<cs, hostRegs, ds10, ready, curr, cmd_pending, int_pending,
                 init_pending, r, wlen, restarts>>

SeekStart ==
  /\ Exec("SEEK", "seek")
  /\ new' = [new EXCEPT ![ds10] =
       [cyl |-> SeekTarget(curr[ds10].cyl, da), head |-> Bit(da, HsBit)]]
  /\ seek_pending' = TRUE /\ seek_time' = SeekTime /\ r' = NoCopy
  /\ UNCHANGED <<cs, hostRegs, ds10, ready, curr, cmd_pending, int_pending,
                 init_pending, wlen, restarts>>

\* Mutant: the header of drive 0.
ReadHdrDrive0 ==
  /\ Exec("READHDR", "done") /\ mp' = <<Hdr(curr[0]), Wc(0), Wc(0)>>
  /\ UNCHANGED <<cs, da, ds10, driveVars, flags, r, wlen, restarts>>

ReadHdr ==
  /\ Exec("READHDR", "done") /\ mp' = <<Hdr(curr[ds10]), Wc(0), Wc(0)>>
  /\ UNCHANGED <<cs, da, ds10, driveVars, flags, r, wlen, restarts>>

\* The case has no cmd_done: the controller stays busy.
ReadNoHdr ==
  /\ Exec("READNOHDR", "seek") /\ r' = NoCopy
  /\ UNCHANGED <<cs, hostRegs, ds10, driveVars, flags, wlen, restarts>>

\* max_sectors is unsigned: past the last sector nothing is clamped.
Transfer(func) ==
  /\ Exec(func, "transfer")
  /\ curr' = [curr EXCEPT ![ds10].head = Bit(da, HsBit)]
  /\ LET left == Sectors - DaSect(da)
         want == IF mp[1].kind = "wc" THEN mp[1].v ELSE 0
     IN wlen' = IF left >= 0 /\ want > left THEN left ELSE want
  /\ UNCHANGED <<cs, hostRegs, ds10, ready, new, flags, r, restarts>>

\* One sector: disk and DMA, then the registers move on.  A WRITECHK sets ERR
\* for each word that differs; once stands for all of a sector.  (func is a
\* local of rl11_poll; r has it, unless the host writes CS in the meantime.)
TransferSector ==
  \/ wlen > 0 /\ Load("transfer", "sector")
  \/ wlen > 0 /\ r.func = "WRITECHK" /\ Load("transfer", "differ")
  \/ Store("differ", "checked", [r EXCEPT !.err = TRUE]) /\ UNCHANGED hostRegs
  \/ Load("checked", "sector")
  \/ /\ Goto("sector", "transfer") /\ cs' = r
     /\ mp' = [mp EXCEPT ![1].v = @ - 1] /\ da' = (da + 1) % DaSpace
     /\ wlen' = wlen - 1
     /\ UNCHANGED <<ds10, driveVars, flags, r, from, restarts>>

\* A word count that is not used up is an error.
TransferEnd ==
  \/ /\ wlen = 0 /\ mp[1] # Wc(0) /\ Load("transfer", "error")
  \/ /\ wlen = 0 /\ mp[1] = Wc(0) /\ Goto("transfer", "done")
     /\ UNCHANGED <<cs, hostRegs, ds10, driveVars, flags, r, wlen, from, restarts>>
  \/ Store("error", "done", [r EXCEPT !.err = TRUE]) /\ UNCHANGED hostRegs

\* cmd_done, called for a command or for a seek.
CmdDone ==
  \/ Load("done", "done_store")
  \/ /\ Store("done_store", "done_int", [r EXCEPT !.crdy = TRUE, !.drdy = TRUE])
     /\ UNCHANGED hostRegs
  \/ /\ Goto("done_int", IF from = "cmd" THEN "seek" ELSE "int2")
     /\ int_pending' = r.ie /\ r' = NoCopy /\ from' = "cmd"
     /\ UNCHANGED <<cs, hostRegs, ds10, driveVars, cmd_pending, seek_pending,
                    seek_time, init_pending, wlen, restarts>>

\* A seek counts the passes down; the drive selected when it ends moves.
PollSeek ==
  \/ /\ ~seek_pending /\ Goto("seek", "int2")
     /\ UNCHANGED <<cs, hostRegs, ds10, driveVars, flags, r, wlen, from, restarts>>
  \/ /\ seek_pending /\ seek_time > 1 /\ Goto("seek", "int2")
     /\ seek_time' = seek_time - 1
     /\ UNCHANGED <<cs, hostRegs, ds10, driveVars, cmd_pending, int_pending,
                    seek_pending, init_pending, r, wlen, from, restarts>>
  \/ /\ seek_pending /\ seek_time = 1 /\ Goto("seek", "done") /\ from' = "seek"
     /\ seek_time' = 0 /\ seek_pending' = FALSE
     /\ curr' = [curr EXCEPT ![ds10] = new[ds10]]
     /\ UNCHANGED <<cs, hostRegs, ds10, ready, new, cmd_pending, int_pending,
                    init_pending, r, wlen, restarts>>

-----------------------------------------------------------------------------
(* rl11_reset and rl11_drive_online: the seek in progress is not dropped.  *)
\* The flags first; then the registers and the drives, which go offline.
ResetFlags(at, next) ==
  /\ Goto(at, next) /\ cmd_pending' = FALSE /\ int_pending' = FALSE /\ init_pending' = TRUE
  /\ UNCHANGED <<cs, hostRegs, ds10, driveVars, seek_pending, seek_time, r, wlen, from>>
ResetRegs(at, next) ==
  /\ Goto(at, next) /\ cs' = ResetCs(FALSE)
  /\ da' = 0 /\ mp' = Same(Wc(0)) /\ ds10' = 0
  /\ ready' = [d \in Drives |-> FALSE]
  /\ curr' = [d \in Drives |-> [cyl |-> 0, head |-> 0]] /\ new' = curr'
  /\ UNCHANGED <<flags, r, wlen, from, restarts>>

\* The first pass after a reset resets again and brings the drives online.
PollInit ==
  \/ /\ ~init_pending /\ Goto("init", "int1")
     /\ UNCHANGED <<cs, hostRegs, ds10, driveVars, flags, r, wlen, from, restarts>>
  \/ init_pending /\ ResetFlags("init", "reset") /\ UNCHANGED restarts
  \/ ResetRegs("reset", "online")
  \/ /\ Goto("online", "update_cs") /\ init_pending' = FALSE
     /\ ready' = [d \in Drives |-> d \in Online] /\ r' = cs
     /\ UNCHANGED <<cs, hostRegs, ds10, curr, new, cmd_pending, int_pending,
                    seek_pending, seek_time, wlen, from, restarts>>
  \/ /\ Goto("update_cs", "int1") /\ cs' = UpdateCs(r) /\ ds10' = r.ds /\ r' = NoCopy
     /\ UNCHANGED <<hostRegs, driveVars, flags, wlen, from, restarts>>

\* main: the reset of rl11_setup is done, interrupts are enabled (by the end
\* of a bus_write_long), and controller_online brings the drives online.
Boot ==
  \/ /\ Goto("boot", "boot_cs") /\ ready' = [d \in Drives |-> d \in Online] /\ r' = cs
     /\ UNCHANGED <<cs, hostRegs, ds10, curr, new, flags, wlen, from, restarts>>
  \/ /\ Goto("boot_cs", "int1") /\ cs' = UpdateCs(r) /\ ds10' = r.ds /\ r' = NoCopy
     /\ UNCHANGED <<hostRegs, driveVars, flags, wlen, from, restarts>>

\* controller_restart, between two passes, from the CLI.
Restart ==
  /\ restarts < Restarts /\ restarts' = restarts + 1
  /\ ResetFlags("int1", "restart")

Pass ==
  \/ PollInt("int1", "intr1", "cmd") \/ PollCmd \/ ClearDrdy
  \/ Nop \/ GetStatus \/ SeekStart \/ ReadHdr \/ ReadNoHdr
  \/ \E func \in {"READ", "WRITE", "WRITECHK"} : Transfer(func)
  \/ TransferSector \/ TransferEnd \/ CmdDone \/ PollSeek
  \/ PollInt("int2", "intr2", "init") \/ PollInit \/ ResetRegs("restart", "int1")
  \/ Boot
Grant == Granted("intr1", "cmd") \/ Granted("intr2", "init")

-----------------------------------------------------------------------------
Init ==
  /\ ready = [d \in Drives |-> FALSE] /\ cs = ResetCs(FALSE)
  /\ da = 0 /\ mp = Same(Wc(0)) /\ ds10 = 0
  /\ curr = [d \in Drives |-> [cyl |-> 0, head |-> 0]] /\ new = curr
  /\ cmd_pending = FALSE /\ int_pending = FALSE
  /\ seek_pending = FALSE /\ seek_time = 0 /\ init_pending = TRUE
  /\ poll = "boot" /\ r = NoCopy /\ wlen = 0 /\ from = "cmd" /\ restarts = 0

Next == Host \/ Pass \/ Grant \/ Restart

\* main calls controller_poll for ever, and the PDP-11 grants an interrupt.
Fairness == WF_rlVars(Pass) /\ WF_rlVars(Grant)
Spec == Init /\ [][Next]_rlVars /\ Fairness

-----------------------------------------------------------------------------
Steps == {"int1", "intr1", "cmd", "load", "clear", "exec", "transfer", "differ",
          "checked", "sector", "error", "done", "done_store", "done_int", "seek", "int2", "intr2",
          "init", "reset", "online", "update_cs", "restart", "boot", "boot_cs"}
RlTypeOK ==
  /\ cs \in Cs /\ r \in Cs /\ da \in 0 .. DaSpace - 1 /\ ds10 \in Drives
  /\ Len(mp) = 3 /\ ready \in [Drives -> BOOLEAN]
  /\ curr \in [Drives -> Pos] /\ new \in [Drives -> Pos]
  /\ {cmd_pending, int_pending, seek_pending, init_pending} \subseteq BOOLEAN
  /\ seek_time \in 0 .. SeekTime /\ poll \in Steps /\ wlen \in Nat
  /\ from \in {"cmd", "seek"} /\ restarts \in 0 .. Restarts

\* The steps between the two ends of a command, or of a reset.
Working == {"load", "clear", "exec", "transfer", "differ", "checked", "sector",
            "error", "done", "done_store", "reset", "restart"}

\* A controller that is not ready has work that will make it so: a command
\* to take up, one in hand or a seek to wait for.  Only READNOHDR is left
\* with none.
BusyHasWork ==
  ~cs.crdy => \/ cmd_pending \/ seek_pending \/ poll \in Working
              \/ cs.func = "READNOHDR"

\* While a command runs, everything in cs but DRDY, which an update_cs for the
\* host changes, is as in the copy that rl11_poll stores back: no write of the
\* host is lost.
CopyIsCurrent ==
  poll \in {"clear", "differ", "sector", "error", "done_store"} => AllButDrdy(r, cs)

\* A seek that waits for its time belongs to the selected drive.
SeekIsSelected == seek_pending => cs.func = "SEEK" /\ ds10 = cs.ds

\* The interrupt that rl11_poll owes the host.
pend == \/ int_pending \/ poll \in {"intr1", "intr2"}
        \/ poll = "done_int" /\ r.ie

phase ==
  IF cs.crdy THEN "ready"
  ELSE IF poll \in {"error", "done", "done_store"} THEN "finished" ELSE "busy"

\* The words of a header are there when the controller says it is ready, and
\* they say where the last seek left the selected drive.
ReadsBackPosition ==
  [][(~cs.crdy /\ cs'.crdy /\ cs.func = "READHDR" /\ cs'.func = "READHDR")
     => mp' = <<Hdr(curr'[cs.ds]), Wc(0), Wc(0)>>]_rlVars

Driver == INSTANCE Controller WITH
  Seek <- "SEEK", Endless <- {"READNOHDR"}, Da <- 0 .. DaSpace - 1,
  Target <- SeekTarget,
  cmd <- [func |-> cs.func, ds |-> cs.ds, ie |-> cs.ie],
  pos <- [d \in Drives |-> curr[d].cyl]

\* A driver that waits for CRDY, and for the interrupt it asked for, sees
\* every command executed once, on its drive, and then completed.
ImplementsController == Driver!Spec

=============================================================================
