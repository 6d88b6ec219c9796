----------------------------- MODULE Rl11Proofs -----------------------------
(***************************************************************************)
(* Proofs about the RL11 personality (Rl11): what the interrupting         *)
(* register writes can never do to a command in rl11_poll, and, with a     *)
(* host that waits for CRDY, that it implements a Controller.              *)
(***************************************************************************)
EXTENDS Rl11, TLAPS

(* The control and status register and its copy are of their type.         *)
CsType == cs \in Cs /\ r \in Cs /\ ready \in [Drives -> BOOLEAN]

\* Why a controller that is not ready has work: rl11_poll throws its copy
\* away only when it has set CRDY, or another write has left a command.
WorkInv ==
  /\ BusyHasWork
  /\ poll = "exec" => cs.crdy \/ cmd_pending \/ cs.func = r.func
  /\ poll \in {"online", "boot"} => cs.crdy \/ cmd_pending
  /\ poll \in {"update_cs", "boot_cs"} => r.crdy \/ cmd_pending

LEMMA CsTypeInit == Init => CsType
BY RlAssumption DEF Init, CsType, Cs, ResetCs, NoCopy, Funcs

\* update_cs keeps the other fields.
LEMMA UpdateCsKeeps ==
  ASSUME NEW c \in Cs, ready \in [Drives -> BOOLEAN]
  PROVE  /\ UpdateCs(c) \in Cs
         /\ UpdateCs(c).crdy = c.crdy /\ UpdateCs(c).func = c.func
         /\ UpdateCs(c).ds = c.ds /\ UpdateCs(c).ie = c.ie
BY DEF UpdateCs, Cs

-----------------------------------------------------------------------------
\* Every step keeps the types of CS, of its copy and of the drives.
LEMMA CsTypeNext == CsType /\ [Next]_rlVars => CsType'
<1> SUFFICES ASSUME CsType, [Next]_rlVars PROVE CsType'
  OBVIOUS
<1> USE DEF CsType
<1>t. /\ NoCopy \in Cs /\ ResetCs(FALSE) \in Cs
      /\ \A c \in Cs : c.ds \in Drives /\ c.crdy \in BOOLEAN /\ c.func \in Funcs
      /\ \A c \in Cs, b \in BOOLEAN : /\ [c EXCEPT !.crdy = b] \in Cs
                                    /\ [c EXCEPT !.drdy = b] \in Cs
                                    /\ [c EXCEPT !.err = b] \in Cs
  BY RlAssumption DEF NoCopy, ResetCs, Cs, Funcs
<1>1. ASSUME NEW crdy \in BOOLEAN, NEW ie \in BOOLEAN, NEW func \in HostFuncs,
             NEW ds \in Drives, WriteCs(crdy, ie, func, ds)
      PROVE  CsType'
  <2> DEFINE w == [cs EXCEPT !.crdy = crdy, !.ie = ie, !.func = func, !.ds = ds]
  <2>1. w \in Cs
    BY RlAssumption DEF Cs
  <2>2. UpdateCs(w) \in Cs
    BY <2>1, UpdateCsKeeps
  <2>3. [UpdateCs(w) EXCEPT !.err = FALSE] \in Cs
    BY <2>2, <1>t
  <2>4. cs' \in Cs
    BY <1>1, <2>2, <2>3 DEF WriteCs
  <2> QED
    BY <1>1, <2>4 DEF WriteCs, driveVars
<1>2. CASE (\E d \in DaValues : WriteDa(d)) \/ (\E n \in Counts : WriteMp(n)) \/ ReadMp
  BY <1>2 DEF WriteDa, WriteMp, ReadMp, driveVars
<1>3. CASE PollInt("int1", "intr1", "cmd") \/ PollCmd \/ PollInt("int2", "intr2", "init") \/ Grant
  BY <1>3 DEF PollInt, PollCmd, Grant, Granted, driveVars
<1>4. CASE ClearDrdy \/ TransferSector \/ TransferEnd
  BY <1>4, <1>t DEF ClearDrdy, TransferSector, TransferEnd, Load, Store, Goto, driveVars
<1>5. CASE Nop \/ GetStatus \/ SeekStart \/ ReadHdr \/ ReadNoHdr
  BY <1>5, <1>t DEF Nop, GetStatus, SeekStart, ReadHdr, ReadNoHdr, driveVars
<1>6. ASSUME NEW func, Transfer(func) PROVE CsType'
  BY <1>6 DEF Transfer
<1>7. CASE CmdDone
  <2>1. [[r EXCEPT !.crdy = TRUE] EXCEPT !.drdy = TRUE] \in Cs
    BY <1>t
  <2>2. [r EXCEPT !.crdy = TRUE, !.drdy = TRUE] \in Cs
    BY DEF Cs
  <2> QED
    BY <1>7, <1>t, <2>2 DEF CmdDone, Load, Store, Goto, driveVars
<1>8. CASE PollSeek
  BY <1>8 DEF PollSeek, driveVars
<1>9. CASE PollInit
  <2>1. UpdateCs(r) \in Cs
    BY UpdateCsKeeps
  <2>2. [d \in Drives |-> d \in Online] \in [Drives -> BOOLEAN]
    <3>1. \A d \in Drives : (d \in Online) \in BOOLEAN
      OBVIOUS
    <3> QED
      BY <3>1
  <2>3. [d \in Drives |-> FALSE] \in [Drives -> BOOLEAN]
    BY Zenon
  <2>4. CASE poll = "init"
    BY <1>9, <2>4 DEF PollInit, ResetFlags, ResetRegs, Goto, driveVars
  <2>5. CASE poll = "reset"
    <3>1. cs' = ResetCs(FALSE) /\ ready' = [d \in Drives |-> FALSE] /\ r' = r
      BY <1>9, <2>5 DEF PollInit, ResetFlags, ResetRegs, Goto
    <3> QED
      BY <3>1, <2>3, <1>t
  <2>6. CASE poll = "online"
    <3>1. cs' = cs /\ r' = cs /\ ready' = [d \in Drives |-> d \in Online]
      BY <1>9, <2>6 DEF PollInit, ResetFlags, ResetRegs, Goto
    <3> QED
      BY <3>1, <2>2
  <2>7. CASE poll = "update_cs"
    BY <1>9, <2>1, <2>7, <1>t DEF PollInit, ResetFlags, ResetRegs, Goto, driveVars
  <2> QED
    BY <1>9, <2>4, <2>5, <2>6, <2>7 DEF PollInit, ResetFlags, ResetRegs, Goto
<1>10. CASE ResetRegs("restart", "int1") \/ Restart
  BY <1>10, <1>t DEF Restart, ResetFlags, ResetRegs, driveVars
<1>11. CASE UNCHANGED rlVars
  BY <1>11 DEF rlVars, driveVars
<1>12. CASE ReadCs
  BY <1>12, UpdateCsKeeps DEF ReadCs, driveVars
<1>13. CASE Boot
  <2>1. UpdateCs(r) \in Cs
    BY UpdateCsKeeps
  <2>2. [d \in Drives |-> d \in Online] \in [Drives -> BOOLEAN]
    <3>1. \A d \in Drives : (d \in Online) \in BOOLEAN
      OBVIOUS
    <3> QED
      BY <3>1
  <2>3. CASE poll = "boot"
    <3>1. cs' = cs /\ r' = cs /\ ready' = [d \in Drives |-> d \in Online]
      BY <1>13, <2>3 DEF Boot, Goto
    <3> QED
      BY <3>1, <2>2
  <2>4. CASE poll = "boot_cs"
    BY <1>13, <2>1, <2>4, <1>t DEF Boot, Goto, driveVars
  <2> QED
    BY <1>13, <2>3, <2>4 DEF Boot, Goto
<1> QED
  BY <1>1, <1>2, <1>3, <1>4, <1>5, <1>6, <1>7, <1>8, <1>9, <1>10, <1>11, <1>12, <1>13
  DEF Next, Host, Pass

-----------------------------------------------------------------------------
\* One case per group of actions; the host's write of CS is the interrupting
\* one.
LEMMA WorkNext == CsType /\ WorkInv /\ [Next]_rlVars => WorkInv'
<1> SUFFICES ASSUME CsType, WorkInv, [Next]_rlVars PROVE WorkInv'
  OBVIOUS
<1> USE DEF WorkInv, BusyHasWork, Working, flags
<1>1. ASSUME NEW crdy \in BOOLEAN, NEW ie \in BOOLEAN, NEW func \in HostFuncs,
             NEW ds \in Drives, WriteCs(crdy, ie, func, ds)
      PROVE  WorkInv'
  <2> DEFINE w == [cs EXCEPT !.crdy = crdy, !.ie = ie, !.func = func, !.ds = ds]
  <2>1. w \in Cs /\ w.crdy = crdy
    BY RlAssumption DEF CsType, Cs
  <2>2. UpdateCs(w).crdy = crdy
    BY <2>1, UpdateCsKeeps DEF CsType
  <2>3. /\ poll' = poll /\ r' = r
        /\ IF crdy THEN cs' = UpdateCs(w) /\ cmd_pending' = cmd_pending
                   ELSE cmd_pending'
    BY <1>1 DEF WriteCs
  <2>4. CASE crdy
    <3>1. cs'.crdy = TRUE
      BY <2>2, <2>3, <2>4
    <3> QED
      BY <3>1, <2>3, <2>4
  <2>5. CASE ~crdy
    BY <2>3, <2>5
  <2> QED
    BY <2>4, <2>5
<1>2. CASE (\E d \in DaValues : WriteDa(d)) \/ (\E n \in Counts : WriteMp(n)) \/ ReadMp
  BY <1>2 DEF WriteDa, WriteMp, ReadMp
<1>3. CASE PollInt("int1", "intr1", "cmd") \/ PollCmd \/ PollInt("int2", "intr2", "init") \/ Grant
  BY <1>3 DEF PollInt, PollCmd, Grant, Granted, Goto
<1>4. CASE ClearDrdy
  BY <1>4 DEF ClearDrdy, Load, Store, Goto, CsType, Cs
<1>5. CASE TransferSector \/ TransferEnd
  BY <1>5 DEF TransferSector, TransferEnd, Load, Store, Goto
<1>6. CASE Nop \/ GetStatus \/ SeekStart \/ ReadHdr \/ ReadNoHdr
  BY <1>6 DEF Nop, GetStatus, SeekStart, ReadHdr, ReadNoHdr, Exec, Goto
<1>7. ASSUME NEW func, Transfer(func) PROVE WorkInv'
  BY <1>7 DEF Transfer, Exec, Goto
<1>8. CASE CmdDone
  BY <1>8 DEF CmdDone, Load, Store, Goto, CsType, Cs
<1>9. CASE PollSeek
  BY <1>9 DEF PollSeek, Goto
<1>10. CASE PollInit
  <2>1. UpdateCs(r).crdy = r.crdy
    BY UpdateCsKeeps DEF CsType
  <2>2. ResetCs(FALSE).crdy
    BY DEF ResetCs
  <2> QED
    BY <1>10, <2>1, <2>2 DEF PollInit, ResetFlags, ResetRegs, Goto
<1>11. CASE ResetRegs("restart", "int1") \/ Restart
  BY <1>11 DEF Restart, ResetFlags, ResetRegs, ResetCs, Goto
<1>12. CASE UNCHANGED rlVars
  BY <1>12 DEF rlVars
<1>13. CASE ReadCs
  <2>1. UpdateCs(cs).crdy = cs.crdy /\ UpdateCs(cs).func = cs.func
    BY UpdateCsKeeps DEF CsType
  <2> QED
    BY <1>13, <2>1 DEF ReadCs
<1>14. CASE Boot
  <2>1. UpdateCs(r).crdy = r.crdy
    BY UpdateCsKeeps DEF CsType
  <2> QED
    BY <1>14, <2>1 DEF Boot, Goto
<1> QED
  BY <1>1, <1>2, <1>3, <1>4, <1>5, <1>6, <1>7, <1>8, <1>9, <1>10, <1>11, <1>12, <1>13, <1>14
  DEF Next, Host, Pass

\* However the host's writes of CS fall between the load and the store of the
\* handler's own updates of CS, a controller that says it is not ready has a
\* command or a seek that will make it ready; READNOHDR alone hangs it.
THEOREM BusyHasWorkAlways == Spec => []BusyHasWork
<1>1. Init => CsType /\ WorkInv
  BY CsTypeInit DEF Init, WorkInv, BusyHasWork, ResetCs
<1>2. CsType /\ WorkInv /\ [Next]_rlVars => CsType' /\ WorkInv'
  BY CsTypeNext, WorkNext
<1>3. WorkInv => BusyHasWork
  BY DEF WorkInv
<1> QED
  BY <1>1, <1>2, <1>3, PTL DEF Spec

-----------------------------------------------------------------------------
\* From here on the host is polite and the controller is not restarted.  Then
\* a command, a seek and a reset exclude each other: the controller is not
\* ready while a command waits or runs, or a seek waits, and it is ready all
\* through a reset.
InHand == {"load", "clear", "exec", "transfer", "differ", "checked", "sector", "error", "done", "done_store"}

PoliteInv ==
  /\ cmd_pending => ~cs.crdy /\ ~seek_pending
  /\ seek_pending => ~cs.crdy /\ cs.func = "SEEK"
  /\ poll \in InHand => ~cs.crdy /\ ~cmd_pending /\ ~seek_pending
  /\ poll \in {"clear", "exec", "differ", "sector", "error", "done_store", "update_cs", "boot_cs"}
       => AllButDrdy(r, cs)
  /\ poll \in {"reset", "online", "boot", "boot_cs"} => init_pending
  /\ (init_pending \/ poll = "update_cs") => cs.crdy
  /\ ds10 = cs.ds
  /\ restarts = 0 /\ poll # "restart"

\* The host finds the controller ready, so a write of CS meets no command, no
\* seek and no reset.
LEMMA PoliteHostStep ==
  ASSUME PoliteHost, CsType, PoliteInv, NEW crdy \in BOOLEAN, NEW ie \in BOOLEAN,
         NEW func \in HostFuncs, NEW ds \in Drives, WriteCs(crdy, ie, func, ds)
  PROVE  PoliteInv'
<1> DEFINE w == [cs EXCEPT !.crdy = crdy, !.ie = ie, !.func = func, !.ds = ds]
<1>1. w \in Cs /\ w.crdy = crdy /\ w.ds = ds
  BY RlAssumption DEF CsType, Cs
<1>2. UpdateCs(w).crdy = crdy /\ UpdateCs(w).ds = ds /\ UpdateCs(w) \in Cs
  BY <1>1, UpdateCsKeeps DEF CsType
<1>3. /\ cs.crdy /\ ~init_pending /\ poll # "update_cs"
      /\ ~cmd_pending /\ ~seek_pending /\ poll \notin InHand
      /\ poll \notin {"reset", "online", "restart", "boot", "boot_cs"}
  BY DEF WriteCs, Polite, PoliteInv
<1>4. /\ poll' = poll /\ r' = r /\ ds10' = ds /\ seek_pending' = seek_pending
      /\ init_pending' = init_pending /\ restarts' = restarts
      /\ IF crdy THEN cs' = UpdateCs(w) /\ cmd_pending' = cmd_pending
                 ELSE cs' = [UpdateCs(w) EXCEPT !.err = FALSE] /\ cmd_pending'
  BY DEF WriteCs
<1>5. cs'.crdy = crdy /\ cs'.ds = ds
  BY <1>2, <1>4 DEF Cs
<1> QED
  BY <1>3, <1>4, <1>5 DEF PoliteInv, InHand

LEMMA PoliteNext ==
  ASSUME PoliteHost, Restarts = 0, CsType, PoliteInv, [Next]_rlVars
  PROVE  PoliteInv'
<1> USE DEF PoliteInv, InHand, flags, AllButDrdy
<1>1. ASSUME NEW crdy \in BOOLEAN, NEW ie \in BOOLEAN, NEW func \in HostFuncs,
             NEW ds \in Drives, WriteCs(crdy, ie, func, ds)
      PROVE  PoliteInv'
  BY <1>1, PoliteHostStep
<1>2. CASE (\E d \in DaValues : WriteDa(d)) \/ (\E n \in Counts : WriteMp(n)) \/ ReadMp
  BY <1>2 DEF WriteDa, WriteMp, ReadMp
<1>3. CASE PollInt("int1", "intr1", "cmd") \/ PollCmd \/ PollInt("int2", "intr2", "init") \/ Grant
  BY <1>3 DEF PollInt, PollCmd, Grant, Granted, Goto
<1>4. CASE ClearDrdy
  <2> DEFINE c == [r EXCEPT !.drdy = FALSE]
  <2>1. c.crdy = r.crdy /\ c.func = r.func /\ c.ds = r.ds
    BY DEF CsType, Cs
  <2>2. CASE poll = "load"
    BY <1>4, <2>2 DEF ClearDrdy, Load, Store, Goto
  <2>3. CASE poll = "clear"
    <3>1. /\ poll' = "exec" /\ cs' = c /\ r' = c
          /\ UNCHANGED <<ds10, cmd_pending, seek_pending, init_pending, restarts>>
      BY <1>4, <2>3 DEF ClearDrdy, Load, Store, Goto
    <3> HIDE DEF c
    <3> QED
      BY <3>1, <2>1, <2>3
  <2> QED
    BY <1>4, <2>2, <2>3 DEF ClearDrdy, Load, Store, Goto
<1>5. CASE TransferSector \/ TransferEnd
  BY <1>5 DEF TransferSector, TransferEnd, Load, Store, Goto, CsType, Cs
<1>6. CASE Nop \/ GetStatus \/ SeekStart \/ ReadHdr \/ ReadNoHdr
  BY <1>6 DEF Nop, GetStatus, SeekStart, ReadHdr, ReadNoHdr, Exec, Goto
<1>7. ASSUME NEW func, Transfer(func) PROVE PoliteInv'
  BY <1>7 DEF Transfer, Exec, Goto
<1>8. CASE CmdDone
  <2> DEFINE c == [r EXCEPT !.crdy = TRUE, !.drdy = TRUE]
  <2>1. c.crdy /\ c.func = r.func /\ c.ds = r.ds
    BY DEF CsType, Cs
  <2>2. CASE poll = "done"
    BY <1>8, <2>2 DEF CmdDone, Load, Store, Goto
  <2>3. CASE poll = "done_store"
    <3>1. /\ poll' = "done_int" /\ cs' = c
          /\ UNCHANGED <<ds10, cmd_pending, seek_pending, init_pending, restarts>>
      BY <1>8, <2>3 DEF CmdDone, Load, Store, Goto
    <3> HIDE DEF c
    <3> QED
      BY <3>1, <2>1, <2>3
  <2>4. CASE poll = "done_int"
    BY <1>8, <2>4 DEF CmdDone, Load, Store, Goto
  <2> QED
    BY <1>8, <2>2, <2>3, <2>4 DEF CmdDone, Load, Store, Goto
<1>9. CASE PollSeek
  BY <1>9 DEF PollSeek, Goto
<1>10. CASE PollInit
  <2>1. UpdateCs(r).crdy = r.crdy /\ UpdateCs(r).ds = r.ds
    BY UpdateCsKeeps DEF CsType
  <2>2. ResetCs(FALSE).crdy /\ ResetCs(FALSE).ds = 0
    BY DEF ResetCs
  <2>3. CASE poll = "init"
    BY <1>10, <2>3 DEF PollInit, ResetFlags, ResetRegs, Goto
  <2>4. CASE poll = "reset"
    <3>1. /\ poll' = "online" /\ cs' = ResetCs(FALSE) /\ ds10' = 0
          /\ UNCHANGED <<cmd_pending, seek_pending, init_pending, restarts>>
      BY <1>10, <2>4 DEF PollInit, ResetFlags, ResetRegs, Goto
    <3> QED
      BY <3>1, <2>2, <2>4
  <2>5. CASE poll = "online"
    BY <1>10, <2>5 DEF PollInit, ResetFlags, ResetRegs, Goto
  <2>6. CASE poll = "update_cs"
    BY <1>10, <2>1, <2>6 DEF PollInit, ResetFlags, ResetRegs, Goto
  <2> QED
    BY <1>10, <2>1, <2>2, <2>3, <2>4, <2>5, <2>6 DEF PollInit, ResetFlags, ResetRegs, Goto
<1>11. CASE ResetRegs("restart", "int1") \/ Restart
  BY <1>11 DEF Restart, ResetRegs, Goto
<1>12. CASE UNCHANGED rlVars
  BY <1>12 DEF rlVars
<1>13. CASE ReadCs
  <2>1. AllButDrdy(UpdateCs(cs), cs)
    BY DEF CsType, Cs, UpdateCs
  <2>2. cs' = UpdateCs(cs) /\ ds10' = cs.ds
        /\ UNCHANGED <<cmd_pending, seek_pending, init_pending, poll, r, restarts>>
    BY <1>13 DEF ReadCs
  <2> QED
    BY <2>1, <2>2
<1>14. CASE Boot
  <2>1. AllButDrdy(UpdateCs(r), r)
    BY DEF CsType, Cs, UpdateCs
  <2>2. CASE poll = "boot"
    BY <1>14, <2>2 DEF Boot, Goto
  <2>3. CASE poll = "boot_cs"
    <3>1. /\ poll' = "int1" /\ cs' = UpdateCs(r) /\ ds10' = r.ds
          /\ UNCHANGED <<cmd_pending, seek_pending, init_pending, restarts>>
      BY <1>14, <2>3 DEF Boot, Goto
    <3> QED
      BY <3>1, <2>1, <2>3
  <2> QED
    BY <1>14, <2>2, <2>3 DEF Boot, Goto
<1> QED
  BY <1>1, <1>2, <1>3, <1>4, <1>5, <1>6, <1>7, <1>8, <1>9, <1>10, <1>11, <1>12, <1>13, <1>14
  DEF Next, Host, Pass

LEMMA PoliteAlways ==
  ASSUME PoliteHost, Restarts = 0
  PROVE  Spec => []PoliteInv
<1>1. Init => CsType /\ PoliteInv
  BY CsTypeInit DEF Init, PoliteInv, InHand, ResetCs
<1>2. CsType /\ PoliteInv /\ [Next]_rlVars => CsType' /\ PoliteInv'
  BY CsTypeNext, PoliteNext
<1> QED
  BY <1>1, <1>2, PTL DEF Spec

\* A host that leaves the registers alone while a command runs loses no write
\* to the handler's stores of its copy of CS.
THEOREM CopyIsCurrentAlways ==
  ASSUME PoliteHost, Restarts = 0
  PROVE  Spec => []CopyIsCurrent
<1>1. PoliteInv => CopyIsCurrent
  BY DEF PoliteInv, CopyIsCurrent
<1> QED
  BY <1>1, PoliteAlways, PTL

\* The drive selected when a seek's time is up, whose heads the handler then
\* moves, is the drive the seek was commanded for.
THEOREM SeekIsSelectedAlways ==
  ASSUME PoliteHost, Restarts = 0
  PROVE  Spec => []SeekIsSelected
<1>1. PoliteInv => SeekIsSelected
  BY DEF PoliteInv, SeekIsSelected
<1> QED
  BY <1>1, PoliteAlways, PTL
-----------------------------------------------------------------------------
(* The types of the rest.  A sector of a transfer takes one from the count *)
(* in MP, so the count stays a number only because it is never below what  *)
(* the transfer has left: the host cannot write MP then.                   *)
Slots == [kind : {"wc", "status", "header"}, v : Nat]

RestType ==
  /\ da \in 0 .. DaSpace - 1 /\ ds10 \in Drives /\ mp \in Slots \X Slots \X Slots
  /\ curr \in [Drives -> Pos] /\ new \in [Drives -> Pos]
  /\ cmd_pending \in BOOLEAN /\ int_pending \in BOOLEAN
  /\ seek_pending \in BOOLEAN /\ init_pending \in BOOLEAN
  /\ seek_time \in 0 .. SeekTime /\ poll \in Steps /\ wlen \in Nat
  /\ from \in {"cmd", "seek"} /\ restarts \in 0 .. Restarts

CountInv ==
  /\ poll \in {"differ", "checked", "sector"} => wlen > 0
  /\ (poll \in {"transfer", "differ", "checked", "sector"} /\ wlen > 0) => mp[1].kind = "wc" /\ mp[1].v >= wlen

\* The disk address register has values, and 0 is one of them.
LEMMA DaRange ==
  /\ DaSpace \in Nat \ {0}
  /\ \A n \in Nat : n % DaSpace \in 0 .. DaSpace - 1
  /\ \A d \in 0 .. DaSpace - 1 : DaCyl(d) \in Nat /\ DaSect(d) \in Nat
<1>1. 2 * SectSpace \in Nat \ {0} /\ Cyls + 1 \in Nat \ {0}
  BY RlAssumption
<1>2. \A i, j \in Nat \ {0} : i * j \in Nat \ {0}
  OBVIOUS
<1>3. DaSpace \in Nat \ {0}
  BY <1>1, <1>2 DEF DaSpace
<1>4. \A d \in 0 .. DaSpace - 1 : DaCyl(d) \in Nat /\ DaSect(d) \in Nat
  BY <1>1, RlAssumption DEF DaCyl, DaSect
<1>5. \A k \in Nat \ {0} : \A n \in Nat : n % k \in 0 .. k - 1
  OBVIOUS
<1> QED
  BY <1>3, <1>4, <1>5

\* A bit of a register.
LEMMA BitRange == \A n \in Nat, bit \in Nat \ {0} : Bit(n, bit) \in {0, 1}
BY DEF Bit

\* Wherever a seek starts it ends on the disk.
LEMMA SeekTargetRange ==
  ASSUME NEW c \in 0 .. Cyls - 1, NEW d \in 0 .. DaSpace - 1
  PROVE  SeekTarget(c, d) \in 0 .. Cyls - 1
<1>1. DaCyl(d) \in Nat /\ c \in Nat
  BY DaRange
<1>2. Cyls \in Nat \ {0}
  BY RlAssumption
<1>3. \A n \in Nat : c + n \in Nat /\ (c + n < Cyls => c + n \in 0 .. Cyls - 1)
                    /\ (c - n >= 0 => c - n \in 0 .. Cyls - 1)
  BY <1>1, <1>2
<1> QED
  BY <1>1, <1>2, <1>3 DEF SeekTarget

\* What the registers behind MP may hold.
LEMMA SlotTypes ==
  /\ \A n \in Nat : Wc(n) \in Slots
  /\ \A h \in {0, 1} : Gs(h) \in Slots
  /\ \A p \in Pos : Hdr(p) \in Slots
  /\ \A x \in Slots : Same(x) \in Slots \X Slots \X Slots
BY RlAssumption DEF Wc, Gs, Hdr, Slots, Pos, Same

-----------------------------------------------------------------------------
\* The host's steps keep the types; it finds no transfer under way.
LEMMA RestHost ==
  ASSUME PoliteHost, CsType, PoliteInv, RestType, CountInv, Host
  PROVE  RestType' /\ CountInv'
<1> USE DEF RestType, CountInv
<1>1. ASSUME NEW crdy \in BOOLEAN, NEW ie \in BOOLEAN, NEW func \in HostFuncs,
             NEW ds \in Drives, WriteCs(crdy, ie, func, ds)
      PROVE  RestType' /\ CountInv'
  BY <1>1 DEF WriteCs, hostRegs, driveVars
<1>2. ASSUME NEW d \in DaValues, WriteDa(d)
      PROVE  RestType' /\ CountInv'
  BY <1>2, RlAssumption DEF WriteDa, driveVars, flags
<1>3. ASSUME \/ \E n \in Counts : WriteMp(n)
             \/ ReadMp
      PROVE  RestType' /\ CountInv'
  <2>1. mp' \in Slots \X Slots \X Slots
    BY <1>3, SlotTypes, RlAssumption DEF WriteMp, ReadMp
  <2>2. poll \notin {"transfer", "differ", "checked", "sector"} /\ poll' = poll
    BY <1>3 DEF WriteMp, ReadMp, Polite, PoliteInv, InHand
  <2> QED
    BY <1>3, <2>1, <2>2 DEF WriteMp, ReadMp, driveVars, flags
<1>4. CASE ReadCs
  BY <1>4 DEF ReadCs, CsType, Cs, hostRegs, driveVars, flags
<1> QED
  BY <1>1, <1>2, <1>3, <1>4 DEF Host

LEMMA RestPass ==
  ASSUME CsType, RestType, CountInv, Pass \/ Grant \/ Restart
  PROVE  RestType' /\ CountInv'
<1> USE DEF RestType, CountInv, Goto, hostRegs, driveVars, flags, Steps
<1>p. \A f \in [Drives -> Pos], p \in Pos, d \in Drives : [f EXCEPT ![d] = p] \in [Drives -> Pos]
  OBVIOUS
<1>b. Bit(da, HsBit) \in {0, 1}
  BY BitRange, RlAssumption, DaRange
<1>1. CASE PollInt("int1", "intr1", "cmd") \/ PollCmd \/ PollInt("int2", "intr2", "init") \/ Grant
  BY <1>1 DEF PollInt, PollCmd, Grant, Granted
<1>2. CASE ClearDrdy \/ TransferEnd
  BY <1>2 DEF ClearDrdy, TransferEnd, Load, Store
<1>3. CASE Nop \/ ReadNoHdr
  BY <1>3 DEF Nop, ReadNoHdr, Exec
<1>4. CASE GetStatus \/ ReadHdr
  <2>1. curr[ds10] \in Pos /\ curr[ds10].head \in {0, 1}
    BY DEF Pos
  <2>2. mp' \in Slots \X Slots \X Slots
    BY <1>4, <2>1, SlotTypes DEF GetStatus, ReadHdr
  <2> QED
    BY <1>4, <2>2 DEF GetStatus, ReadHdr, Exec
<1>5. CASE SeekStart
  <2>1. SeekTarget(curr[ds10].cyl, da) \in 0 .. Cyls - 1
    BY SeekTargetRange DEF Pos
  <2> DEFINE p == [cyl |-> SeekTarget(curr[ds10].cyl, da), head |-> Bit(da, HsBit)]
  <2>2. p \in Pos
    BY <2>1, <1>b DEF Pos
  <2>3. new' = [new EXCEPT ![ds10] = p]
    BY <1>5 DEF SeekStart
  <2> HIDE DEF p
  <2>4. new' \in [Drives -> Pos]
    BY <2>2, <2>3, <1>p
  <2> QED
    BY <1>5, <2>4, RlAssumption DEF SeekStart, Exec
<1>6. ASSUME NEW func, Transfer(func) PROVE RestType' /\ CountInv'
  <2>1. curr' \in [Drives -> Pos]
    <3> DEFINE p == [curr[ds10] EXCEPT !.head = Bit(da, HsBit)]
    <3>1. p \in Pos
      BY <1>b DEF Pos
    <3>2. curr' = [curr EXCEPT ![ds10] = p]
      BY <1>6 DEF Transfer
    <3> HIDE DEF p
    <3> QED
      BY <3>1, <3>2, <1>p
  <2> DEFINE want == IF mp[1].kind = "wc" THEN mp[1].v ELSE 0
             left == Sectors - DaSect(da)
  <2>2. want \in Nat /\ left \in Int
    BY DaRange, RlAssumption DEF Slots
  <2>3. wlen' = IF left >= 0 /\ want > left THEN left ELSE want
    BY <1>6 DEF Transfer
  <2>4. mp' = mp /\ poll' = "transfer"
    BY <1>6 DEF Transfer, Exec
  <2>5. wlen' \in Nat /\ (wlen' > 0 => mp[1].kind = "wc" /\ mp[1].v >= wlen')
    <3> HIDE DEF left
    <3> QED
      BY <2>2, <2>3
  <2> QED
    BY <1>6, <2>1, <2>4, <2>5 DEF Transfer, Exec
<1>7. CASE TransferSector
  <2>1. CASE poll \in {"transfer", "checked"}
    BY <1>7, <2>1 DEF TransferSector, Load, Store
  <2>0. CASE poll = "differ"
    BY <1>7, <2>0 DEF TransferSector, Load, Store, CsType, Cs
  <2>2. CASE poll = "sector"
    <3> DEFINE x == [mp[1] EXCEPT !.v = mp[1].v - 1]
    <3>1. mp[1].kind = "wc" /\ mp[1].v >= wlen /\ wlen > 0
      BY <2>2
    <3>2. x \in Slots /\ x.kind = "wc" /\ x.v = mp[1].v - 1
      BY <3>1 DEF Slots
    <3>3. mp' = [mp EXCEPT ![1] = x] /\ da' = (da + 1) % DaSpace /\ wlen' = wlen - 1
      BY <1>7, <2>2 DEF TransferSector, Load, Store
    <3> HIDE DEF x
    <3>4. mp' \in Slots \X Slots \X Slots /\ mp'[1] = x
      BY <3>2, <3>3
    <3>5. da' \in 0 .. DaSpace - 1
      <4>1. da \in 0 .. DaSpace - 1 /\ da' = (da + 1) % DaSpace
        BY <3>3
      <4> QED
        BY ONLY <4>1, DaRange
    <3>6. /\ poll' = "transfer"
          /\ UNCHANGED <<ds10, curr, new, flags, from, restarts>>
      BY <1>7, <2>2 DEF TransferSector, Load, Store
    <3>7. wlen' \in Nat /\ (wlen' > 0 => mp'[1].v >= wlen')
      BY <3>1, <3>2, <3>3, <3>4 DEF Slots
    <3> QED
      BY <3>2, <3>4, <3>5, <3>6, <3>7
  <2> QED
    BY <1>7, <2>0, <2>1, <2>2 DEF TransferSector, Load, Store
<1>8. CASE CmdDone
  BY <1>8 DEF CmdDone, Load, Store, CsType, Cs
<1>9. CASE PollSeek
  <2>1. curr' \in [Drives -> Pos]
    BY <1>9 DEF PollSeek
  <2>2. seek_time' \in 0 .. SeekTime
    BY <1>9, RlAssumption DEF PollSeek
  <2>3. poll' \in {"int2", "done"} /\ from' \in {"cmd", "seek"} /\ seek_pending' \in BOOLEAN
        /\ UNCHANGED <<da, mp, ds10, new, cmd_pending, int_pending, init_pending, wlen, restarts>>
    BY <1>9 DEF PollSeek
  <2> QED
    BY <2>1, <2>2, <2>3
<1>10. ASSUME NEW at, NEW next \in Steps \ {"transfer", "differ", "checked", "sector"}, ResetRegs(at, next)
       PROVE  RestType' /\ CountInv'
  <2>1. [d \in Drives |-> [cyl |-> 0, head |-> 0]] \in [Drives -> Pos]
    BY RlAssumption DEF Pos
  <2>2. Same(Wc(0)) \in Slots \X Slots \X Slots
    BY SlotTypes
  <2> QED
    BY <1>10, <2>1, <2>2, DaRange, RlAssumption DEF ResetRegs
<1>11. ASSUME NEW at, NEW next \in Steps \ {"transfer", "differ", "checked", "sector"}, ResetFlags(at, next),
              restarts' \in 0 .. Restarts
       PROVE  RestType' /\ CountInv'
  BY <1>11 DEF ResetFlags
<1>12. CASE PollInit
  <2>1. CASE ResetFlags("init", "reset") /\ UNCHANGED restarts
    BY <2>1, <1>11
  <2>2. CASE ResetRegs("reset", "online")
    BY <2>2, <1>10
  <2>3. CASE /\ ~init_pending /\ Goto("init", "int1")
             /\ UNCHANGED <<cs, hostRegs, ds10, driveVars, flags, r, wlen, from, restarts>>
    BY <2>3
  <2>4. CASE /\ Goto("online", "update_cs") /\ init_pending' = FALSE
             /\ UNCHANGED <<cs, hostRegs, ds10, curr, new, cmd_pending, int_pending,
                    seek_pending, seek_time, wlen, from, restarts>>
    BY <2>4
  <2>5. CASE /\ Goto("update_cs", "int1") /\ ds10' = r.ds
             /\ UNCHANGED <<hostRegs, driveVars, flags, wlen, from, restarts>>
    BY <2>5 DEF CsType, Cs
  <2> QED
    BY <1>12, <2>1, <2>2, <2>3, <2>4, <2>5 DEF PollInit
<1>13. CASE ResetRegs("restart", "int1")
  BY <1>13, <1>10
<1>14. CASE Restart
  BY <1>14, <1>11, RlAssumption DEF Restart
<1>15. CASE Boot
  BY <1>15 DEF Boot, CsType, Cs
<1> QED
  BY <1>1, <1>2, <1>3, <1>4, <1>5, <1>6, <1>7, <1>8, <1>9, <1>12, <1>13, <1>14, <1>15 DEF Pass

LEMMA TypesAlways ==
  ASSUME PoliteHost, Restarts = 0
  PROVE  Spec => [](CsType /\ RestType /\ CountInv)
<1>1. Init => RestType /\ CountInv
  <2> SUFFICES ASSUME Init PROVE RestType /\ CountInv
    OBVIOUS
  <2>1. [d \in Drives |-> [cyl |-> 0, head |-> 0]] \in [Drives -> Pos]
    BY RlAssumption DEF Pos
  <2>2. Same(Wc(0)) \in Slots \X Slots \X Slots
    BY SlotTypes
  <2>3. /\ da = 0 /\ ds10 = 0 /\ mp = Same(Wc(0)) /\ curr = [d \in Drives |-> [cyl |-> 0, head |-> 0]]
        /\ new = curr /\ seek_time = 0 /\ wlen = 0 /\ restarts = 0 /\ poll = "boot" /\ from = "cmd"
        /\ cmd_pending = FALSE /\ int_pending = FALSE /\ seek_pending = FALSE
        /\ init_pending = TRUE
    BY DEF Init
  <2>4. 0 \in 0 .. DaSpace - 1 /\ 0 \in Drives /\ 0 \in 0 .. SeekTime /\ 0 \in 0 .. Restarts
    BY DaRange, RlAssumption
  <2>5. "boot" \in Steps
    BY DEF Steps
  <2>6. curr \in [Drives -> Pos] /\ mp \in Slots \X Slots \X Slots
    BY <2>1, <2>2, <2>3
  <2> QED
    BY <2>3, <2>4, <2>5, <2>6 DEF RestType, CountInv
<1>2. CsType /\ PoliteInv /\ RestType /\ CountInv /\ [Next]_rlVars => RestType' /\ CountInv'
  <2> SUFFICES ASSUME CsType, PoliteInv, RestType, CountInv, [Next]_rlVars
               PROVE  RestType' /\ CountInv'
    OBVIOUS
  <2>1. CASE UNCHANGED rlVars
    BY <2>1 DEF rlVars, RestType, CountInv, hostRegs, driveVars, flags
  <2> QED
    BY <2>1, RestHost, RestPass DEF Next
<1>3. Init => CsType
  BY CsTypeInit
<1>4. CsType /\ [Next]_rlVars => CsType'
  BY CsTypeNext
<1> QED
  BY <1>1, <1>2, <1>3, <1>4, PoliteAlways, PTL DEF Spec

\* A polite host and no restart keep Rl11!RlTypeOK: in particular no seek
\* ends off the disk, the disk address wraps in its register, and a transfer
\* never counts MP below zero.
THEOREM RlTypeCorrect ==
  ASSUME PoliteHost, Restarts = 0
  PROVE  Spec => []RlTypeOK
<1>1. CsType /\ RestType => RlTypeOK
  <2> SUFFICES ASSUME CsType, RestType PROVE RlTypeOK
    OBVIOUS
  <2>1. Len(mp) = 3
    BY DEF RestType
  <2> QED
    BY <2>1 DEF CsType, RestType, RlTypeOK
<1> QED
  BY <1>1, TypesAlways, PTL

-----------------------------------------------------------------------------
(* What relates a command in hand to the registers: it owes no interrupt   *)
(* yet, the heads will go where its disk address says, the header it read  *)
(* is in MP.  A controller that is still to be reset has seen no command.  *)
ControllerInv ==
  /\ pend => cs.crdy
  /\ seek_pending => new[ds10].cyl = SeekTarget(curr[ds10].cyl, da)
  /\ poll \in {"transfer", "differ", "checked", "sector", "error"} => cs.func \in {"READ", "WRITE", "WRITECHK"}
  /\ init_pending => /\ cs.func = "NOP" /\ cs.ds = 0 /\ cs.ie = FALSE /\ da = 0
                     /\ \A d \in Drives : curr[d].cyl = 0
  /\ (poll \in {"done", "done_store"} /\ cs.func = "READHDR")
       => mp = <<Hdr(curr[cs.ds]), Wc(0), Wc(0)>>

\* The host finds no command in hand and no reset to come.
LEMMA ControllerInvHost ==
  ASSUME PoliteHost, CsType, PoliteInv, ControllerInv, Host
  PROVE  ControllerInv'
<1> USE DEF ControllerInv
<1>1. ASSUME NEW crdy \in BOOLEAN, NEW ie \in BOOLEAN, NEW func \in HostFuncs,
             NEW ds \in Drives, WriteCs(crdy, ie, func, ds)
      PROVE  ControllerInv'
  <2>1. /\ ~init_pending /\ ~seek_pending /\ ~pend
        /\ poll \notin {"transfer", "differ", "checked", "sector", "error", "done", "done_store"}
    BY <1>1 DEF WriteCs, Polite, PoliteInv, InHand, pend
  <2>2. /\ poll' = poll /\ r' = r /\ seek_pending' = seek_pending
        /\ init_pending' = init_pending
    BY <1>1 DEF WriteCs
  <2>3. pend' => cs'.crdy
    <3> DEFINE w == [cs EXCEPT !.crdy = crdy, !.ie = ie, !.func = func, !.ds = ds]
    <3>1. w \in Cs /\ w.crdy = crdy /\ w.ie = ie
      BY RlAssumption DEF CsType, Cs
    <3>2. UpdateCs(w).crdy = crdy /\ UpdateCs(w).ie = ie
      BY <3>1, UpdateCsKeeps DEF CsType
    <3>3. crdy => cs' = UpdateCs(w)
      BY <1>1 DEF WriteCs
    <3>4. ~crdy => int_pending' = FALSE
      BY <1>1 DEF WriteCs
    <3> QED
      BY <2>1, <2>2, <3>2, <3>3, <3>4 DEF pend
  <2> QED
    BY <2>1, <2>2, <2>3
<1>2. CASE (\E d \in DaValues : WriteDa(d)) \/ (\E n \in Counts : WriteMp(n)) \/ ReadMp
  <2>1. /\ ~init_pending /\ ~seek_pending
        /\ poll \notin {"transfer", "differ", "checked", "sector", "error", "done", "done_store"}
    BY <1>2 DEF WriteDa, WriteMp, ReadMp, Polite, PoliteInv, InHand
  <2>2. UNCHANGED <<cs, ds10, driveVars, flags, poll, r>>
    BY <1>2 DEF WriteDa, WriteMp, ReadMp
  <2> QED
    BY <2>1, <2>2 DEF flags, driveVars, pend
<1>3. CASE ReadCs
  <2>1. AllButDrdy(cs', cs) /\ ds10' = ds10
    BY <1>3 DEF ReadCs, CsType, Cs, UpdateCs, AllButDrdy, PoliteInv
  <2>2. UNCHANGED <<hostRegs, driveVars, flags, poll, r>>
    BY <1>3 DEF ReadCs
  <2> QED
    BY <2>1, <2>2 DEF hostRegs, driveVars, flags, pend, AllButDrdy
<1> QED
  BY <1>1, <1>2, <1>3 DEF Host

\* A store of a copy of CS that is current changes nothing but DRDY and the
\* bits it names.
LEMMA ControllerInvPass ==
  ASSUME Restarts = 0, CsType, RestType, PoliteInv, ControllerInv, Pass \/ Grant \/ Restart
  PROVE  ControllerInv'
<1> USE DEF ControllerInv, Goto, hostRegs, driveVars, flags, pend
<1>1. CASE PollInt("int1", "intr1", "cmd") \/ PollCmd \/ PollInt("int2", "intr2", "init") \/ Grant
  BY <1>1 DEF PollInt, PollCmd, Grant, Granted
<1>2. CASE ClearDrdy
  <2> DEFINE c == [r EXCEPT !.drdy = FALSE]
  <2>1. c.crdy = r.crdy /\ c.func = r.func /\ c.ds = r.ds /\ c.ie = r.ie
    BY DEF CsType, Cs
  <2>2. CASE poll = "load"
    BY <1>2, <2>2 DEF ClearDrdy, Load, Store
  <2>3. CASE poll = "clear"
    <3>1. /\ poll' = "exec" /\ cs' = c /\ r' = c
          /\ UNCHANGED <<ds10, mp, da, driveVars, flags>>
      BY <1>2, <2>3 DEF ClearDrdy, Load, Store
    <3> HIDE DEF c
    <3> QED
      BY <3>1, <2>1, <2>3 DEF PoliteInv, AllButDrdy
  <2> QED
    BY <1>2, <2>2, <2>3 DEF ClearDrdy, Load, Store
<1>3. CASE Nop \/ GetStatus \/ ReadHdr \/ ReadNoHdr
  <2>1. poll = "exec" /\ cs.func = r.func /\ ~init_pending /\ ~seek_pending /\ ds10 = cs.ds
    BY <1>3 DEF Nop, GetStatus, ReadHdr, ReadNoHdr, Exec, PoliteInv, AllButDrdy, InHand
  <2> QED
    BY <1>3, <2>1 DEF Nop, GetStatus, ReadHdr, ReadNoHdr, Exec
<1>4. CASE SeekStart
  <2>1. ~init_pending /\ poll = "exec"
    BY <1>4 DEF SeekStart, Exec, PoliteInv, InHand
  <2> DEFINE p == [cyl |-> SeekTarget(curr[ds10].cyl, da), head |-> Bit(da, HsBit)]
  <2>2. new' = [new EXCEPT ![ds10] = p] /\ p.cyl = SeekTarget(curr[ds10].cyl, da)
    BY <1>4 DEF SeekStart
  <2>3. poll' = "seek" /\ UNCHANGED <<cs, da, mp, ds10, curr, int_pending, init_pending>>
    BY <1>4 DEF SeekStart, Exec
  <2> HIDE DEF p
  <2>4. new'[ds10] = p
    BY <2>2 DEF RestType
  <2>5. ~pend'
    BY <2>1, <2>3 DEF PoliteInv, InHand
  <2> QED
    BY <2>1, <2>2, <2>3, <2>4, <2>5
<1>5. ASSUME NEW func \in {"READ", "WRITE", "WRITECHK"}, Transfer(func)
      PROVE  ControllerInv'
  <2>1. poll = "exec" /\ cs.func = func /\ ~init_pending /\ ~seek_pending
    BY <1>5 DEF Transfer, Exec, PoliteInv, AllButDrdy, InHand
  <2>2. poll' = "transfer" /\ UNCHANGED <<cs, ds10, flags, r>>
    BY <1>5 DEF Transfer, Exec
  <2> QED
    BY <2>1, <2>2
<1>6. CASE TransferSector \/ TransferEnd
  <2> DEFINE c == [r EXCEPT !.err = TRUE]
  <2>1. c.crdy = r.crdy /\ c.func = r.func /\ c.ds = r.ds /\ c.ie = r.ie
    BY DEF CsType, Cs
  <2>2. /\ poll \in {"transfer", "differ", "checked", "sector", "error"}
        /\ poll' \in {"transfer", "differ", "checked", "sector", "error", "done"}
        /\ cs' \in {cs, r, c} /\ (cs' # cs => poll \in {"differ", "sector", "error"})
        /\ UNCHANGED <<ds10, driveVars, flags>>
    BY <1>6 DEF TransferSector, TransferEnd, Load, Store
  <2> HIDE DEF c
  <2>3. ~init_pending /\ ~seek_pending
    BY <2>2 DEF PoliteInv, InHand
  <2>4. AllButDrdy(cs', cs) \/ (cs'.crdy = cs.crdy /\ cs'.func = cs.func /\ cs'.ie = cs.ie)
    BY <2>1, <2>2 DEF PoliteInv, AllButDrdy
  <2> QED
    BY <2>2, <2>3, <2>4 DEF AllButDrdy
<1>7. CASE CmdDone
  <2> DEFINE c == [r EXCEPT !.crdy = TRUE, !.drdy = TRUE]
  <2>1. c.crdy /\ c.func = r.func /\ c.ds = r.ds /\ c.ie = r.ie
    BY DEF CsType, Cs
  <2>2. CASE poll = "done"
    BY <1>7, <2>2 DEF CmdDone, Load, Store
  <2>3. CASE poll = "done_store"
    <3>1. /\ poll' = "done_int" /\ cs' = c
          /\ UNCHANGED <<mp, da, ds10, driveVars, flags>>
      BY <1>7, <2>3 DEF CmdDone, Load, Store
    <3>2. ~init_pending /\ ~seek_pending
      BY <2>3 DEF PoliteInv, InHand
    <3> HIDE DEF c
    <3> QED
      BY <3>1, <3>2, <2>1, <2>3
  <2>4. CASE poll = "done_int"
    BY <1>7, <2>4 DEF CmdDone, Load, Store
  <2> QED
    BY <1>7, <2>2, <2>3, <2>4 DEF CmdDone, Load, Store
<1>8. CASE PollSeek
  <2>1. seek_pending => ~init_pending /\ cs.func = "SEEK"
    BY DEF PoliteInv
  <2> QED
    BY <1>8, <2>1 DEF PollSeek
<1>9. CASE PollInit
  <2>1. CASE ~init_pending /\ poll = "init"
    BY <1>9, <2>1 DEF PollInit, ResetFlags, ResetRegs
  <2>2. CASE init_pending /\ poll = "init"
    <3>1. ~seek_pending /\ cs.crdy
      BY <2>2 DEF PoliteInv
    <3> QED
      BY <1>9, <2>2, <3>1 DEF PollInit, ResetFlags, ResetRegs
  <2>3. CASE poll = "reset"
    <3>1. /\ ResetRegs("reset", "online")
          /\ init_pending /\ cs.crdy /\ ~seek_pending
      BY <1>9, <2>3 DEF PollInit, ResetFlags, PoliteInv
    <3>2. /\ cs' = ResetCs(FALSE) /\ da' = 0 /\ poll' = "online" /\ r' = r
          /\ curr' = [d \in Drives |-> [cyl |-> 0, head |-> 0]] /\ UNCHANGED flags
      BY <3>1 DEF ResetRegs
    <3>3. cs'.crdy /\ cs'.func = "NOP" /\ cs'.ds = 0 /\ cs'.ie = FALSE
      BY <3>2 DEF ResetCs
    <3>4. \A d \in Drives : curr'[d].cyl = 0
      BY <3>2
    <3> QED
      BY <3>1, <3>2, <3>3, <3>4
  <2>4. CASE poll = "online"
    BY <1>9, <2>4 DEF PollInit, ResetFlags, ResetRegs
  <2>5. CASE poll = "update_cs"
    <3>1. /\ poll' = "int1" /\ cs' = UpdateCs(r) /\ ds10' = r.ds /\ r' = NoCopy
          /\ UNCHANGED <<mp, da, driveVars, flags>>
      BY <1>9, <2>5 DEF PollInit, ResetFlags, ResetRegs
    <3>2. AllButDrdy(cs', cs) /\ ds10' = ds10
      BY <2>5, <3>1, UpdateCsKeeps DEF PoliteInv, AllButDrdy, UpdateCs, CsType, Cs
    <3> QED
      BY <3>1, <3>2 DEF AllButDrdy
  <2> QED
    BY <1>9, <2>1, <2>2, <2>3, <2>4, <2>5 DEF PollInit, ResetFlags, ResetRegs
<1>10. CASE ResetRegs("restart", "int1") \/ Restart
  BY <1>10 DEF ResetRegs, Restart, PoliteInv
<1>11. CASE Boot
  <2>1. CASE poll = "boot"
    BY <1>11, <2>1 DEF Boot
  <2>2. CASE poll = "boot_cs"
    <3>1. /\ poll' = "int1" /\ cs' = UpdateCs(r) /\ ds10' = r.ds /\ r' = NoCopy
          /\ UNCHANGED <<mp, da, driveVars, flags>>
      BY <1>11, <2>2 DEF Boot
    <3>2. AllButDrdy(cs', cs) /\ ds10' = ds10
      BY <2>2, <3>1, UpdateCsKeeps DEF PoliteInv, AllButDrdy, UpdateCs, CsType, Cs
    <3> QED
      BY <3>1, <3>2 DEF AllButDrdy
  <2> QED
    BY <1>11, <2>1, <2>2 DEF Boot
<1> QED
  BY <1>1, <1>2, <1>3, <1>4, <1>5, <1>6, <1>7, <1>8, <1>9, <1>10, <1>11 DEF Pass

LEMMA ControllerInvAlways ==
  ASSUME PoliteHost, Restarts = 0
  PROVE  Spec => []ControllerInv
<1>1. Init => ControllerInv
  BY DEF Init, ControllerInv, ResetCs, pend
<1>2. CsType /\ RestType /\ PoliteInv /\ ControllerInv /\ [Next]_rlVars => ControllerInv'
  <2> SUFFICES ASSUME CsType, RestType, PoliteInv, ControllerInv, [Next]_rlVars
               PROVE  ControllerInv'
    OBVIOUS
  <2>1. CASE UNCHANGED rlVars
    BY <2>1 DEF rlVars, ControllerInv, hostRegs, driveVars, flags, pend
  <2> QED
    BY <2>1, ControllerInvHost, ControllerInvPass DEF Next
<1> QED
  BY <1>1, <1>2, TypesAlways, PoliteAlways, PTL DEF Spec

\* The only step that ends a command is the store of cmd_done.
LEMMA CrdyRises ==
  ASSUME Restarts = 0, PoliteHost, CsType, PoliteInv, Next, ~cs.crdy, cs'.crdy
  PROVE  /\ poll = "done_store" /\ CmdDone
         /\ UNCHANGED <<da, mp, ds10, driveVars, flags>>
         /\ poll' = "done_int" /\ r' = cs'
         /\ cs'.func = cs.func /\ cs'.ds = cs.ds /\ cs'.ie = cs.ie /\ r'.ie = cs.ie
<1> USE DEF Goto
<1>1. ~Host
  <2>1. ReadCs => cs'.crdy = cs.crdy
    BY UpdateCsKeeps DEF ReadCs, CsType
  <2>2. ~Polite
    BY DEF Polite
  <2> QED
    BY <2>1, <2>2 DEF Host, WriteCs, WriteDa, WriteMp, ReadMp
<1>2. ~PollInit /\ ~Restart /\ ~ResetRegs("restart", "int1")
  <2>1. poll \notin {"reset", "online", "update_cs", "restart"} /\ ~init_pending
    BY DEF PoliteInv
  <2>2. ~PollInit
    BY <2>1 DEF PollInit, ResetFlags, ResetRegs
  <2>3. ~Restart
    BY DEF Restart, PoliteInv
  <2>4. ~ResetRegs("restart", "int1")
    BY <2>1 DEF ResetRegs
  <2> QED
    BY <2>2, <2>3, <2>4
<1>3. ~Boot
  BY DEF Boot, PoliteInv
<1>4. ~(PollInt("int1", "intr1", "cmd") \/ PollCmd \/ PollInt("int2", "intr2", "init") \/ Grant)
  BY DEF PollInt, PollCmd, Grant, Granted
<1>5. ~(Nop \/ GetStatus \/ SeekStart \/ ReadHdr \/ ReadNoHdr \/ PollSeek)
  BY DEF Nop, GetStatus, SeekStart, ReadHdr, ReadNoHdr, PollSeek
<1>6. \A func : ~Transfer(func)
  BY DEF Transfer
<1>7. ~ClearDrdy /\ ~TransferSector /\ ~TransferEnd
  <2>1. [r EXCEPT !.drdy = FALSE].crdy = r.crdy /\ [r EXCEPT !.err = TRUE].crdy = r.crdy
    BY DEF CsType, Cs
  <2> QED
    BY <2>1 DEF ClearDrdy, TransferSector, TransferEnd, Load, Store, PoliteInv, AllButDrdy
<1>8. CmdDone
  BY <1>1, <1>2, <1>3, <1>4, <1>5, <1>6, <1>7 DEF Next, Pass
<1> DEFINE c == [r EXCEPT !.crdy = TRUE, !.drdy = TRUE]
<1>9. c.func = r.func /\ c.ds = r.ds /\ c.ie = r.ie
  BY DEF CsType, Cs
<1>10. Store("done_store", "done_int", c) /\ UNCHANGED hostRegs
  BY <1>8 DEF CmdDone, Load
<1> HIDE DEF c
<1>11. cs'.func = r.func /\ cs'.ds = r.ds /\ cs'.ie = r.ie /\ r' = cs'
  BY <1>9, <1>10 DEF Store
<1> QED
  BY <1>8, <1>10, <1>11 DEF Store, PoliteInv, AllButDrdy, hostRegs, flags

\* When a READ HEADER completes, MP holds the position at which the last
\* seek, or the last transfer, left the selected drive, however long ago the
\* handler put it there.
THEOREM ReadsBackPositionAlways ==
  ASSUME PoliteHost, Restarts = 0
  PROVE  Spec => ReadsBackPosition
<1> DEFINE Ends == ~cs.crdy /\ cs'.crdy /\ cs.func = "READHDR" /\ cs'.func = "READHDR"
           There == mp' = <<Hdr(curr'[cs.ds]), Wc(0), Wc(0)>>
<1>1. CsType /\ PoliteInv /\ ControllerInv /\ [Next]_rlVars => [Ends => There]_rlVars
  <2> SUFFICES ASSUME CsType, PoliteInv, ControllerInv, Next, Ends PROVE There
    OBVIOUS
  <2>1. poll = "done_store" /\ UNCHANGED <<mp, driveVars>>
    BY CrdyRises
  <2> QED
    BY <2>1 DEF ControllerInv, driveVars
<1> QED
  BY <1>1, TypesAlways, PoliteAlways, ControllerInvAlways, PTL DEF Spec, ReadsBackPosition

-----------------------------------------------------------------------------
(* The refinement of Controller, but for its fairness.                     *)

\* A step that leaves what a driver can see.
Unseen ==
  /\ phase' = phase /\ pend' = pend /\ da' = da
  /\ cs'.func = cs.func /\ cs'.ds = cs.ds /\ cs'.ie = cs.ie
  /\ \A d \in Drives : curr'[d].cyl = curr[d].cyl

LEMMA UnseenStutters == Unseen => UNCHANGED Driver!controllerVars
BY DEF Unseen, Driver!controllerVars

\* Every step of the host is one of a driver.
LEMMA HostSimulated ==
  ASSUME PoliteHost, CsType, CsType', RestType, RestType', PoliteInv, Host
  PROVE  [Driver!Next]_(Driver!controllerVars)
<1>1. ASSUME NEW crdy \in BOOLEAN, NEW ie \in BOOLEAN, NEW func \in HostFuncs,
             NEW ds \in Drives, WriteCs(crdy, ie, func, ds)
      PROVE  Driver!Issue
  <2>1. cs.crdy /\ ~pend /\ poll \notin InHand
    BY <1>1 DEF WriteCs, Polite, PoliteInv, pend
  <2>2. UNCHANGED <<da, curr, poll, r>>
    BY <1>1 DEF WriteCs, hostRegs, driveVars
  <2>3. phase = "ready" /\ phase' \in {"ready", "busy"}
    BY <2>1, <2>2 DEF phase, InHand
  <2>4. [func |-> cs'.func, ds |-> cs'.ds, ie |-> cs'.ie] \in Driver!Commands
    BY DEF CsType, Cs, Driver!Commands
  <2>5. pend' = pend
    <3> DEFINE w == [cs EXCEPT !.crdy = crdy, !.ie = ie, !.func = func, !.ds = ds]
    <3>1. w \in Cs /\ w.ie = ie
      BY RlAssumption DEF CsType, Cs
    <3>2. UpdateCs(w).ie = ie
      BY <3>1, UpdateCsKeeps DEF CsType
    <3>3. ~int_pending'
      BY <1>1, <2>1, <3>2 DEF WriteCs, pend
    <3> QED
      BY <2>1, <2>2, <3>3 DEF pend
  <2>6. UNCHANGED [d \in Drives |-> curr[d].cyl]
    BY <2>2
  <2> QED
    BY <2>1, <2>2, <2>3, <2>4, <2>5, <2>6 DEF Driver!Issue
<1>2. ASSUME NEW d \in DaValues, WriteDa(d) PROVE Driver!SetDa
  BY <1>2 DEF WriteDa, Polite, driveVars, flags, phase, pend, RestType, Driver!SetDa
<1>3. CASE (\E n \in Counts : WriteMp(n)) \/ ReadMp
  BY <1>3, UnseenStutters DEF WriteMp, ReadMp, driveVars, flags, phase, pend, Unseen
<1>4. CASE ReadCs
  <2>1. AllButDrdy(cs', cs)
    BY <1>4, UpdateCsKeeps DEF ReadCs, CsType, Cs, UpdateCs, AllButDrdy
  <2> QED
    BY <1>4, <2>1, UnseenStutters DEF ReadCs, hostRegs, driveVars, flags, phase, pend,
       AllButDrdy, Unseen
<1> QED
  BY <1>1, <1>2, <1>3, <1>4 DEF Host, Driver!Next

\* A step of rl11_poll is one of the controller, or nothing a driver sees.
LEMMA PassSimulated ==
  ASSUME PoliteHost, Restarts = 0, CsType, CsType', RestType, RestType', PoliteInv,
         PoliteInv', ControllerInv, Pass \/ Grant \/ Restart
  PROVE  [Driver!Next]_(Driver!controllerVars)
<1> USE DEF Goto, hostRegs, driveVars, flags
<1> DEFINE Simulated == [Driver!Next]_(Driver!controllerVars)
<1>s. Unseen => Simulated
  BY UnseenStutters
<1>e. ASSUME poll \in {"exec", "transfer"}, poll' \in {"done", "error"}, cs' = cs, da' = da,
             UNCHANGED flags, cs.func \notin {"SEEK", "READNOHDR"},
             \A d \in Drives : curr'[d].cyl = curr[d].cyl
      PROVE  Simulated
  <2>1. ~cs.crdy
    BY <1>e DEF PoliteInv, InHand
  <2>2. phase = "busy" /\ phase' = "finished" /\ pend' = pend
    BY <1>e, <2>1 DEF phase, pend
  <2>3. [d \in Drives |-> curr'[d].cyl] = [d \in Drives |-> curr[d].cyl]
    BY <1>e
  <2>4. Driver!Execute
    BY <1>e, <2>2, <2>3 DEF Driver!Execute
  <2> QED
    BY <2>4 DEF Driver!Next
<1>1. CASE PollInt("int1", "intr1", "cmd") \/ PollCmd \/ PollInt("int2", "intr2", "init")
  BY <1>1, <1>s DEF PollInt, PollCmd, Unseen, phase, pend
<1>2. CASE Grant
  <2>1. poll' \in {"cmd", "init"} /\ poll \in {"intr1", "intr2"} /\ pend
        /\ UNCHANGED <<cs, da, curr, int_pending>>
    BY <1>2 DEF Grant, Granted, pend
  <2>2. phase' = phase
    BY <2>1 DEF phase
  <2>3. CASE int_pending
    <3>1. pend' = pend
      BY <2>1, <2>3 DEF pend
    <3> QED
      BY <2>1, <2>2, <3>1, <1>s DEF Unseen
  <2>4. CASE ~int_pending
    <3>1. pend' = FALSE
      BY <2>1, <2>4 DEF pend
    <3>2. Driver!Interrupt
      BY <2>1, <2>2, <3>1 DEF Driver!Interrupt
    <3> QED
      BY <3>2 DEF Driver!Next
  <2> QED
    BY <2>3, <2>4
<1>3. CASE ClearDrdy
  <2> DEFINE c == [r EXCEPT !.drdy = FALSE]
  <2>1. c.crdy = r.crdy /\ c.func = r.func /\ c.ds = r.ds /\ c.ie = r.ie
    BY DEF CsType, Cs
  <2>2. /\ poll \in {"load", "clear"} /\ poll' \in {"clear", "exec"}
        /\ cs' \in {cs, c} /\ (cs' # cs => poll = "clear")
        /\ UNCHANGED <<da, curr, int_pending>>
    BY <1>3 DEF ClearDrdy, Load, Store
  <2> HIDE DEF c
  <2>3. cs'.crdy = cs.crdy /\ cs'.func = cs.func /\ cs'.ds = cs.ds /\ cs'.ie = cs.ie
    BY <2>1, <2>2 DEF PoliteInv, AllButDrdy
  <2>4. phase' = phase /\ pend' = pend
    BY <2>2, <2>3 DEF phase, pend
  <2> QED
    BY <2>2, <2>3, <2>4, <1>s DEF Unseen
<1>4. CASE Nop \/ GetStatus \/ ReadHdr
  <2>1. /\ poll = "exec" /\ poll' = "done" /\ UNCHANGED <<cs, da, curr, flags>>
        /\ cs.func \notin {"SEEK", "READNOHDR"}
    BY <1>4 DEF Nop, GetStatus, ReadHdr, Exec, PoliteInv, AllButDrdy
  <2> QED
    BY <2>1, <1>e
<1>5. CASE ReadNoHdr \/ SeekStart
  <2>1. poll = "exec" /\ poll' = "seek" /\ UNCHANGED <<cs, da, curr, int_pending>>
    BY <1>5 DEF ReadNoHdr, SeekStart, Exec
  <2>2. phase' = phase /\ pend' = pend
    BY <2>1 DEF phase, pend
  <2> QED
    BY <2>1, <2>2, <1>s DEF Unseen
<1>6. ASSUME NEW func \in {"READ", "WRITE", "WRITECHK"}, Transfer(func) PROVE Simulated
  <2>1. poll = "exec" /\ poll' = "transfer" /\ UNCHANGED <<cs, da, int_pending>>
    BY <1>6 DEF Transfer, Exec
  <2>2. \A d \in Drives : curr'[d].cyl = curr[d].cyl
    <3>1. curr' = [curr EXCEPT ![ds10].head = Bit(da, HsBit)]
      BY <1>6 DEF Transfer
    <3> QED
      BY <3>1 DEF RestType, Pos
  <2>3. phase' = phase /\ pend' = pend
    BY <2>1 DEF phase, pend
  <2> QED
    BY <2>1, <2>2, <2>3, <1>s DEF Unseen
<1>7. CASE TransferSector
  <2>1. CASE poll \in {"transfer", "checked"}
    <3>1. poll' \in {"differ", "sector"} /\ UNCHANGED <<cs, da, curr, int_pending>>
      BY <1>7, <2>1 DEF TransferSector, Load, Store
    <3>2. phase' = phase /\ pend' = pend
      BY <2>1, <3>1 DEF phase, pend
    <3> QED
      BY <3>1, <3>2, <1>s DEF Unseen
  <2>0. CASE poll = "differ"
    <3> DEFINE c == [r EXCEPT !.err = TRUE]
    <3>1. poll' = "checked" /\ cs' = c /\ UNCHANGED <<da, curr, int_pending>>
      BY <1>7, <2>0 DEF TransferSector, Load, Store, flags, hostRegs, driveVars
    <3>2. c.crdy = r.crdy /\ c.func = r.func /\ c.ds = r.ds /\ c.ie = r.ie
      BY DEF CsType, Cs
    <3> HIDE DEF c
    <3>3. cs'.crdy = cs.crdy /\ cs'.func = cs.func /\ cs'.ds = cs.ds /\ cs'.ie = cs.ie
      BY <2>0, <3>1, <3>2 DEF PoliteInv, AllButDrdy
    <3>4. phase' = phase /\ pend' = pend
      BY <2>0, <3>1, <3>3 DEF phase, pend
    <3>5. [func |-> cs'.func, ds |-> cs'.ds, ie |-> cs'.ie]
            = [func |-> cs.func, ds |-> cs.ds, ie |-> cs.ie]
      BY <3>3
    <3> QED
      BY <3>1, <3>4, <3>5, <1>s DEF Unseen
  <2>2. CASE poll = "sector"
    <3>1. poll' = "transfer" /\ cs' = r /\ UNCHANGED <<curr, int_pending>>
      BY <1>7, <2>2 DEF TransferSector, Load, Store
    <3>2. cs'.crdy = cs.crdy /\ cs'.func = cs.func /\ cs'.ds = cs.ds /\ cs'.ie = cs.ie
      BY <2>2, <3>1 DEF PoliteInv, AllButDrdy
    <3>3. phase = "busy" /\ phase' = phase /\ pend' = pend
      BY <2>2, <3>1, <3>2 DEF phase, pend, PoliteInv, InHand
    <3>4. cs.func # "SEEK"
      BY <2>2 DEF ControllerInv
    <3>5. [func |-> cs'.func, ds |-> cs'.ds, ie |-> cs'.ie]
            = [func |-> cs.func, ds |-> cs.ds, ie |-> cs.ie]
      BY <3>2
    <3>6. Driver!Progress
      BY <3>1, <3>3, <3>4, <3>5 DEF Driver!Progress, RestType
    <3> QED
      BY <3>6 DEF Driver!Next
  <2> QED
    BY <1>7, <2>0, <2>1, <2>2 DEF TransferSector, Load, Store
<1>8. CASE TransferEnd
  <2>1. CASE poll = "transfer"
    BY <1>8, <2>1, <1>e DEF TransferEnd, Load, Store, ControllerInv
  <2>2. CASE poll = "error"
    <3> DEFINE c == [r EXCEPT !.err = TRUE]
    <3>1. c.crdy = r.crdy /\ c.func = r.func /\ c.ds = r.ds /\ c.ie = r.ie
      BY DEF CsType, Cs
    <3>2. poll' = "done" /\ cs' = c /\ UNCHANGED <<da, curr, int_pending>>
      BY <1>8, <2>2 DEF TransferEnd, Load, Store
    <3> HIDE DEF c
    <3>3. cs'.crdy = cs.crdy /\ cs'.func = cs.func /\ cs'.ds = cs.ds /\ cs'.ie = cs.ie
      BY <2>2, <3>1, <3>2 DEF PoliteInv, AllButDrdy
    <3>4. phase' = phase /\ pend' = pend
      BY <2>2, <3>2, <3>3 DEF phase, pend
    <3> QED
      BY <3>2, <3>3, <3>4, <1>s DEF Unseen
  <2> QED
    BY <1>8, <2>1, <2>2 DEF TransferEnd, Load, Store
<1>9. CASE CmdDone
  <2>1. CASE poll = "done"
    <3>1. poll' = "done_store" /\ UNCHANGED <<cs, da, curr, int_pending>>
      BY <1>9, <2>1 DEF CmdDone, Load, Store
    <3>2. phase' = phase /\ pend' = pend
      BY <2>1, <3>1 DEF phase, pend
    <3> QED
      BY <3>1, <3>2, <1>s DEF Unseen
  <2>2. CASE poll = "done_store"
    <3> DEFINE c == [r EXCEPT !.crdy = TRUE, !.drdy = TRUE]
    <3>1. c.crdy = TRUE /\ c.func = r.func /\ c.ds = r.ds /\ c.ie = r.ie
      BY DEF CsType, Cs
    <3>2. poll' = "done_int" /\ cs' = c /\ r' = c /\ UNCHANGED <<da, curr, int_pending>>
      BY <1>9, <2>2 DEF CmdDone, Load, Store
    <3> HIDE DEF c
    <3>3. /\ cs'.crdy /\ cs'.func = cs.func /\ cs'.ds = cs.ds /\ cs'.ie = cs.ie
          /\ r'.ie = cs.ie /\ ~cs.crdy
      BY <2>2, <3>1, <3>2 DEF PoliteInv, AllButDrdy, InHand
    <3>4. phase = "finished" /\ phase' = "ready"
      BY <2>2, <3>3 DEF phase
    <3>5. pend' = cs.ie
      <4>1. ~pend /\ cs.ie \in BOOLEAN
        BY <3>3 DEF ControllerInv, CsType, Cs
      <4> QED
        BY <2>2, <3>2, <3>3, <4>1 DEF pend
    <3>6. [func |-> cs'.func, ds |-> cs'.ds, ie |-> cs'.ie]
            = [func |-> cs.func, ds |-> cs.ds, ie |-> cs.ie]
      BY <3>3
    <3>7. Driver!Complete
      BY <3>2, <3>4, <3>5, <3>6 DEF Driver!Complete
    <3> QED
      BY <3>7 DEF Driver!Next
  <2>3. CASE poll = "done_int"
    <3>1. /\ poll' \in {"seek", "int2"} /\ int_pending' = r.ie /\ UNCHANGED <<cs, da, curr>>
      BY <1>9, <2>3 DEF CmdDone, Load, Store
    <3>2. phase' = phase /\ pend' = r.ie /\ r.ie \in BOOLEAN
      BY <2>3, <3>1 DEF phase, pend, CsType, Cs
    <3>3. CASE pend' = pend
      BY <3>1, <3>2, <3>3, <1>s DEF Unseen
    <3>4. CASE pend' # pend
      <4>1. pend /\ pend' = FALSE
        BY <2>3, <3>2, <3>4 DEF pend
      <4>2. Driver!Interrupt
        BY <3>1, <3>2, <4>1 DEF Driver!Interrupt
      <4> QED
        BY <4>2 DEF Driver!Next
    <3> QED
      BY <3>3, <3>4
  <2> QED
    BY <1>9, <2>1, <2>2, <2>3 DEF CmdDone, Load, Store
<1>10. CASE PollSeek
  <2>1. CASE poll' = "int2"
    <3>1. poll = "seek" /\ UNCHANGED <<cs, da, curr, int_pending>>
      BY <1>10, <2>1 DEF PollSeek
    <3>2. phase' = phase /\ pend' = pend
      BY <2>1, <3>1 DEF phase, pend
    <3> QED
      BY <3>1, <3>2, <1>s DEF Unseen
  <2>2. CASE poll' = "done"
    <3>1. /\ poll = "seek" /\ seek_pending /\ UNCHANGED <<cs, da, int_pending>>
          /\ curr' = [curr EXCEPT ![ds10] = new[ds10]]
      BY <1>10, <2>2 DEF PollSeek
    <3>2. ~cs.crdy /\ cs.func = "SEEK" /\ ds10 = cs.ds
      BY <3>1 DEF PoliteInv
    <3>3. phase = "busy" /\ phase' = "finished" /\ pend' = pend
      BY <2>2, <3>1, <3>2 DEF phase, pend
    <3>4. new[cs.ds].cyl = SeekTarget(curr[cs.ds].cyl, da)
      BY <3>1, <3>2 DEF ControllerInv
    <3>5. [d \in Drives |-> curr'[d].cyl]
            = [[d \in Drives |-> curr[d].cyl] EXCEPT
                 ![cs.ds] = SeekTarget([d \in Drives |-> curr[d].cyl][cs.ds], da)]
      BY <3>1, <3>2, <3>4 DEF RestType
    <3>6. Driver!Execute
      BY <3>1, <3>2, <3>3, <3>5 DEF Driver!Execute
    <3> QED
      BY <3>6 DEF Driver!Next
  <2> QED
    BY <1>10, <2>1, <2>2 DEF PollSeek
<1>11. CASE PollInit
  <2>1. CASE ~init_pending /\ poll = "init"
    BY <1>11, <2>1, <1>s DEF PollInit, ResetFlags, ResetRegs, Unseen, phase, pend
  <2>2. CASE init_pending /\ poll = "init"
    <3>1. poll' = "reset" /\ int_pending' = FALSE /\ UNCHANGED <<cs, da, curr>>
      BY <1>11, <2>2 DEF PollInit, ResetFlags, ResetRegs
    <3>2. phase' = phase /\ pend' = FALSE
      BY <2>2, <3>1 DEF phase, pend
    <3>3. CASE pend
      <4>1. Driver!Interrupt
        BY <3>1, <3>2, <3>3 DEF Driver!Interrupt
      <4> QED
        BY <4>1 DEF Driver!Next
    <3>4. CASE ~pend
      <4>1. pend' = pend
        BY <3>2, <3>4 DEF pend
      <4> QED
        BY <3>1, <3>2, <4>1, <1>s DEF Unseen
    <3> QED
      BY <3>3, <3>4
  <2>3. CASE poll = "reset"
    <3>1. /\ cs' = ResetCs(FALSE) /\ da' = 0 /\ poll' = "online" /\ UNCHANGED int_pending
          /\ curr' = [d \in Drives |-> [cyl |-> 0, head |-> 0]]
      BY <1>11, <2>3 DEF PollInit, ResetFlags, ResetRegs
    <3>2. cs.crdy /\ cs.func = "NOP" /\ cs.ds = 0 /\ cs.ie = FALSE /\ da = 0
          /\ \A d \in Drives : curr[d].cyl = 0
      BY <2>3 DEF PoliteInv, ControllerInv
    <3>3. cs'.crdy /\ cs'.func = "NOP" /\ cs'.ds = 0 /\ cs'.ie = FALSE
      BY <3>1 DEF ResetCs
    <3>4. phase' = phase /\ pend' = pend
      BY <2>3, <3>1, <3>2, <3>3 DEF phase, pend
    <3> QED
      BY <3>1, <3>2, <3>3, <3>4, <1>s DEF Unseen
  <2>4. CASE poll = "online"
    <3>1. poll' = "update_cs" /\ UNCHANGED <<cs, da, curr, int_pending>>
      BY <1>11, <2>4 DEF PollInit, ResetFlags, ResetRegs
    <3> QED
      BY <2>4, <3>1, <1>s DEF Unseen, phase, pend
  <2>5. CASE poll = "update_cs"
    <3>1. poll' = "int1" /\ cs' = UpdateCs(r) /\ UNCHANGED <<da, curr, int_pending>>
      BY <1>11, <2>5 DEF PollInit, ResetFlags, ResetRegs
    <3>2. cs'.crdy = cs.crdy /\ cs'.func = cs.func /\ cs'.ds = cs.ds /\ cs'.ie = cs.ie
      BY <2>5, <3>1, UpdateCsKeeps DEF PoliteInv, AllButDrdy, CsType
    <3>3. phase' = phase /\ pend' = pend
      BY <2>5, <3>1, <3>2 DEF phase, pend
    <3> QED
      BY <3>1, <3>2, <3>3, <1>s DEF Unseen
  <2> QED
    BY <1>11, <2>1, <2>2, <2>3, <2>4, <2>5 DEF PollInit, ResetFlags, ResetRegs
<1>12. CASE ResetRegs("restart", "int1")
  BY <1>12 DEF ResetRegs, PoliteInv
<1>13. CASE Restart
  BY <1>13 DEF Restart, PoliteInv
<1>14. CASE Boot
  <2>1. CASE poll = "boot"
    <3>1. poll' = "boot_cs" /\ UNCHANGED <<cs, da, curr, int_pending>>
      BY <1>14, <2>1 DEF Boot
    <3> QED
      BY <2>1, <3>1, <1>s DEF Unseen, phase, pend
  <2>2. CASE poll = "boot_cs"
    <3>1. poll' = "int1" /\ cs' = UpdateCs(r) /\ UNCHANGED <<da, curr, int_pending>>
      BY <1>14, <2>2 DEF Boot
    <3>2. cs'.crdy = cs.crdy /\ cs'.func = cs.func /\ cs'.ds = cs.ds /\ cs'.ie = cs.ie
      BY <2>2, <3>1, UpdateCsKeeps DEF PoliteInv, AllButDrdy, CsType
    <3>3. phase' = phase /\ pend' = pend
      BY <2>2, <3>1, <3>2 DEF phase, pend
    <3> QED
      BY <3>1, <3>2, <3>3, <1>s DEF Unseen
  <2> QED
    BY <1>14, <2>1, <2>2 DEF Boot
<1> QED
  BY <1>1, <1>2, <1>3, <1>4, <1>5, <1>6, <1>7, <1>8, <1>9, <1>10, <1>11, <1>12, <1>13, <1>14
  DEF Pass

\* The safety part of Rl11!ImplementsController: to a driver that waits for
\* CRDY the registers behave as a Controller, step by step: a command is
\* executed once, on the drive and at the disk address it was given, before
\* CRDY rises, and each completed command owes the interrupt it asked for.
THEOREM ControllerSimulated ==
  ASSUME PoliteHost, Restarts = 0
  PROVE  Spec => Driver!Init /\ [][Driver!Next]_(Driver!controllerVars)
<1>1. Init => Driver!Init
  <2> SUFFICES ASSUME Init PROVE Driver!Init
    OBVIOUS
  <2>1. cs.crdy /\ poll = "boot" /\ int_pending = FALSE /\ da = 0
        /\ curr = [d \in Drives |-> [cyl |-> 0, head |-> 0]]
    BY DEF Init, ResetCs
  <2>2. phase = "ready" /\ pend = FALSE
    BY <2>1 DEF phase, pend
  <2>3. [func |-> cs.func, ds |-> cs.ds, ie |-> cs.ie] \in Driver!Commands
    BY CsTypeInit DEF CsType, Cs, Driver!Commands
  <2>4. [d \in Drives |-> curr[d].cyl] \in [Drives -> 0 .. Cyls - 1]
    BY <2>1, RlAssumption
  <2> QED
    BY <2>1, <2>2, <2>3, <2>4, DaRange DEF Driver!Init
<1>2. /\ CsType /\ RestType /\ PoliteInv /\ ControllerInv
      /\ CsType' /\ RestType' /\ PoliteInv' /\ [Next]_rlVars
      => [Driver!Next]_(Driver!controllerVars)
  <2> SUFFICES ASSUME CsType, RestType, PoliteInv, ControllerInv, CsType', RestType',
                      PoliteInv', [Next]_rlVars
               PROVE  [Driver!Next]_(Driver!controllerVars)
    OBVIOUS
  <2>1. CASE UNCHANGED rlVars
    BY <2>1, UnseenStutters DEF rlVars, hostRegs, driveVars, flags, Unseen, phase, pend
  <2> QED
    BY <2>1, HostSimulated, PassSimulated DEF Next
<1> QED
  BY <1>1, <1>2, TypesAlways, PoliteAlways, ControllerInvAlways, PTL DEF Spec
=============================================================================
