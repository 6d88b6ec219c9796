----------------------------- MODULE CycleProofs -----------------------------
(***************************************************************************)
(* Proofs about a cycle addressed to the board (RegisterCycle), for any    *)
(* words, registers, window and addresses.                                 *)
(***************************************************************************)
EXTENDS RegisterCycle, TLAPS

\* The master lets cpld_isr return, and a release has crossed the slave
\* machine (SS1, SS2, SS3: two clocks) before the ARM's next access.
Patient == PatientHost /\ ClocksPerAccess >= 2

-----------------------------------------------------------------------------
(* The accesses of cpld_isr, by what is behind them.                       *)
Asks    == {"ack", "iccr1", "pio1", "status", "addr_lo", "cs", "ack2", "addr_hi",
            "read", "write"}               \* the service is still to come
Answers == {"cs_release", "half", "release"} \* CPU_RELEASE is
Tails   == {"cs_ack", "cycled", "iccr"}      \* it has just been written

Asking  == ours /\ phase = "msyn"
Waiting == ustate_s = {1} /\ Asking /\ ~cpu_release
Latched == addr_out = cycle.addr /\ (cycle.kind = "DATO" => bus_data_hold = cycle.data)
Gone    == ustate_s \in {{}, {3}} /\ ~cpu_release /\ ~cpu_int_internal
Passing == \/ lag = 0 /\ ustate_s = {1} /\ Asking /\ cpu_release /\ served
           \/ lag = 1 /\ ustate_s = {2} /\ Asking /\ cpu_release /\ served

\* The machines and registers that the bus sees.
SlaveInv ==
  /\ ustate_m = {} /\ assert_pin = {} /\ dma_mode = FALSE /\ addr_match_1 = Base
  /\ pending_dma_read = FALSE /\ pending_dma_write = FALSE
  /\ {msyn, bbsy, cpu_release, cpu_int_internal} \subseteq BOOLEAN
  /\ ustate_s \in {{}, {1}, {2}, {3}}
  /\ ~ours => ustate_s = {}
  /\ ustate_s \in {{1}, {2}} => phase = "msyn"
  /\ ustate_s \in {{2}, {3}} => served /\ bbsy
  /\ cpu_release => served
  /\ ustate_s # {} /\ phase = "msyn" => msyn /\ bbsy
  /\ ours /\ ustate_s = {} /\ phase # "msyn" => ~msyn
  /\ ours /\ phase = "addr" => ustate_s = {}

HostInv ==
  /\ cycle = Quiet <=> phase = "idle"
  /\ ours \/ phase = "idle" => ~mem_ssyn
  /\ served => ours /\ phase \in {"msyn", "drop"}
  /\ Asking /\ ustate_s = {} => ~served

\* The place of cpld_isr and the state of the slave machine.
PlaceInv ==
  /\ isr # "off" => main = "run"
  /\ isr \notin {"off", "again"} => ~(Asking /\ ustate_s = {})
  /\ isr \in Asks => Waiting /\ ~served /\ Latched
  /\ isr \in Answers => Waiting /\ served
  /\ isr \in Tails => Passing \/ Gone
  /\ isr = "pio" => Gone /\ ~aic
  /\ isr \in {"off", "again"} => Gone \/ (Waiting /\ ~served)

\* No interrupt is lost, and none comes without a cycle.
PinInv == isr = "off" =>
  /\ pio <=> aic
  /\ CPU_INT => aic
  /\ aic => cpu_int_internal
  /\ cpu_int_internal => Waiting /\ Latched

\* The second half of a DATIP.
HalfInv ==
  /\ isr = "half" => cycle.kind = "DATIP"
  /\ isr \in {"cycled", "again"} =>
       /\ ours
       /\ \/ cycle.kind = "DATIP" /\ phase \in {"msyn", "drop"} /\ ~(Asking /\ ustate_s = {})
             /\ ~Waiting
          \/ cycle.kind = "DATO" /\ phase \in {"addr", "msyn"} /\ ~served /\ (ustate_s = {} \/ Waiting)

\* What cpld_isr has in its variables is of this cycle.
LocalsInv ==
  /\ isr \in {"addr_lo", "cs", "ack2", "addr_hi", "read"} =>
       (sigs.c0 <=> cycle.kind = "DATIP") /\ (sigs.c1 <=> cycle.kind = "DATO")
  /\ isr \in {"ack2", "addr_hi", "read", "half", "cycled", "again", "write"} =>
       addr_lo = cycle.addr % LoSpace
  /\ isr = "cs" => cycle.addr % Window = CS
  /\ isr \in {"cs", "read"} => cycle.kind # "DATO"
  /\ isr = "write" => cycle.kind = "DATO"

\* What the board drives is what the service returned.
ValueInv ==
  value = IF served /\ cycle.kind # "DATO" THEN bus_data_hold ELSE Nothing

TypeInv == CycleTypeOK /\ addr_out \in Int /\ bus_data_hold \in Word

CycleInv == TypeInv /\ SlaveInv /\ HostInv /\ PlaceInv /\ PinInv /\ HalfInv /\ LocalsInv /\ ValueInv

-----------------------------------------------------------------------------
(* One clock of the CPLD, when only a register cycle runs.                 *)
Plain(op) == op.kind = "wr" => op.reg \in {"INT_RESET", "CPU_RELEASE", "DATA"}
Driven    == UNCHANGED <<phase, cycle, mem_ssyn>>
Clocked(op) == Plain(op) /\ Clk(bus, op) /\ Driven

\* The master of the bus addresses the board.
Selected == msyn /\ bbsy /\ phase # "idle" /\ ours

LEMMA OursWindow ==
  ASSUME SlaveInv, HostInv
  PROVE  unibus_master(bus) <=> Selected
<1>1. BUS_ADDR(bus) = cycle.addr
  BY DEF SlaveInv, BUS_ADDR, addr_assert, MSin, bus
<1>2. CASE phase = "idle"
  <2>1. cycle.addr = 0
    BY <1>2 DEF HostInv, Quiet
  <2>2. 0 \div Window = 0
    BY AddrAssumption
  <2> QED
    BY <1>1, <1>2, <2>1, <2>2, CycleAssumption DEF SlaveInv, unibus_master, addr_match, Selected, ours
<1>3. CASE phase # "idle"
  BY <1>1, <1>3 DEF SlaveInv, unibus_master, addr_match, Selected, ours
<1> QED
  BY <1>2, <1>3

LEMMA ClockQuiet ==
  ASSUME SlaveInv, HostInv, NEW op, Clocked(op)
  PROVE  /\ ustate_m' = {} /\ assert_pin' = {} /\ dma_mode' = FALSE /\ addr_match_1' = Base
         /\ pending_dma_read' = FALSE /\ pending_dma_write' = FALSE
         /\ msyn' = (phase = "msyn") /\ bbsy' = (phase # "idle")
         /\ cpu_int_internal' = (1 \in ustate_s /\ ~Wrote(op, "INT_RESET"))
         /\ ours' = ours
<1> USE DEF Clocked, Plain, Driven, SlaveInv
<1>1. /\ assert_pin' = {} /\ dma_mode' = FALSE /\ addr_match_1' = Base
  BY DEF Clk, RegNext, Wrote
<1>2. ustate_m' = {}
  BY DEF Clk, MasterNext
<1>3. pending_dma_read' = FALSE /\ pending_dma_write' = FALSE
  BY DEF Clk, PendingNext
<1>4. msyn' = (phase = "msyn")
  BY DEF Clk, MSYN_IN, msyn_assert, MSin, bus
<1>5. bbsy' = (phase # "idle")
  BY DEF Clk, BBSY_IN, bus
<1>6. cpu_int_internal' = (1 \in ustate_s /\ ~Wrote(op, "INT_RESET"))
  BY DEF Clk, IntNext, SS
<1>7. ours' = ours
  BY DEF ours
<1> QED
  BY <1>1, <1>2, <1>3, <1>4, <1>5, <1>6, <1>7

LEMMA ClockInt ==
  ASSUME SlaveInv, NEW op, Clocked(op), ustate_s \in {{}, {2}, {3}}
  PROVE  cpu_int_internal' = FALSE
<1>1. 1 \notin ustate_s
  OBVIOUS
<1>2. cpu_int_internal' = IntNext(op)
  BY DEF Clocked, Clk
<1> QED
  BY <1>1, <1>2 DEF IntNext, SS

LEMMA ClockSlave ==
  ASSUME SlaveInv, HostInv, NEW op, Clocked(op)
  PROVE  /\ ustate_s = {} => ustate_s' = IF Selected THEN {1} ELSE {}
         /\ ustate_s = {1} => ustate_s' = IF cpu_release THEN {2} ELSE {1}
         /\ ustate_s = {2} => ustate_s' = {3}
         /\ ustate_s = {3} => ustate_s' = IF Selected THEN {3} ELSE {}
<1>1. ustate_s' = SlaveNext(bus)
  BY DEF Clocked, Clk
<1>2. unibus_master(bus) <=> Selected
  BY OursWindow
<1>3. CASE ustate_s = {}
  <2>1. Shift(ustate_s, 3, Selected) = IF Selected THEN {1} ELSE {}
    BY <1>3 DEF Shift
  <2>2. ustate_s_start(bus) <=> Selected
    BY <1>2, <1>3 DEF ustate_s_start, SS0, MS0, SlaveInv
  <2> QED
    BY <1>1, <1>3, <2>1, <2>2 DEF SlaveNext, SS, Shift
<1>4. CASE ustate_s = {1}
  BY <1>1, <1>4 DEF SlaveNext, SS, Shift, ustate_s_start, SS0
<1>5. CASE ustate_s = {2}
  BY <1>1, <1>5 DEF SlaveNext, SS, Shift, ustate_s_start, SS0
<1>6. CASE ustate_s = {3}
  BY <1>1, <1>2, <1>6 DEF SlaveNext, SS, Shift, ustate_s_start, SS0
<1> QED
  BY <1>3, <1>4, <1>5, <1>6 DEF SlaveInv

LEMMA ClockRelease ==
  ASSUME SlaveInv, HostInv, NEW op, Clocked(op)
  PROVE  /\ cpu_release' \in BOOLEAN
         /\ Wrote(op, "CPU_RELEASE") => cpu_release'
         /\ ~Wrote(op, "CPU_RELEASE") /\ ~cpu_release => ~cpu_release'
         /\ ustate_s = {1} /\ cpu_release => cpu_release'
         /\ ustate_s = {2} /\ op = NoOp => ~cpu_release'
<1>1. cpu_release' = ReleaseNext(op) /\ cpu_release \in BOOLEAN
  BY DEF Clocked, Clk, SlaveInv
<1>2. CASE op.kind = "wr"
  <2>1. cpu_release' = (cpu_release \/ op.reg = "CPU_RELEASE")
    BY <1>1, <1>2 DEF ReleaseNext
  <2>2. op # NoOp
    BY <1>2 DEF NoOp
  <2> QED
    BY <1>1, <1>2, <2>1, <2>2 DEF Wrote
<1>3. CASE op.kind # "wr"
  <2>1. cpu_release' = (cpu_release /\ ~(ustate_s = {} \/ 2 \in ustate_s \/ 3 \in ustate_s))
    BY <1>1, <1>3 DEF ReleaseNext, SS, SS0
  <2>2. ~Wrote(op, "CPU_RELEASE")
    BY <1>3 DEF Wrote
  <2>3. ustate_s = {1} => ~(ustate_s = {} \/ 2 \in ustate_s \/ 3 \in ustate_s)
    OBVIOUS
  <2> QED
    BY <1>1, <2>1, <2>2, <2>3
<1> QED
  BY <1>2, <1>3

LEMMA ClockWords ==
  ASSUME SlaveInv, HostInv, NEW op, Clocked(op)
  PROVE  /\ addr_out' = IF ustate_s = {1} /\ msyn THEN cycle.addr ELSE addr_out
         /\ bus_data_hold' = IF ustate_s = {1} /\ cycle.kind = "DATO" THEN cycle.data
                             ELSE IF Wrote(op, "DATA") THEN op.val ELSE bus_data_hold
<1> USE DEF Clocked, Plain, SlaveInv
<1>1. BUS_ADDR(bus) = cycle.addr
  BY DEF BUS_ADDR, addr_assert, MSin, bus
<1>2. addr_out' = IF ustate_s = {1} /\ msyn THEN cycle.addr ELSE addr_out
  BY <1>1 DEF Clk, AddrNext, addr_strobe, addr_incr, SS, MS
<1>3. C1_IN(bus) <=> cycle.kind = "DATO"
  BY DEF C1_IN, c1_assert, MSin, bus
<1>4. data_strobe(bus) <=> cycle.kind = "DATO" /\ ustate_s = {1}
  BY <1>3 DEF data_strobe, SS, MS
<1>5. cycle.kind = "DATO" => BUS_DATA(bus) = cycle.data
  BY <1>3 DEF BUS_DATA, BUS_DATA_DIR, data_assert, c1_assert, MSin, bus
<1>6. bus_data_hold' = IF ustate_s = {1} /\ cycle.kind = "DATO" THEN cycle.data
                       ELSE IF Wrote(op, "DATA") THEN op.val ELSE bus_data_hold
  BY <1>4, <1>5 DEF Clk, DataNext
<1> QED
  BY <1>2, <1>6

-----------------------------------------------------------------------------
(* What a clock makes of each situation of the slave machine.              *)
LEMMA OursStays ==
  ASSUME NEW op, Clocked(op)
  PROVE  /\ ours' = ours /\ phase' = phase /\ cycle' = cycle /\ mem_ssyn' = mem_ssyn
         /\ Asking' = Asking
BY DEF Clocked, Driven, ours, Asking

LEMMA ClockKeeps ==
  ASSUME SlaveInv, HostInv, NEW op, Clocked(op), served' \in BOOLEAN, served => served',
         Wrote(op, "CPU_RELEASE") => served, served' = served \/ Waiting
  PROVE  SlaveInv' /\ HostInv'
<1>1. /\ ustate_m' = {} /\ assert_pin' = {} /\ dma_mode' = FALSE /\ addr_match_1' = Base
      /\ pending_dma_read' = FALSE /\ pending_dma_write' = FALSE
      /\ msyn' = (phase = "msyn") /\ bbsy' = (phase # "idle") /\ cpu_int_internal' \in BOOLEAN
  BY ClockQuiet
<1>2. ours' = ours /\ phase' = phase /\ cycle' = cycle /\ mem_ssyn' = mem_ssyn /\ Asking' = Asking
  BY OursStays
<1>3. ours => phase # "idle"
  BY DEF ours
<1> HIDE DEF ours
<1>4. ustate_s' \in {{}, {1}, {2}, {3}}
  BY ClockSlave DEF SlaveInv
<1>5. ~ours => ustate_s' = {}
  BY ClockSlave DEF SlaveInv, Selected
<1>6. ustate_s' \in {{1}, {2}} => phase = "msyn"
  BY ClockSlave, <1>3 DEF SlaveInv, Selected
<1>7. ustate_s' \in {{2}, {3}} => served' /\ phase # "idle"
  <2>1. CASE ustate_s = {1} /\ cpu_release
    BY <2>1, <1>3 DEF SlaveInv
  <2>2. CASE ustate_s \in {{2}, {3}}
    BY <2>2, <1>3 DEF SlaveInv
  <2>3. ustate_s = {} \/ (ustate_s = {1} /\ ~cpu_release) => ustate_s' \in {{}, {1}}
    BY ClockSlave
  <2> QED
    BY <2>1, <2>2, <2>3 DEF SlaveInv
<1>8. cpu_release' \in BOOLEAN /\ (cpu_release' => served')
  BY ClockRelease DEF SlaveInv
<1>9. ours /\ phase = "addr" => ustate_s' = {}
  BY ClockSlave DEF SlaveInv, Selected
<1>10. SlaveInv'
  BY <1>1, <1>2, <1>3, <1>4, <1>5, <1>6, <1>7, <1>8, <1>9 DEF SlaveInv
<1>11. Asking /\ ustate_s' = {} => ~served'
  BY ClockSlave, <1>3 DEF SlaveInv, HostInv, Selected, Asking, Waiting
<1>12. served' => ours /\ phase \in {"msyn", "drop"}
  BY DEF HostInv, Waiting, Asking
<1>13. HostInv'
  BY <1>2, <1>11, <1>12 DEF HostInv
<1> QED
  BY <1>10, <1>13

\* The master waits: its address and data are latched, and CPU_INT is high.
LEMMA WaitingStays ==
  ASSUME SlaveInv, HostInv, Waiting, NEW op, Clocked(op), ~Wrote(op, "CPU_RELEASE")
  PROVE  /\ Waiting' /\ Latched' /\ cpu_int_internal' = ~Wrote(op, "INT_RESET")
         /\ cycle.kind # "DATO" =>
              bus_data_hold' = IF Wrote(op, "DATA") THEN op.val ELSE bus_data_hold
<1>1. ustate_s' = {1} /\ ~cpu_release' /\ Asking'
  BY ClockSlave, ClockRelease, OursStays DEF Waiting
<1>2. msyn
  BY DEF SlaveInv, Waiting, Asking
<1>3. cycle' = cycle
  BY OursStays
<1>4. addr_out' = cycle.addr
  BY ClockWords, <1>2 DEF Waiting
<1>5. cycle.kind = "DATO" => bus_data_hold' = cycle.data
  BY ClockWords DEF Waiting
<1>6. cpu_int_internal' = ~Wrote(op, "INT_RESET")
  BY ClockQuiet DEF Waiting
<1>7. cycle.kind # "DATO" =>
         bus_data_hold' = IF Wrote(op, "DATA") THEN op.val ELSE bus_data_hold
  BY ClockWords
<1> QED
  BY <1>1, <1>3, <1>4, <1>5, <1>6, <1>7 DEF Waiting, Latched

\* CPU_RELEASE is written.
LEMMA WaitingReleased ==
  ASSUME SlaveInv, HostInv, Waiting, served, NEW op, Clocked(op),
         Wrote(op, "CPU_RELEASE"), lag' = 0, served' = served
  PROVE  Passing' /\ ~Waiting' /\ ~(Asking /\ ustate_s = {})'
<1>1. ustate_s' = {1} /\ cpu_release' /\ Asking'
  BY ClockSlave, ClockRelease, OursStays DEF Waiting
<1> QED
  BY <1>1 DEF Passing, Waiting

LEMMA PassingGoesOn ==
  ASSUME Patient, SlaveInv, HostInv, Passing, Clocked(NoOp), served' = served,
         lag' = IF lag < ClocksPerAccess THEN lag + 1 ELSE lag
  PROVE  (Passing \/ Gone)' /\ ~Waiting' /\ ~(Asking /\ ustate_s = {})'
<1>1. CASE lag = 0 /\ ustate_s = {1} /\ Asking /\ cpu_release /\ served
  <2>1. ustate_s' = {2} /\ cpu_release' /\ Asking'
    BY <1>1, ClockSlave, ClockRelease, OursStays
  <2>2. lag' = 1
    BY <1>1, CycleAssumption DEF Patient
  <2> QED
    BY <1>1, <2>1, <2>2 DEF Passing, Waiting
<1>2. CASE lag = 1 /\ ustate_s = {2} /\ Asking /\ cpu_release /\ served
  <2>1. ustate_s' = {3} /\ ~cpu_release'
    BY <1>2, ClockSlave, ClockRelease
  <2>2. cpu_int_internal' = FALSE
    BY <1>2, ClockInt
  <2> QED
    BY <2>1, <2>2 DEF Gone, Waiting
<1> QED
  BY <1>1, <1>2 DEF Passing

\* The cycle has been answered and no other waits.
LEMMA GoneStays ==
  ASSUME SlaveInv, HostInv, Gone, NEW op, Clocked(op), ~Wrote(op, "CPU_RELEASE"),
         ~(Asking /\ ustate_s = {})
  PROVE  Gone' /\ ~Waiting' /\ ~(Asking /\ ustate_s = {})'
<1>1. ~cpu_release' /\ Asking' = Asking
  BY ClockRelease, OursStays DEF Gone
<1>2. cpu_int_internal' = FALSE
  BY ClockInt DEF Gone
<1>3. CASE ustate_s = {}
  <2>1. ~Selected
    BY <1>3 DEF Selected, Asking, SlaveInv
  <2> QED
    BY <1>1, <1>2, <1>3, <2>1, ClockSlave DEF Gone, Waiting
<1>4. CASE ustate_s = {3}
  <2>1. Asking => Selected
    BY <1>4 DEF Selected, Asking, SlaveInv, ours
  <2> QED
    BY <1>1, <1>2, <1>4, <2>1, ClockSlave DEF Gone, Waiting
<1> QED
  BY <1>3, <1>4 DEF Gone

\* The same, or the slave machine starts for a new one.
LEMMA GoneOrAsked ==
  ASSUME SlaveInv, HostInv, Gone, NEW op, Clocked(op), ~Wrote(op, "CPU_RELEASE")
  PROVE  Gone' \/ (Waiting' /\ cpu_int_internal' = FALSE /\ ~served /\ ustate_s = {})
<1>1. ~cpu_release' /\ Asking' = Asking /\ cpu_int_internal' = FALSE
  BY ClockRelease, ClockInt, OursStays DEF Gone
<1>2. CASE Asking /\ ustate_s = {}
  BY <1>1, <1>2, ClockSlave DEF Gone, Waiting, HostInv
<1>3. CASE ~(Asking /\ ustate_s = {})
  BY <1>3, GoneStays
<1> QED
  BY <1>2, <1>3

-----------------------------------------------------------------------------
(* The accesses of cpld_isr.                                               *)
Goes(at, next) ==
  isr = at /\ isr' = next /\ lag = ClocksPerAccess /\ lag' = 0 /\ main' = main
Pinned == {pio, aic}' \subseteq BOOLEAN

LEMMA IsrAccess ==
  ASSUME CycleInv, NEW at, NEW op, NEW next, Plain(op), Access(at, op, next)
  PROVE  Goes(at, next) /\ Clocked(op) /\ Pinned /\ got' = got
<1>1. Pinned
  BY DEF Access, Pin, Pinned, CycleInv, TypeInv, CycleTypeOK, pinVars
<1> QED
  BY <1>1 DEF Access, Goes, Clocked, Driven, hostVars

LEMMA CycleTypes ==
  ASSUME TypeInv
  PROVE  /\ cycle.addr \in Int /\ cycle.data \in Word
         /\ cycle.addr \in 0 .. AddrSpace - 1
<1>1. CASE cycle = Quiet
  BY <1>1, AddrAssumption, ZeroAssumption DEF Quiet
<1>2. CASE cycle \in Cycles
  <2>1. cycle.addr \in Targets /\ cycle.data \in Word
    BY <1>2, ZeroAssumption DEF Cycles
  <2>2. cycle.addr \in Address
    BY <2>1, CycleAssumption
  <2>3. AddrSpace \in Int
    BY AddrAssumption
  <2> QED
    BY <2>1, <2>2, <2>3 DEF Address
<1> QED
  BY <1>1, <1>2 DEF TypeInv, CycleTypeOK

LEMMA ClockTypes ==
  ASSUME TypeInv, SlaveInv, HostInv, NEW op, Clocked(op), Wrote(op, "DATA") => op.val \in Word
  PROVE  addr_out' \in Int /\ bus_data_hold' \in Word
BY ClockWords, CycleTypes DEF TypeInv

Isrs == {"off", "pio", "again"} \cup Asks \cup Answers \cup Tails

\* What is left to show of the types when an access of cpld_isr is done.
LEMMA AccessTypes ==
  ASSUME CycleInv, NEW op, Clocked(op), Wrote(op, "DATA") => op.val \in Word, Pinned, got' = got,
         isr' \in Isrs, sigs' \in [c0 : BOOLEAN, c1 : BOOLEAN], addr_lo' \in 0 .. LoSpace - 1,
         regs' \in [Reg -> Word], served' \in BOOLEAN, value' \in Word \cup {Nothing},
         main' = main, lag' = 0
  PROVE  TypeInv'
<1>1. addr_out' \in Int /\ bus_data_hold' \in Word
  BY ClockTypes DEF CycleInv
<1>2. phase' = phase /\ cycle' = cycle /\ mem_ssyn' = mem_ssyn
  BY DEF Clocked, Driven
<1>3. isr' \in {"off", "ack", "iccr1", "pio1", "status", "addr_lo", "cs",
                "cs_release", "cs_ack", "ack2", "addr_hi", "read", "half",
                "cycled", "again", "write", "release", "iccr", "pio"}
  BY DEF Isrs, Asks, Answers, Tails
<1>4. lag' \in 0 .. ClocksPerAccess
  BY CycleAssumption
<1>5. (cycle \in Cycles \cup {Quiet})'
  BY <1>2 DEF CycleInv, TypeInv, CycleTypeOK, Cycles, Quiet
<1>6. CycleTypeOK'
  BY <1>2, <1>3, <1>4, <1>5 DEF CycleInv, TypeInv, CycleTypeOK, Pinned
<1> QED
  BY <1>1, <1>6 DEF TypeInv

Common == SlaveInv /\ HostInv /\ PlaceInv /\ PinInv

\* Before the service.
LEMMA AskStep ==
  ASSUME CycleInv, NEW op, Clocked(op), ~Wrote(op, "CPU_RELEASE"),
         isr \in Asks, isr' \in Asks, main' = main, served' = served
  PROVE  /\ Common' /\ Latched' /\ ours
         /\ cycle.kind # "DATO" /\ ~Wrote(op, "DATA") => bus_data_hold' = bus_data_hold
<1>1. Waiting /\ ~served /\ main = "run"
  BY DEF CycleInv, PlaceInv, Asks
<1>2. SlaveInv' /\ HostInv'
  BY ClockKeeps DEF CycleInv, TypeInv, CycleTypeOK
<1>3. /\ Waiting' /\ Latched'
      /\ cycle.kind # "DATO" /\ ~Wrote(op, "DATA") => bus_data_hold' = bus_data_hold
  BY <1>1, WaitingStays DEF CycleInv
<1>4. PlaceInv'
  BY <1>1, <1>3 DEF PlaceInv, Asks, Answers, Tails, Waiting
<1>5. PinInv'
  BY DEF PinInv, Asks
<1> QED
  BY <1>1, <1>2, <1>3, <1>4, <1>5 DEF Common, Waiting, Asking

\* The service.
LEMMA ServeStep ==
  ASSUME CycleInv, NEW op, Clocked(op), ~Wrote(op, "CPU_RELEASE"),
         isr \in Asks, isr' \in Answers, main' = main, served' = TRUE
  PROVE  /\ Common' /\ Latched' /\ ours
         /\ cycle.kind # "DATO" =>
              bus_data_hold' = IF Wrote(op, "DATA") THEN op.val ELSE bus_data_hold
<1>1. Waiting /\ ~served /\ main = "run"
  BY DEF CycleInv, PlaceInv, Asks
<1>2. SlaveInv' /\ HostInv'
  BY <1>1, ClockKeeps DEF CycleInv
<1>3. /\ Waiting' /\ Latched'
      /\ cycle.kind # "DATO" =>
           bus_data_hold' = IF Wrote(op, "DATA") THEN op.val ELSE bus_data_hold
  BY <1>1, WaitingStays DEF CycleInv
<1>4. PlaceInv'
  BY <1>1, <1>3 DEF PlaceInv, Asks, Answers, Tails, Waiting
<1>5. PinInv'
  BY DEF PinInv, Answers
<1> QED
  BY <1>1, <1>2, <1>3, <1>4, <1>5 DEF Common, Waiting, Asking

\* CPU_RELEASE.
LEMMA ReleaseStep ==
  ASSUME CycleInv, NEW op, Clocked(op), Wrote(op, "CPU_RELEASE"), ~Wrote(op, "DATA"),
         isr \in Answers, isr' \in Tails, main' = main, lag' = 0, served' = served
  PROVE  /\ Common' /\ ours /\ served /\ ~Waiting' /\ ~(Asking /\ ustate_s = {})'
         /\ cycle.kind # "DATO" => bus_data_hold' = bus_data_hold
<1>1. Waiting /\ served /\ main = "run"
  BY DEF CycleInv, PlaceInv, Answers
<1>2. SlaveInv' /\ HostInv'
  BY <1>1, ClockKeeps DEF CycleInv, TypeInv, CycleTypeOK
<1>3. Passing' /\ ~Waiting' /\ ~(Asking /\ ustate_s = {})'
  BY <1>1, WaitingReleased DEF CycleInv
<1>4. cycle.kind # "DATO" => bus_data_hold' = bus_data_hold
  BY ClockWords DEF CycleInv
<1>5. PlaceInv'
  BY <1>1, <1>3 DEF PlaceInv, Asks, Answers, Tails
<1>6. PinInv'
  BY DEF PinInv, Tails
<1> QED
  BY <1>1, <1>2, <1>3, <1>4, <1>5, <1>6 DEF Common, Waiting, Asking

\* After it: the machine is through when the ARM makes its next access.
LEMMA TailStep ==
  ASSUME Patient, CycleInv, NEW op, Clocked(op), ~Wrote(op, "CPU_RELEASE"), ~Wrote(op, "DATA"),
         isr \in Tails, isr' \in Tails \cup {"again"}, main' = main, lag = ClocksPerAccess,
         served' = served
  PROVE  /\ Common' /\ Gone /\ Gone' /\ ~(Asking /\ ustate_s = {}) /\ ~(Asking /\ ustate_s = {})'
         /\ bus_data_hold' = bus_data_hold
<1>1. Gone /\ ~(Asking /\ ustate_s = {}) /\ main = "run"
  BY CycleAssumption DEF CycleInv, PlaceInv, Passing, Tails, Patient
<1>2. SlaveInv' /\ HostInv'
  BY ClockKeeps DEF CycleInv, TypeInv, CycleTypeOK
<1>3. Gone' /\ ~(Asking /\ ustate_s = {})'
  BY <1>1, GoneStays DEF CycleInv
<1>4. bus_data_hold' = bus_data_hold
  BY <1>1, ClockWords DEF CycleInv, Gone
<1>5. PlaceInv'
  BY <1>1, <1>3 DEF PlaceInv, Asks, Answers, Tails
<1>6. PinInv'
  BY DEF PinInv, Tails
<1> QED
  BY <1>1, <1>2, <1>3, <1>4, <1>5, <1>6 DEF Common

-----------------------------------------------------------------------------
(* Each step of cpld_isr keeps the invariant.                              *)
Same == UNCHANGED <<cpldVars, hostVars, sigs, addr_lo, regs, main, lag, history>>

LEMMA SameKeeps ==
  ASSUME CycleInv, Same
  PROVE  /\ SlaveInv' /\ HostInv' /\ ValueInv' /\ addr_out' \in Int /\ bus_data_hold' \in Word
         /\ (Waiting' <=> Waiting) /\ (Asking' <=> Asking) /\ (Gone' <=> Gone)
         /\ (Latched' <=> Latched) /\ (ours' <=> ours) /\ (CPU_INT' <=> CPU_INT)
         /\ cycle' = cycle /\ phase' = phase /\ ustate_s' = ustate_s
         /\ cpu_int_internal' = cpu_int_internal /\ served' = served /\ mem_ssyn' = mem_ssyn
<1> USE DEF Same, cpldVars, hostVars, history
<1>1. ours' = ours /\ CPU_INT' = CPU_INT
  BY DEF ours, CPU_INT
<1>2. SlaveInv' /\ HostInv'
  BY <1>1 DEF CycleInv, SlaveInv, HostInv, Asking, Quiet
<1>3. ValueInv' /\ addr_out' \in Int /\ bus_data_hold' \in Word
  BY DEF CycleInv, ValueInv, TypeInv
<1> QED
  BY <1>1, <1>2, <1>3 DEF Waiting, Asking, Gone, Latched

LEMMA SameTypes ==
  ASSUME CycleInv, Same, isr' \in Isrs, {pio, aic}' \subseteq BOOLEAN
  PROVE  TypeInv'
<1>1. isr' \in {"off", "ack", "iccr1", "pio1", "status", "addr_lo", "cs",
                "cs_release", "cs_ack", "ack2", "addr_hi", "read", "half",
                "cycled", "again", "write", "release", "iccr", "pio"}
  BY DEF Isrs, Asks, Answers, Tails
<1>2. (cycle \in Cycles \cup {Quiet})'
  BY DEF CycleInv, TypeInv, CycleTypeOK, Cycles, Quiet, Same, hostVars
<1> QED
  BY <1>1, <1>2 DEF CycleInv, TypeInv, CycleTypeOK, Same, cpldVars, hostVars, history

LEMMA StepEnter ==
  ASSUME CycleInv, IsrEnter PROVE CycleInv'
<1>1. Same /\ isr = "off" /\ isr' = "ack" /\ aic' = FALSE /\ pio' = pio /\ aic /\ main = "run"
  BY DEF IsrEnter, Same
<1>2. Waiting /\ ~served /\ Latched
  BY <1>1 DEF CycleInv, PlaceInv, PinInv, Gone
<1>3. TypeInv'
  BY <1>1, SameTypes DEF Isrs, Asks, CycleInv, TypeInv, CycleTypeOK
<1>4. PlaceInv'
  BY <1>1, <1>2, SameKeeps DEF PlaceInv, Asks, Answers, Tails, Same, Waiting
<1>5. PinInv' /\ HalfInv' /\ LocalsInv'
  BY <1>1 DEF PinInv, HalfInv, LocalsInv
<1> QED
  BY <1>1, <1>3, <1>4, <1>5, SameKeeps DEF CycleInv

\* The AIC or the PIO flag is cleared at the beginning.
LEMMA StepClear ==
  ASSUME CycleInv, Same, isr' \in {"pio1", "status"}, isr \in {"iccr1", "pio1"},
         {pio, aic}' \subseteq BOOLEAN
  PROVE CycleInv'
<1>1. Waiting /\ ~served /\ Latched /\ main' = "run"
  BY DEF CycleInv, PlaceInv, Asks, Same
<1>2. TypeInv'
  BY SameTypes DEF Isrs, Asks
<1>3. PlaceInv'
  BY <1>1, SameKeeps DEF PlaceInv, Asks, Answers, Tails, Waiting
<1>4. PinInv' /\ HalfInv' /\ LocalsInv'
  BY DEF PinInv, HalfInv, LocalsInv
<1> QED
  BY <1>2, <1>3, <1>4, SameKeeps DEF CycleInv

LEMMA StepAck ==
  ASSUME CycleInv, IsrAck PROVE CycleInv'
<1>1. CASE Access("ack", Wr("INT_RESET", Zero), "iccr1") /\ UNCHANGED <<sigs, addr_lo, regs, history>>
  <2> DEFINE op == Wr("INT_RESET", Zero)
  <2>1. Plain(op) /\ ~Wrote(op, "CPU_RELEASE") /\ ~Wrote(op, "DATA")
    BY DEF Plain, Wr, Wrote
  <2>2. Goes("ack", "iccr1") /\ Clocked(op) /\ Pinned /\ got' = got
    BY <1>1, <2>1, IsrAccess
  <2> HIDE DEF op
  <2>3. isr = "ack" /\ isr' = "iccr1" /\ main' = main /\ lag' = 0 /\ served' = served /\ value' = value
    BY <1>1, <2>2 DEF Goes, history
  <2>4. Common' /\ (cycle.kind # "DATO" => bus_data_hold' = bus_data_hold)
    BY <2>1, <2>2, <2>3, AskStep DEF Asks
  <2>5. TypeInv'
    BY <1>1, <2>1, <2>2, <2>3, AccessTypes DEF Isrs, Asks, CycleInv, TypeInv, CycleTypeOK
  <2>6. HalfInv' /\ LocalsInv'
    BY <2>3 DEF HalfInv, LocalsInv
  <2>7. ValueInv'
    BY <2>3, <2>4, <2>2, OursStays DEF CycleInv, ValueInv
  <2> QED
    BY <2>4, <2>5, <2>6, <2>7 DEF CycleInv, Common
<1>2. CASE ClearAic("iccr1", "pio1")
  BY <1>2, StepClear DEF ClearAic, Same, CycleInv, TypeInv, CycleTypeOK
<1>3. CASE ClearPio("pio1", "status")
  BY <1>3, StepClear DEF ClearPio, Same, CycleInv, TypeInv, CycleTypeOK
<1> QED
  BY <1>1, <1>2, <1>3 DEF IsrAck

LEMMA Sampled ==
  ASSUME SlaveInv, Sample
  PROVE  /\ sigs' \in [c0 : BOOLEAN, c1 : BOOLEAN]
         /\ sigs'.c0 <=> cycle.kind = "DATIP"
         /\ sigs'.c1 <=> cycle.kind = "DATO"
         /\ C1_IN(bus) <=> cycle.kind = "DATO"
<1>1. C1_IN(bus) = (cycle.kind = "DATO")
  BY DEF SlaveInv, C1_IN, c1_assert, MSin, bus
<1> QED
  BY <1>1 DEF Sample

LEMMA StepStatus ==
  ASSUME CycleInv, IsrStatus PROVE CycleInv'
<1> DEFINE op == Rd("STATUS")
<1>1. Plain(op) /\ ~Wrote(op, "CPU_RELEASE") /\ ~Wrote(op, "DATA")
  BY DEF Plain, Rd, Wrote
<1>2. Goes("status", "addr_lo") /\ Clocked(op) /\ Pinned /\ got' = got
  BY <1>1, IsrAccess DEF IsrStatus
<1> HIDE DEF op
<1>3. /\ isr = "status" /\ isr' = "addr_lo" /\ main' = main /\ lag' = 0
      /\ served' = served /\ value' = value /\ addr_lo' = addr_lo /\ regs' = regs
  BY <1>2 DEF IsrStatus, Goes, history
<1>4. Common' /\ (cycle.kind # "DATO" => bus_data_hold' = bus_data_hold)
  BY <1>1, <1>2, <1>3, AskStep DEF Asks
<1>5. sigs' \in [c0 : BOOLEAN, c1 : BOOLEAN] /\ (sigs'.c0 <=> cycle.kind = "DATIP")
      /\ (sigs'.c1 <=> cycle.kind = "DATO")
  BY Sampled DEF IsrStatus, CycleInv
<1>6. TypeInv'
  BY <1>1, <1>2, <1>3, <1>5, AccessTypes DEF Isrs, Asks, CycleInv, TypeInv, CycleTypeOK
<1>7. cycle' = cycle
  BY <1>2, OursStays
<1>8. HalfInv' /\ LocalsInv'
  BY <1>3, <1>5, <1>7 DEF HalfInv, LocalsInv
<1>9. ValueInv'
  BY <1>3, <1>4, <1>7 DEF CycleInv, ValueInv
<1> QED
  BY <1>4, <1>6, <1>8, <1>9 DEF CycleInv, Common

-----------------------------------------------------------------------------
(* The window lies within one of the spaces of WR_ADDR_LO.                 *)
LEMMA DivMod ==
  ASSUME NEW a \in Int, NEW b \in Nat \ {0}
  PROVE  /\ a \div b \in Int /\ a % b \in 0 .. b - 1
         /\ a = b * (a \div b) + (a % b)
BY Z3

LEMMA TimesAtLeast ==
  ASSUME NEW k \in Int, NEW b \in Nat \ {0}
  PROVE  /\ k >= 1 => b * k >= b
         /\ k <= -1 => b * k <= -b
BY Z3

LEMMA DivUnique ==
  ASSUME NEW a \in Int, NEW b \in Nat \ {0}, NEW q \in Int, NEW r \in 0 .. b - 1, a = b * q + r
  PROVE  a \div b = q /\ a % b = r
<1>1. /\ a \div b \in Int /\ a % b \in 0 .. b - 1
      /\ a = b * (a \div b) + (a % b)
  BY DivMod
<1> DEFINE p == a \div b
           s == a % b
           d == p - q
<1>2. p \in Int /\ s \in 0 .. b - 1 /\ a = b * p + s
  BY <1>1
<1> HIDE DEF p, s
<1>3. d \in Int /\ b * d = b * p - b * q
  BY <1>2
<1>4. b * d = r - s
  BY <1>2, <1>3
<1>5. b * d < b /\ b * d > -b
  BY <1>2, <1>4
<1>6. (d >= 1 => b * d >= b) /\ (d <= -1 => b * d <= -b)
  BY <1>3, TimesAtLeast
<1>7. d = 0
  BY <1>3, <1>5, <1>6
<1> QED
  BY <1>2, <1>4, <1>7 DEF p, s

LEMMA WideEnough ==
  /\ LoSpace \in Nat \ {0} /\ Window \in Nat \ {0} /\ Base \in Int
  /\ LoSpace = Window * (LoSpace \div Window) /\ LoSpace \div Window \in Int
<1>1. LoSpace \in Nat \ {0} /\ Window \in Nat \ {0} /\ Base \in Int
  BY AddrAssumption, CycleAssumption DEF Address
<1>2. LoSpace = Window * (LoSpace \div Window) + (LoSpace % Window) /\ LoSpace \div Window \in Int
  BY <1>1, DivMod
<1> DEFINE k == LoSpace \div Window
<1>3. LoSpace = Window * k + 0 /\ k \in Int
  BY <1>2, CycleAssumption
<1> HIDE DEF k
<1>4. LoSpace = Window * k
  BY <1>1, <1>3
<1> QED
  BY <1>1, <1>3, <1>4 DEF k

\* The lower bits of the lower bits.
LEMMA LowOfLow ==
  ASSUME NEW a \in Int, NEW n \in Nat \ {0}, NEW m \in Nat \ {0}, n % m = 0
  PROVE  (a % n) % m = a % m /\ a % n \in 0 .. n - 1
<1> DEFINE q == a \div n
           r == a % n
           k == n \div m
           s == r \div m
           t == r % m
<1>1. n = m * k + (n % m) /\ k \in Int
  BY DivMod
<1>2. n = m * k
  <2> HIDE DEF k
  <2> QED
    BY <1>1
<1>3. a = n * q + r /\ q \in Int /\ r \in 0 .. n - 1 /\ r \in Int
  BY DivMod
<1>4. r = m * s + t /\ s \in Int /\ t \in 0 .. m - 1
  BY <1>3, DivMod
<1> HIDE DEF q, r, k, s, t
<1>5. (m * k) * q = m * (k * q) /\ k * q \in Int
  BY <1>1, <1>3
<1>6. m * (k * q + s) = m * (k * q) + m * s /\ k * q + s \in Int
  BY <1>1, <1>4, <1>5
<1>7. a = m * (k * q + s) + t
  BY <1>2, <1>3, <1>4, <1>5, <1>6
<1>8. a % m = t
  BY <1>4, <1>6, <1>7, DivUnique
<1> QED
  BY <1>3, <1>8 DEF t, r

\* The same for the three fields of an address.
LEMMA LowOfAddress ==
  ASSUME NEW a \in Int
  PROVE  /\ (a % LoSpace) % Window = a % Window /\ a % LoSpace \in 0 .. LoSpace - 1
         /\ (a % LoSpace) % Decode = a % Decode
         /\ a % Window = CS => a % Decode = CS
<1>1. LoSpace \in Nat \ {0} /\ Window \in Nat \ {0} /\ Decode \in Nat \ {0}
  BY WideEnough, CycleAssumption
<1>2. (a % LoSpace) % Window = a % Window /\ a % LoSpace \in 0 .. LoSpace - 1
  BY <1>1, LowOfLow, CycleAssumption
<1>3. LoSpace % Decode = 0
  <2>1. (LoSpace % Window) % Decode = LoSpace % Decode
    <3>1. LoSpace \in Int /\ Window % Decode = 0
      BY <1>1, CycleAssumption
    <3> QED
      BY <1>1, <3>1, LowOfLow
  <2>2. LoSpace % Window = 0
    BY CycleAssumption
  <2>3. 0 % Decode = 0
    BY <1>1
  <2> QED
    BY <2>1, <2>2, <2>3
<1>4. (a % LoSpace) % Decode = a % Decode
  BY <1>1, <1>3, LowOfLow
<1>5. (a % Window) % Decode = a % Decode
  BY <1>1, LowOfLow, CycleAssumption
<1>6. CS % Decode = CS
  BY <1>1, CycleAssumption
<1> QED
  BY <1>2, <1>4, <1>5, <1>6

\* An address of the window has the upper bits of its base.
LEMMA HighOfWindow ==
  ASSUME NEW a \in Int, a \div Window = Base \div Window
  PROVE  a \div LoSpace = Base \div LoSpace
<1> DEFINE q == Base \div LoSpace
           r == Base % LoSpace
           k == LoSpace \div Window
           j == r \div Window
           m == Base \div Window
           t == a % Window
<1>1. LoSpace \in Nat \ {0} /\ Window \in Nat \ {0} /\ Base \in Int /\ LoSpace = Window * k /\ k \in Int
  BY WideEnough
<1>2. Base = LoSpace * q + r /\ q \in Int /\ r \in 0 .. LoSpace - 1 /\ r \in Int
  BY <1>1, DivMod
<1>3. r % Window = 0
  BY <1>1, LowOfAddress, CycleAssumption
<1>4. r = Window * j + 0 /\ j \in Int
  BY <1>1, <1>2, <1>3, DivMod
<1>5. Base = Window * m + 0 /\ m \in Int
  BY <1>1, DivMod, CycleAssumption
<1>6. a = Window * m + t /\ t \in 0 .. Window - 1
  BY <1>1, DivMod
<1> HIDE DEF q, r, k, j, m, t
<1>7. Window * (j - k) = Window * j - Window * k /\ j - k \in Int
  BY <1>1, <1>4
<1>8. Window * (j - k) < 0
  BY <1>1, <1>2, <1>4, <1>7
<1>9. j - k <= -1
  <2>1. j - k >= 0 => Window * (j - k) >= 0
    BY <1>1, <1>7, Z3
  <2> QED
    BY <2>1, <1>7, <1>8, <1>1
<1>10. Window * (j - k) <= -Window
  BY <1>1, <1>7, <1>9, TimesAtLeast
<1>11. r + t \in 0 .. LoSpace - 1
  BY <1>1, <1>2, <1>4, <1>6, <1>7, <1>10
<1>12. a = LoSpace * q + (r + t)
  BY <1>1, <1>2, <1>5, <1>6
<1>13. a \div LoSpace = q
  BY <1>1, <1>2, <1>11, <1>12, DivUnique
<1> QED
  BY <1>13 DEF q

-----------------------------------------------------------------------------
(* The rest of cpld_isr.                                                   *)
LEMMA StepAddrLo ==
  ASSUME CycleInv, IsrAddrLo PROVE CycleInv'
<1> DEFINE op == Rd("ADDR_LO")
           next == IF ~sigs.c1 /\ ~sigs.c0 /\ addr_out % Window = CS THEN "cs" ELSE "ack2"
<1>1. Plain(op) /\ ~Wrote(op, "CPU_RELEASE") /\ ~Wrote(op, "DATA")
  BY DEF Plain, Rd, Wrote
<1>2. Goes("addr_lo", next) /\ Clocked(op) /\ Pinned /\ got' = got
  BY <1>1, IsrAccess DEF IsrAddrLo
<1> HIDE DEF op
<1>3. /\ isr = "addr_lo" /\ isr' = next /\ main' = main /\ lag' = 0 /\ sigs' = sigs
      /\ served' = served /\ value' = value /\ addr_lo' = addr_out % LoSpace /\ regs' = regs
  BY <1>2 DEF IsrAddrLo, Goes, history
<1>4. isr' \in {"cs", "ack2"} /\ (isr' = "cs" => ~sigs.c1 /\ addr_out % Window = CS)
  BY <1>3
<1> HIDE DEF next
<1>5. Common' /\ (cycle.kind # "DATO" => bus_data_hold' = bus_data_hold)
  BY <1>1, <1>2, <1>3, <1>4, AskStep DEF Asks
<1>6. addr_out = cycle.addr /\ addr_lo' \in 0 .. LoSpace - 1
  <2>1. addr_out = cycle.addr
    BY <1>3 DEF CycleInv, PlaceInv, Asks, Latched
  <2>2. cycle.addr \in Int
    BY CycleTypes DEF CycleInv
  <2> QED
    BY <1>3, <2>1, <2>2, LowOfAddress
<1>7. TypeInv'
  BY <1>1, <1>2, <1>3, <1>4, <1>6, AccessTypes DEF Isrs, Asks, CycleInv, TypeInv, CycleTypeOK
<1>8. cycle' = cycle
  BY <1>2, OursStays
<1>9. (sigs.c0 <=> cycle.kind = "DATIP") /\ (sigs.c1 <=> cycle.kind = "DATO")
  BY <1>3 DEF CycleInv, LocalsInv
<1>10. HalfInv' /\ LocalsInv'
  BY <1>3, <1>4, <1>6, <1>8, <1>9 DEF HalfInv, LocalsInv
<1>11. ValueInv'
  BY <1>3, <1>5, <1>8 DEF CycleInv, ValueInv
<1> QED
  BY <1>5, <1>7, <1>10, <1>11 DEF CycleInv, Common

LEMMA StepShortCs ==
  ASSUME CycleInv, IsrShortCs PROVE CycleInv'
<1> DEFINE op == Wr("DATA", regs[CS])
<1>1. Plain(op) /\ ~Wrote(op, "CPU_RELEASE") /\ Wrote(op, "DATA") /\ op.val = regs[CS]
  BY DEF Plain, Wr, Wrote
<1>2. Goes("cs", "cs_release") /\ Clocked(op) /\ Pinned /\ got' = got
  BY <1>1, IsrAccess DEF IsrShortCs
<1> HIDE DEF op
<1>3. /\ isr = "cs" /\ isr' = "cs_release" /\ main' = main /\ lag' = 0 /\ sigs' = sigs
      /\ served' = TRUE /\ value' = regs[CS] /\ addr_lo' = addr_lo /\ regs' = regs
  BY <1>2 DEF IsrShortCs, Goes
<1>4. regs[CS] \in Word
  BY CycleAssumption DEF CycleInv, TypeInv, CycleTypeOK
<1>5. Common' /\ (cycle.kind # "DATO" => bus_data_hold' = regs[CS])
  BY <1>1, <1>2, <1>3, ServeStep DEF Asks, Answers
<1>6. TypeInv'
  BY <1>1, <1>2, <1>3, <1>4, AccessTypes DEF Isrs, Answers, CycleInv, TypeInv, CycleTypeOK
<1>7. cycle' = cycle
  BY <1>2, OursStays
<1>8. HalfInv' /\ LocalsInv'
  BY <1>3 DEF HalfInv, LocalsInv
<1>9. ValueInv'
  BY <1>3, <1>5, <1>7 DEF CycleInv, ValueInv, LocalsInv
<1> QED
  BY <1>5, <1>6, <1>8, <1>9 DEF CycleInv, Common

LEMMA StepShortRelease ==
  ASSUME Patient, CycleInv, IsrShortRelease PROVE CycleInv'
<1>a. sigs' = sigs /\ addr_lo' = addr_lo /\ regs' = regs /\ served' = served /\ value' = value
  BY DEF IsrShortRelease, history
<1>1. CASE Access("cs_release", Wr("CPU_RELEASE", Zero), "cs_ack")
  <2> DEFINE op == Wr("CPU_RELEASE", Zero)
  <2>1. Plain(op) /\ Wrote(op, "CPU_RELEASE") /\ ~Wrote(op, "DATA")
    BY DEF Plain, Wr, Wrote
  <2>2. Goes("cs_release", "cs_ack") /\ Clocked(op) /\ Pinned /\ got' = got
    BY <1>1, <2>1, IsrAccess
  <2> HIDE DEF op
  <2>3. isr = "cs_release" /\ isr' = "cs_ack" /\ main' = main /\ lag' = 0
    BY <2>2 DEF Goes
  <2>4. Common' /\ (cycle.kind # "DATO" => bus_data_hold' = bus_data_hold)
    BY <1>a, <2>1, <2>2, <2>3, ReleaseStep DEF Answers, Tails
  <2>5. TypeInv'
    BY <1>a, <2>1, <2>2, <2>3, AccessTypes DEF Isrs, Tails, CycleInv, TypeInv, CycleTypeOK
  <2>6. HalfInv' /\ LocalsInv'
    BY <2>3 DEF HalfInv, LocalsInv
  <2>7. ValueInv'
    BY <1>a, <2>2, <2>4, OursStays DEF CycleInv, ValueInv
  <2> QED
    BY <2>4, <2>5, <2>6, <2>7 DEF CycleInv, Common
<1>2. CASE Access("cs_ack", Wr("INT_RESET", Zero), "iccr")
  <2> DEFINE op == Wr("INT_RESET", Zero)
  <2>1. Plain(op) /\ ~Wrote(op, "CPU_RELEASE") /\ ~Wrote(op, "DATA")
    BY DEF Plain, Wr, Wrote
  <2>2. Goes("cs_ack", "iccr") /\ Clocked(op) /\ Pinned /\ got' = got
    BY <1>2, <2>1, IsrAccess
  <2> HIDE DEF op
  <2>3. isr = "cs_ack" /\ isr' = "iccr" /\ main' = main /\ lag' = 0 /\ lag = ClocksPerAccess
    BY <2>2 DEF Goes
  <2>4. Common' /\ bus_data_hold' = bus_data_hold
    BY <1>a, <2>1, <2>2, <2>3, TailStep DEF Tails
  <2>5. TypeInv'
    BY <1>a, <2>1, <2>2, <2>3, AccessTypes DEF Isrs, Tails, CycleInv, TypeInv, CycleTypeOK
  <2>6. HalfInv' /\ LocalsInv'
    BY <2>3 DEF HalfInv, LocalsInv
  <2>7. ValueInv'
    BY <1>a, <2>2, <2>4, OursStays DEF CycleInv, ValueInv
  <2> QED
    BY <2>4, <2>5, <2>6, <2>7 DEF CycleInv, Common
<1> QED
  BY <1>1, <1>2 DEF IsrShortRelease

LEMMA StepLong ==
  ASSUME CycleInv, IsrLong PROVE CycleInv'
<1>a. sigs' = sigs /\ addr_lo' = addr_lo /\ regs' = regs /\ served' = served /\ value' = value
  BY DEF IsrLong, history
<1>1. CASE Access("ack2", Wr("INT_RESET", Zero), "addr_hi")
  <2> DEFINE op == Wr("INT_RESET", Zero)
  <2>1. Plain(op) /\ ~Wrote(op, "CPU_RELEASE") /\ ~Wrote(op, "DATA")
    BY DEF Plain, Wr, Wrote
  <2>2. Goes("ack2", "addr_hi") /\ Clocked(op) /\ Pinned /\ got' = got
    BY <1>1, <2>1, IsrAccess
  <2> HIDE DEF op
  <2>3. isr = "ack2" /\ isr' = "addr_hi" /\ main' = main /\ lag' = 0
    BY <2>2 DEF Goes
  <2>4. Common' /\ (cycle.kind # "DATO" => bus_data_hold' = bus_data_hold)
    BY <1>a, <2>1, <2>2, <2>3, AskStep DEF Asks
  <2>5. TypeInv'
    BY <1>a, <2>1, <2>2, <2>3, AccessTypes DEF Isrs, Asks, CycleInv, TypeInv, CycleTypeOK
  <2>6. cycle' = cycle
    BY <2>2, OursStays
  <2>7. HalfInv' /\ LocalsInv'
    BY <1>a, <2>3, <2>6 DEF HalfInv, LocalsInv, CycleInv
  <2>8. ValueInv'
    BY <1>a, <2>4, <2>6 DEF CycleInv, ValueInv
  <2> QED
    BY <2>4, <2>5, <2>7, <2>8 DEF CycleInv, Common
<1>2. ASSUME NEW next, Access("addr_hi", Rd("ADDR_HI"), next),
             next = IF addr_out \div LoSpace # Base \div LoSpace THEN "iccr"
                    ELSE IF sigs.c1 THEN "write" ELSE "read"
      PROVE  CycleInv'
  <2> DEFINE op == Rd("ADDR_HI")
  <2>1. Plain(op) /\ ~Wrote(op, "CPU_RELEASE") /\ ~Wrote(op, "DATA")
    BY DEF Plain, Rd, Wrote
  <2>2. Goes("addr_hi", next) /\ Clocked(op) /\ Pinned /\ got' = got
    BY <1>2, <2>1, IsrAccess
  <2> HIDE DEF op
  <2>3. isr = "addr_hi" /\ isr' = next /\ main' = main /\ lag' = 0
    BY <2>2 DEF Goes
  <2>4. addr_out \div LoSpace = Base \div LoSpace
    <3>1. addr_out = cycle.addr /\ ours
      BY <2>3 DEF CycleInv, PlaceInv, Asks, Latched, Waiting, Asking
    <3>2. cycle.addr \in Int
      BY CycleTypes DEF CycleInv
    <3> QED
      BY <3>1, <3>2, HighOfWindow DEF ours
  <2>5. isr' = IF sigs.c1 THEN "write" ELSE "read"
    BY <1>2, <2>3, <2>4
  <2>6. Common' /\ (cycle.kind # "DATO" => bus_data_hold' = bus_data_hold)
    BY <1>a, <2>1, <2>2, <2>3, <2>5, AskStep DEF Asks
  <2>7. TypeInv'
    BY <1>a, <2>1, <2>2, <2>3, <2>5, AccessTypes DEF Isrs, Asks, CycleInv, TypeInv, CycleTypeOK
  <2>8. cycle' = cycle
    BY <2>2, OursStays
  <2>9. HalfInv' /\ LocalsInv'
    BY <1>a, <2>3, <2>5, <2>8 DEF HalfInv, LocalsInv, CycleInv
  <2>10. ValueInv'
    BY <1>a, <2>6, <2>8 DEF CycleInv, ValueInv
  <2> QED
    BY <2>6, <2>7, <2>9, <2>10 DEF CycleInv, Common
<1> QED
  BY <1>1, <1>2 DEF IsrLong

LEMMA StepRead ==
  ASSUME CycleInv, IsrRead PROVE CycleInv'
<1>0. PICK v \in IF register \in Reg THEN {regs[register]} ELSE Word :
         /\ Access("read", Wr("DATA", v), IF sigs.c0 THEN "half" ELSE "release")
         /\ value' = v
  BY DEF IsrRead
<1> DEFINE op == Wr("DATA", v)
           next == IF sigs.c0 THEN "half" ELSE "release"
<1>1. Plain(op) /\ ~Wrote(op, "CPU_RELEASE") /\ Wrote(op, "DATA") /\ op.val = v
  BY DEF Plain, Wr, Wrote
<1>2. Goes("read", next) /\ Clocked(op) /\ Pinned /\ got' = got
  BY <1>0, <1>1, IsrAccess
<1> HIDE DEF op
<1>3. /\ isr = "read" /\ isr' = next /\ main' = main /\ lag' = 0 /\ sigs' = sigs
      /\ served' = TRUE /\ addr_lo' = addr_lo /\ regs' = regs
  BY <1>2 DEF IsrRead, Goes
<1>4. v \in Word
  BY <1>0 DEF CycleInv, TypeInv, CycleTypeOK
<1>5. isr' \in {"half", "release"} /\ (isr' = "half" => sigs.c0)
  BY <1>3
<1> HIDE DEF next
<1>6. Common' /\ (cycle.kind # "DATO" => bus_data_hold' = v)
  BY <1>1, <1>2, <1>3, <1>5, ServeStep DEF Asks, Answers
<1>7. TypeInv'
  BY <1>0, <1>1, <1>2, <1>3, <1>4, <1>5, AccessTypes DEF Isrs, Answers, CycleInv, TypeInv, CycleTypeOK
<1>8. cycle' = cycle
  BY <1>2, OursStays
<1>9. HalfInv' /\ LocalsInv'
  BY <1>3, <1>5, <1>8 DEF HalfInv, LocalsInv, CycleInv
<1>10. ValueInv'
  BY <1>0, <1>3, <1>6, <1>8 DEF CycleInv, ValueInv, LocalsInv
<1> QED
  BY <1>6, <1>7, <1>9, <1>10 DEF CycleInv, Common

LEMMA StepWrite ==
  ASSUME CycleInv, IsrWrite PROVE CycleInv'
<1> DEFINE op == Rd("DATA")
<1>1. Plain(op) /\ ~Wrote(op, "CPU_RELEASE") /\ ~Wrote(op, "DATA")
  BY DEF Plain, Rd, Wrote
<1>2. Goes("write", "release") /\ Clocked(op) /\ Pinned /\ got' = got
  BY <1>1, IsrAccess DEF IsrWrite
<1> HIDE DEF op
<1>3. /\ isr = "write" /\ isr' = "release" /\ main' = main /\ lag' = 0 /\ sigs' = sigs
      /\ served' = TRUE /\ addr_lo' = addr_lo /\ value' = value
  BY <1>2 DEF IsrWrite, Goes
<1>4. regs' \in [Reg -> Word]
  BY DEF IsrWrite, CycleInv, TypeInv, CycleTypeOK
<1>5. Common'
  BY <1>1, <1>2, <1>3, ServeStep DEF Asks, Answers
<1>6. TypeInv'
  BY <1>1, <1>2, <1>3, <1>4, AccessTypes DEF Isrs, Answers, CycleInv, TypeInv, CycleTypeOK
<1>7. cycle' = cycle
  BY <1>2, OursStays
<1>8. HalfInv' /\ LocalsInv'
  BY <1>3 DEF HalfInv, LocalsInv
<1>9. ValueInv'
  BY <1>3, <1>7 DEF CycleInv, ValueInv, LocalsInv
<1> QED
  BY <1>5, <1>6, <1>8, <1>9 DEF CycleInv, Common

LEMMA StepRelease ==
  ASSUME CycleInv, IsrRelease PROVE CycleInv'
<1> DEFINE op == Wr("CPU_RELEASE", Zero)
<1>1. Plain(op) /\ Wrote(op, "CPU_RELEASE") /\ ~Wrote(op, "DATA")
  BY DEF Plain, Wr, Wrote
<1>2. Goes("release", "iccr") /\ Clocked(op) /\ Pinned /\ got' = got
  BY <1>1, IsrAccess DEF IsrRelease
<1> HIDE DEF op
<1>3. /\ isr = "release" /\ isr' = "iccr" /\ main' = main /\ lag' = 0 /\ sigs' = sigs
      /\ served' = served /\ value' = value /\ addr_lo' = addr_lo /\ regs' = regs
  BY <1>2 DEF IsrRelease, Goes, history
<1>4. Common' /\ (cycle.kind # "DATO" => bus_data_hold' = bus_data_hold)
  BY <1>1, <1>2, <1>3, ReleaseStep DEF Answers, Tails
<1>5. TypeInv'
  BY <1>1, <1>2, <1>3, AccessTypes DEF Isrs, Tails, CycleInv, TypeInv, CycleTypeOK
<1>6. HalfInv' /\ LocalsInv'
  BY <1>3 DEF HalfInv, LocalsInv
<1>7. ValueInv'
  BY <1>2, <1>3, <1>4, OursStays DEF CycleInv, ValueInv
<1> QED
  BY <1>4, <1>5, <1>6, <1>7 DEF CycleInv, Common

LEMMA StepHalf ==
  ASSUME Patient, CycleInv, IsrHalf PROVE CycleInv'
<1>a. addr_lo' = addr_lo /\ regs' = regs /\ served' = served /\ value' = value
  BY DEF IsrHalf, history
<1>1. CASE Access("half", Wr("CPU_RELEASE", Zero), "cycled") /\ sigs' = sigs
  <2> DEFINE op == Wr("CPU_RELEASE", Zero)
  <2>1. Plain(op) /\ Wrote(op, "CPU_RELEASE") /\ ~Wrote(op, "DATA")
    BY DEF Plain, Wr, Wrote
  <2>2. Goes("half", "cycled") /\ Clocked(op) /\ Pinned /\ got' = got
    BY <1>1, <2>1, IsrAccess
  <2> HIDE DEF op
  <2>3. isr = "half" /\ isr' = "cycled" /\ main' = main /\ lag' = 0
    BY <2>2 DEF Goes
  <2>4. /\ Common' /\ ours /\ ~Waiting' /\ ~(Asking /\ ustate_s = {})'
        /\ cycle.kind # "DATO" => bus_data_hold' = bus_data_hold
    BY <1>a, <2>1, <2>2, <2>3, ReleaseStep DEF Answers, Tails
  <2>5. TypeInv'
    BY <1>a, <1>1, <2>1, <2>2, <2>3, AccessTypes DEF Isrs, Tails, CycleInv, TypeInv, CycleTypeOK
  <2>6. ours' = ours /\ cycle' = cycle /\ phase' = phase
    BY <2>2, OursStays
  <2>7. cycle.kind = "DATIP" /\ phase = "msyn"
    BY <2>3 DEF CycleInv, HalfInv, PlaceInv, Answers, Waiting, Asking
  <2>8. HalfInv'
    BY <2>3, <2>4, <2>6, <2>7 DEF HalfInv
  <2>9. LocalsInv'
    BY <1>a, <2>3, <2>6 DEF LocalsInv, CycleInv
  <2>10. ValueInv'
    BY <1>a, <2>4, <2>6 DEF CycleInv, ValueInv
  <2> QED
    BY <2>4, <2>5, <2>8, <2>9, <2>10 DEF CycleInv, Common
<1>b. CASE Sample
  <2>a. sigs' \in [c0 : BOOLEAN, c1 : BOOLEAN] /\ (C1_IN(bus) <=> cycle.kind = "DATO")
    BY <1>b, Sampled DEF CycleInv
  <2> DEFINE op == Rd("STATUS")
  <2>b. Plain(op) /\ ~Wrote(op, "CPU_RELEASE") /\ ~Wrote(op, "DATA")
    BY DEF Plain, Rd, Wrote
  <2>1. ASSUME NEW next, Access("cycled", Rd("STATUS"), next),
               next = IF SS(1) THEN "cycled" ELSE "again"
        PROVE  CycleInv'
    <3>1. Goes("cycled", next) /\ Clocked(op) /\ Pinned /\ got' = got
      BY <2>1, <2>b, IsrAccess
    <3> HIDE DEF op
    <3>2. isr = "cycled" /\ isr' = next /\ main' = main /\ lag' = 0 /\ lag = ClocksPerAccess
      BY <3>1 DEF Goes
    <3>3. isr' \in {"cycled", "again"}
      BY <2>1, <3>2
    <3>4. /\ Common' /\ Gone /\ Gone' /\ ~(Asking /\ ustate_s = {}) /\ ~(Asking /\ ustate_s = {})'
          /\ bus_data_hold' = bus_data_hold
      BY <1>a, <2>b, <3>1, <3>2, <3>3, TailStep DEF Tails
    <3>5. TypeInv'
      BY <1>a, <2>a, <2>b, <3>1, <3>2, <3>3, AccessTypes DEF Isrs, Tails, CycleInv, TypeInv, CycleTypeOK
    <3>6. ours' = ours /\ cycle' = cycle /\ phase' = phase
      BY <3>1, OursStays
    <3>7. ours /\ \/ cycle.kind = "DATIP" /\ phase \in {"msyn", "drop"}
                  \/ cycle.kind = "DATO" /\ phase = "addr" /\ ~served
      BY <3>2, <3>4 DEF CycleInv, HalfInv, Gone, Waiting, Asking
    <3>8. phase = "addr" => ustate_s' = {}
      BY <3>4, <3>6, <3>7 DEF Common, SlaveInv
    <3>9. HalfInv'
      BY <1>a, <3>3, <3>4, <3>6, <3>7, <3>8 DEF HalfInv, Gone, Waiting
    <3>10. LocalsInv'
      BY <1>a, <3>2, <3>3, <3>6 DEF LocalsInv, CycleInv
    <3>11. ValueInv'
      BY <1>a, <3>4, <3>6 DEF CycleInv, ValueInv
    <3> QED
      BY <3>4, <3>5, <3>9, <3>10, <3>11 DEF CycleInv, Common
  <2>2. ASSUME NEW next, Access("again", Rd("STATUS"), next),
               next = IF ~SS(1) THEN "again" ELSE IF C1_IN(bus) THEN "write" ELSE "release"
        PROVE  CycleInv'
    <3>1. Goes("again", next) /\ Clocked(op) /\ Pinned /\ got' = got
      BY <2>2, <2>b, IsrAccess
    <3> HIDE DEF op
    <3>2. isr = "again" /\ isr' = next /\ main' = main /\ lag' = 0
      BY <3>1 DEF Goes
    <3>3. main = "run" /\ (Gone \/ (Waiting /\ ~served))
      BY <3>2 DEF CycleInv, PlaceInv
    <3>4. SlaveInv' /\ HostInv'
      BY <1>a, <2>b, <3>1, ClockKeeps DEF CycleInv, TypeInv, CycleTypeOK
    <3>5. ours' = ours /\ cycle' = cycle /\ phase' = phase
      BY <3>1, OursStays
    <3>6. CASE Gone
      <4>1. isr' = "again"
        BY <2>2, <3>2, <3>6 DEF Gone, SS
      <4>2. Gone' \/ (Waiting' /\ ~served' /\ ustate_s = {})
        BY <1>a, <2>b, <3>1, <3>6, GoneOrAsked DEF CycleInv
      <4>3. PlaceInv' /\ PinInv'
        BY <3>2, <3>3, <4>1, <4>2, <1>a DEF PlaceInv, PinInv, Asks, Answers, Tails
      <4>4. bus_data_hold' = bus_data_hold
        BY <2>b, <3>1, <3>6, ClockWords DEF CycleInv, Gone
      <4>5. TypeInv'
        BY <1>a, <2>a, <2>b, <3>1, <3>2, <4>1, AccessTypes DEF Isrs, CycleInv, TypeInv, CycleTypeOK
      <4>6. ours /\ \/ cycle.kind = "DATIP" /\ phase \in {"msyn", "drop"} /\ ~(Asking /\ ustate_s = {})
                    \/ cycle.kind = "DATO" /\ phase \in {"addr", "msyn"} /\ ~served /\ ustate_s = {}
        BY <3>2, <3>6 DEF CycleInv, HalfInv, Gone, Waiting
      <4>7. HalfInv'
        <5>1. CASE cycle.kind = "DATIP"
          <6>1. ~Waiting' /\ ~(Asking /\ ustate_s = {})'
            BY <2>b, <3>1, <3>6, <4>6, <5>1, GoneStays DEF CycleInv
          <6> QED
            BY <3>5, <4>1, <4>6, <5>1, <6>1 DEF HalfInv
        <5>2. CASE cycle.kind = "DATO"
          <6>1. ustate_s' = {} \/ ustate_s' = {1}
            BY <3>1, <4>6, <5>2, ClockSlave DEF CycleInv
          <6>2. ustate_s' = {} \/ Waiting'
            BY <4>2, <6>1 DEF Gone
          <6> QED
            BY <1>a, <3>5, <4>1, <4>6, <5>2, <6>2 DEF HalfInv
        <5> QED
          BY <4>6, <5>1, <5>2
      <4>8. LocalsInv'
        BY <1>a, <3>2, <3>5, <4>1 DEF LocalsInv, CycleInv
      <4>9. ValueInv'
        BY <1>a, <3>5, <4>4 DEF CycleInv, ValueInv
      <4> QED
        BY <3>4, <4>3, <4>5, <4>7, <4>8, <4>9 DEF CycleInv
    <3>7. CASE Waiting /\ ~served
      <4>1. cycle.kind = "DATO"
        BY <3>2, <3>7 DEF CycleInv, HalfInv
      <4>2. isr' = "write"
        BY <2>2, <2>a, <3>2, <3>7, <4>1 DEF Waiting, SS
      <4>3. Waiting' /\ Latched'
        BY <2>b, <3>1, <3>7, WaitingStays DEF CycleInv
      <4>4. PlaceInv' /\ PinInv'
        BY <1>a, <3>2, <3>3, <3>7, <4>2, <4>3 DEF PlaceInv, PinInv, Asks, Answers, Tails, Waiting
      <4>5. TypeInv'
        BY <1>a, <2>a, <2>b, <3>1, <3>2, <4>2, AccessTypes DEF Isrs, Asks, CycleInv, TypeInv, CycleTypeOK
      <4>6. HalfInv' /\ LocalsInv'
        BY <1>a, <3>2, <3>5, <4>1, <4>2 DEF HalfInv, LocalsInv, CycleInv
      <4>7. ValueInv'
        BY <1>a, <3>5, <4>1 DEF CycleInv, ValueInv
      <4> QED
        BY <3>4, <4>4, <4>5, <4>6, <4>7 DEF CycleInv
    <3> QED
      BY <3>3, <3>6, <3>7
  <2> QED
    BY <1>b, <2>1, <2>2, <1>1 DEF IsrHalf
<1> QED
  BY <1>1, <1>b DEF IsrHalf

LEMMA StepDone ==
  ASSUME Patient, CycleInv, IsrDone PROVE CycleInv'
<1>1. Same
  BY DEF IsrDone, ClearAic, ClearPio, Same
<1>2. {pio, aic}' \subseteq BOOLEAN /\ isr' \in {"pio", "off"}
  BY DEF IsrDone, ClearAic, ClearPio, CycleInv, TypeInv, CycleTypeOK
<1>3. TypeInv'
  BY <1>1, <1>2, SameTypes DEF Isrs
<1>4. HalfInv' /\ LocalsInv'
  BY <1>2 DEF HalfInv, LocalsInv
<1>5. CASE ClearAic("iccr", "pio")
  <2>1. isr = "iccr" /\ isr' = "pio" /\ lag = ClocksPerAccess /\ aic' = FALSE
    BY <1>5 DEF ClearAic
  <2>2. Gone /\ ~(Asking /\ ustate_s = {}) /\ main = "run"
    BY <2>1, CycleAssumption DEF CycleInv, PlaceInv, Passing, Tails, Patient
  <2>3. PlaceInv' /\ PinInv'
    BY <1>1, <2>1, <2>2, SameKeeps DEF PlaceInv, PinInv, Asks, Answers, Tails, Same
  <2> QED
    BY <1>1, <1>3, <1>4, <2>3, SameKeeps DEF CycleInv
<1>6. CASE ClearPio("pio", "off")
  <2>1. isr = "pio" /\ isr' = "off" /\ pio' = FALSE /\ aic' = aic
    BY <1>6 DEF ClearPio
  <2>2. Gone /\ ~aic
    BY <2>1 DEF CycleInv, PlaceInv
  <2>3. PlaceInv'
    BY <1>1, <2>1, <2>2, SameKeeps DEF PlaceInv, Asks, Answers, Tails
  <2>4. ~CPU_INT'
    BY <1>1, <2>2, SameKeeps DEF CPU_INT, Gone
  <2>5. PinInv'
    BY <1>1, <2>1, <2>2, <2>4, SameKeeps DEF PinInv, Gone
  <2> QED
    BY <1>1, <1>3, <1>4, <2>3, <2>5, SameKeeps DEF CycleInv
<1> QED
  BY <1>5, <1>6 DEF IsrDone

-----------------------------------------------------------------------------
(* A clock without an access.                                              *)
LEMMA StepTick ==
  ASSUME Patient, CycleInv, Tick PROVE CycleInv'
<1> DEFINE op == NoOp
<1>1. Plain(op) /\ ~Wrote(op, "CPU_RELEASE") /\ ~Wrote(op, "DATA") /\ ~Wrote(op, "INT_RESET")
  BY DEF Plain, NoOp, Wrote
<1>2. Clocked(op)
  BY <1>1 DEF Tick, Clocked, Driven, hostVars
<1>3. Clocked(NoOp)
  BY <1>2
<1> HIDE DEF op
<1>4. /\ isr' = isr /\ main' = main /\ got' = got /\ sigs' = sigs /\ addr_lo' = addr_lo
      /\ regs' = regs /\ served' = served /\ value' = value /\ Pin
      /\ lag' = IF lag < ClocksPerAccess THEN lag + 1 ELSE lag
  BY DEF Tick, hostVars, isrVars, history
<1>5. phase' = phase /\ cycle' = cycle /\ mem_ssyn' = mem_ssyn /\ ours' = ours /\ Asking' = Asking
  BY <1>2, OursStays
<1>6. SlaveInv' /\ HostInv'
  BY <1>1, <1>2, <1>4, ClockKeeps DEF CycleInv, TypeInv, CycleTypeOK
<1>7. TypeInv'
  <2>1. addr_out' \in Int /\ bus_data_hold' \in Word
    BY <1>1, <1>2, ClockTypes DEF CycleInv
  <2>2. {pio, aic}' \subseteq BOOLEAN
    BY <1>4 DEF Pin, pinVars, CycleInv, TypeInv, CycleTypeOK
  <2>3. (cycle \in Cycles \cup {Quiet})'
    BY <1>5 DEF CycleInv, TypeInv, CycleTypeOK, Cycles, Quiet
  <2>4. lag' \in 0 .. ClocksPerAccess
    BY <1>4, CycleAssumption DEF CycleInv, TypeInv, CycleTypeOK
  <2> QED
    BY <1>4, <1>5, <2>1, <2>2, <2>3, <2>4 DEF CycleInv, TypeInv, CycleTypeOK
<1>8. Waiting => Waiting' /\ Latched' /\ cpu_int_internal' = TRUE
  BY <1>1, <1>2, WaitingStays DEF CycleInv
<1>9. Passing => (Passing \/ Gone)' /\ ~Waiting' /\ ~(Asking /\ ustate_s = {})'
  BY <1>3, <1>4, PassingGoesOn DEF CycleInv
<1>10. Gone /\ ~(Asking /\ ustate_s = {}) => Gone' /\ ~Waiting' /\ ~(Asking /\ ustate_s = {})'
  BY <1>1, <1>2, GoneStays DEF CycleInv
<1>11. Gone => Gone' \/ (Waiting' /\ cpu_int_internal' = FALSE /\ ~served' /\ ustate_s = {})
  BY <1>1, <1>2, <1>4, GoneOrAsked DEF CycleInv
<1>12. PlaceInv'
  <2>1. isr' # "off" => main' = "run"
    BY <1>4 DEF CycleInv, PlaceInv
  <2>2. CASE isr \in Asks \cup Answers
    BY <1>4, <1>8, <2>1, <2>2 DEF CycleInv, PlaceInv, Asks, Answers, Tails, Waiting
  <2>3. CASE isr \in Tails
    BY <1>4, <1>9, <1>10, <2>1, <2>3 DEF CycleInv, PlaceInv, Asks, Answers, Tails
  <2>4. CASE isr = "pio"
    <3>1. Gone /\ ~(Asking /\ ustate_s = {}) /\ ~aic
      BY <2>4 DEF CycleInv, PlaceInv
    <3>2. CPU_INT' = CPU_INT
      BY <1>10, <3>1 DEF CPU_INT, Gone
    <3>3. ~aic'
      BY <1>4, <3>1, <3>2 DEF Pin, pinVars
    <3> QED
      BY <1>4, <1>10, <2>1, <2>4, <3>1, <3>3 DEF PlaceInv, Asks, Answers, Tails
  <2>5. CASE isr \in {"off", "again"}
    <3>1. Gone \/ (Waiting /\ ~served)
      BY <2>5 DEF CycleInv, PlaceInv
    <3>2. Gone' \/ (Waiting' /\ ~served')
      BY <1>4, <1>8, <1>11, <3>1
    <3> QED
      BY <1>4, <2>1, <2>5, <3>2 DEF PlaceInv, Asks, Answers, Tails
  <2> QED
    BY <2>2, <2>3, <2>4, <2>5 DEF CycleInv, TypeInv, CycleTypeOK, Asks, Answers, Tails
<1>13. PinInv'
  <2> SUFFICES ASSUME isr = "off" PROVE PinInv'
    BY <1>4 DEF PinInv
  <2>1. /\ pio <=> aic
        /\ CPU_INT => aic
        /\ aic => cpu_int_internal
        /\ cpu_int_internal => Waiting /\ Latched
        /\ Gone \/ (Waiting /\ ~served)
    BY DEF CycleInv, PinInv, PlaceInv
  <2>2. {pio, aic, cpu_int_internal} \subseteq BOOLEAN
    BY DEF CycleInv, TypeInv, CycleTypeOK, SlaveInv
  <2>3. cpu_int_internal' => Waiting' /\ Latched'
    BY <1>8, <1>11, <2>1 DEF Gone
  <2>4. cpu_int_internal => cpu_int_internal'
    BY <1>8, <2>1
  <2>5. CASE CPU_INT' # CPU_INT
    <3>1. pio' /\ aic'
      BY <1>4, <2>1, <2>2, <2>5 DEF Pin
    <3>2. cpu_int_internal'
      BY <1>4, <2>1, <2>2, <2>4, <2>5 DEF CPU_INT
    <3> QED
      BY <2>3, <3>1, <3>2 DEF PinInv
  <2>6. CASE CPU_INT' = CPU_INT
    <3>1. pio' = pio /\ aic' = aic
      BY <1>4, <2>6 DEF Pin, pinVars
    <3> QED
      BY <2>1, <2>3, <2>4, <2>6, <3>1 DEF PinInv
  <2> QED
    BY <2>5, <2>6
<1>14. HalfInv'
  <2>1. CASE isr \notin {"cycled", "again"}
    BY <1>4, <1>5, <2>1 DEF CycleInv, HalfInv
  <2>2. CASE isr \in {"cycled", "again"} /\ cycle.kind = "DATIP"
    <3>1. ours /\ phase \in {"msyn", "drop"} /\ ~(Asking /\ ustate_s = {}) /\ ~Waiting
      BY <2>2 DEF CycleInv, HalfInv
    <3>2. Passing \/ Gone
      BY <2>2, <3>1 DEF CycleInv, PlaceInv, Tails
    <3>3. ~Waiting' /\ ~(Asking /\ ustate_s = {})'
      BY <1>9, <1>10, <3>1, <3>2
    <3> QED
      BY <1>4, <1>5, <2>2, <3>1, <3>3 DEF HalfInv
  <2>3. CASE isr \in {"cycled", "again"} /\ cycle.kind # "DATIP"
    <3>1. ours /\ cycle.kind = "DATO" /\ phase \in {"addr", "msyn"} /\ ~served
          /\ (ustate_s = {} \/ Waiting)
      BY <2>3 DEF CycleInv, HalfInv
    <3>2. ustate_s' = {} \/ Waiting'
      <4>1. CASE Waiting
        BY <1>8, <4>1
      <4>2. CASE ustate_s = {}
        <5>1. ustate_s' = {} \/ ustate_s' = {1}
          BY <1>2, <4>2, ClockSlave DEF CycleInv
        <5>2. Gone
          BY <2>3, <3>1, <4>2 DEF CycleInv, PlaceInv, Tails, Passing, Waiting
        <5> QED
          BY <1>11, <5>1, <5>2 DEF Gone
      <4> QED
        BY <3>1, <4>1, <4>2
    <3> QED
      BY <1>4, <1>5, <2>3, <3>1, <3>2 DEF HalfInv
  <2> QED
    BY <2>1, <2>2, <2>3
<1>15. LocalsInv'
  BY <1>4, <1>5 DEF CycleInv, LocalsInv
<1>16. ValueInv'
  <2>1. cycle.kind # "DATO" => bus_data_hold' = bus_data_hold
    BY <1>1, <1>2, ClockWords DEF CycleInv
  <2> QED
    BY <1>4, <1>5, <2>1 DEF CycleInv, ValueInv
<1> QED
  BY <1>6, <1>7, <1>12, <1>13, <1>14, <1>15, <1>16 DEF CycleInv

-----------------------------------------------------------------------------
(* The main loop.                                                          *)
LEMMA StepMain ==
  ASSUME CycleInv, MainMasks \/ MainGoesOn PROVE CycleInv'
<1>1. /\ UNCHANGED <<cpldVars, hostVars, isrVars, lag, history>> /\ isr = "off"
      /\ main' \in {"run", "di", "cf"} /\ (UNCHANGED pinVars \/ Pin)
      /\ (main # "cf" /\ main' # "cf") \/ Pin
  BY DEF MainMasks, MainGoesOn
<1> USE <1>1 DEF cpldVars, hostVars, isrVars, history
<1>2. ours' = ours /\ Asking' = Asking /\ Waiting' = Waiting /\ Gone' = Gone /\ Latched' = Latched
  BY DEF ours, Asking, Waiting, Gone, Latched
<1>3. SlaveInv' /\ HostInv'
  BY <1>2 DEF CycleInv, SlaveInv, HostInv, Quiet
<1>4. TypeInv'
  <2>1. {pio, aic}' \subseteq BOOLEAN
    BY DEF Pin, pinVars, CycleInv, TypeInv, CycleTypeOK
  <2>2. (cycle \in Cycles \cup {Quiet})'
    BY DEF CycleInv, TypeInv, CycleTypeOK, Cycles, Quiet
  <2> QED
    BY <2>1, <2>2 DEF CycleInv, TypeInv, CycleTypeOK
<1>5. PlaceInv'
  BY <1>2 DEF CycleInv, PlaceInv, Asks, Answers, Tails
<1>6. HalfInv' /\ LocalsInv' /\ ValueInv'
  BY DEF CycleInv, HalfInv, LocalsInv, ValueInv
<1>7. PinInv'
  <2>1. /\ pio <=> aic
        /\ CPU_INT => aic
        /\ aic => cpu_int_internal
        /\ cpu_int_internal => Waiting /\ Latched
    BY DEF CycleInv, PinInv
  <2>2. {pio, aic, cpu_int_internal} \subseteq BOOLEAN
    BY DEF CycleInv, TypeInv, CycleTypeOK, SlaveInv
  <2>3. CASE CPU_INT' = CPU_INT
    <3>1. pio' = pio /\ aic' = aic
      BY <2>3 DEF Pin, pinVars
    <3> QED
      BY <1>2, <2>1, <2>3, <3>1 DEF PinInv
  <2>4. CASE CPU_INT' # CPU_INT
    <3>1. Pin
      BY <2>4 DEF CPU_INT
    <3>2. pio' /\ aic'
      BY <2>1, <2>2, <2>4, <3>1 DEF Pin
    <3>3. cpu_int_internal
      BY <2>1, <2>2, <2>4 DEF CPU_INT
    <3> QED
      BY <1>2, <2>1, <3>2, <3>3 DEF PinInv
  <2> QED
    BY <2>3, <2>4
<1> QED
  BY <1>3, <1>4, <1>5, <1>6, <1>7 DEF CycleInv

-----------------------------------------------------------------------------
(* The master.                                                             *)
LEMMA NotWaiting ==
  ASSUME CycleInv, ustate_s \in {{}, {3}} \/ phase # "msyn"
  PROVE  isr \in Tails \cup {"pio", "off", "again"} /\ Gone
<1>1. ~Waiting /\ ~Passing
  BY DEF Waiting, Passing, Asking
<1>2. isr \notin Asks \cup Answers
  BY <1>1 DEF CycleInv, PlaceInv
<1>3. isr \in Tails \cup {"pio", "off", "again"}
  BY <1>2 DEF CycleInv, TypeInv, CycleTypeOK, Asks, Answers, Tails
<1> QED
  BY <1>1, <1>3 DEF CycleInv, PlaceInv

\* A step of the master when the slave machine does not wait for the ARM.
LEMMA HostKeeps ==
  ASSUME CycleInv, ustate_s \in {{}, {3}} \/ phase # "msyn", HostOnly,
         Asking' /\ ustate_s = {} => isr \in {"off", "again"}
  PROVE  /\ PlaceInv' /\ PinInv' /\ addr_out' \in Int /\ bus_data_hold' \in Word /\ Gone
         /\ isr' = isr /\ isr \in Tails \cup {"pio", "off", "again"}
<1> USE DEF HostOnly, cpldVars, isrVars, pinVars
<1>1. isr \in Tails \cup {"pio", "off", "again"} /\ Gone
  BY NotWaiting
<1>2. Gone'
  BY <1>1 DEF Gone
<1>3. isr # "off" => main = "run"
  BY DEF CycleInv, PlaceInv
<1>4. isr = "pio" => ~aic
  BY DEF CycleInv, PlaceInv
<1>5. PlaceInv'
  BY <1>1, <1>2, <1>3, <1>4 DEF PlaceInv, Asks, Answers, Tails
<1>6. PinInv'
  BY <1>1 DEF CycleInv, PinInv, Gone, CPU_INT
<1> QED
  BY <1>1, <1>5, <1>6 DEF CycleInv, TypeInv

LEMMA HostTypes ==
  ASSUME CycleInv, HostOnly, phase' \in {"idle", "addr", "msyn", "drop"},
         cycle' \in Cycles \cup {Quiet}, mem_ssyn' \in BOOLEAN, got' \in Word \cup {Nothing},
         value' \in Word \cup {Nothing}, served' \in BOOLEAN
  PROVE  TypeInv'
<1>1. (cycle \in Cycles \cup {Quiet})'
  BY DEF Cycles, Quiet
<1> QED
  BY <1>1 DEF CycleInv, TypeInv, CycleTypeOK, HostOnly, cpldVars, isrVars, pinVars

LEMMA StepAsks ==
  ASSUME CycleInv, HostAsks PROVE CycleInv'
<1>1. /\ phase = "idle" /\ phase' = "addr" /\ cycle' \in Cycles /\ msyn = FALSE /\ HostOnly
      /\ served' = FALSE /\ value' = Nothing /\ mem_ssyn' = mem_ssyn /\ got' = got
  BY DEF HostAsks, Deskew, CycleInv, SlaveInv
<1>2. ~ours /\ ustate_s = {} /\ ~mem_ssyn /\ ~Asking'
  BY <1>1 DEF ours, CycleInv, SlaveInv, HostInv, Asking
<1>3. TypeInv'
  BY <1>1, HostTypes DEF CycleInv, TypeInv, CycleTypeOK
<1>4. PlaceInv' /\ PinInv' /\ Gone /\ isr' = isr /\ isr \in Tails \cup {"pio", "off", "again"}
  BY <1>1, <1>2, HostKeeps
<1>5. SlaveInv'
  BY <1>1, <1>2, <1>4 DEF CycleInv, SlaveInv, HostOnly, cpldVars, Gone
<1>6. HostInv'
  <2>1. cycle' # Quiet
    BY <1>1 DEF Cycles, Quiet
  <2> QED
    BY <1>1, <1>2, <2>1 DEF HostInv, Quiet
<1>7. isr \notin {"cycled", "again"}
  BY <1>2 DEF CycleInv, HalfInv
<1>8. HalfInv' /\ LocalsInv' /\ ValueInv'
  BY <1>1, <1>4, <1>7 DEF HalfInv, LocalsInv, ValueInv, Tails
<1> QED
  BY <1>3, <1>4, <1>5, <1>6, <1>8 DEF CycleInv

LEMMA StepMsyn ==
  ASSUME Patient, CycleInv, HostMsyn PROVE CycleInv'
<1>1. /\ phase = "addr" /\ phase' = "msyn" /\ HostOnly /\ (ours => isr \in {"off", "again"})
      /\ UNCHANGED <<cycle, mem_ssyn, got, served, value>> /\ msyn = FALSE
  BY DEF HostMsyn, Patient, history, Deskew, CycleInv, SlaveInv
<1>2. ours' = ours /\ ustate_s = {} /\ ~served
  BY <1>1 DEF ours, CycleInv, SlaveInv, HostInv
<1>3. TypeInv'
  BY <1>1, HostTypes DEF CycleInv, TypeInv, CycleTypeOK
<1>4. PlaceInv' /\ PinInv' /\ Gone /\ isr' = isr /\ isr \in Tails \cup {"pio", "off", "again"}
  BY <1>1, <1>2, HostKeeps DEF Asking
<1>5. SlaveInv'
  BY <1>1, <1>2, <1>4 DEF CycleInv, SlaveInv, HostOnly, cpldVars, Gone
<1>6. HostInv'
  BY <1>1, <1>2 DEF CycleInv, HostInv, Quiet
<1>7. HalfInv'
  BY <1>1, <1>2, <1>4 DEF CycleInv, HalfInv, Tails, HostOnly, cpldVars
<1>8. LocalsInv' /\ ValueInv'
  BY <1>1, <1>2, <1>4 DEF CycleInv, LocalsInv, ValueInv, Tails, HostOnly, isrVars
<1> QED
  BY <1>3, <1>4, <1>5, <1>6, <1>7, <1>8 DEF CycleInv

LEMMA StepMemory ==
  ASSUME CycleInv, MemoryAnswers PROVE CycleInv'
<1>1. /\ ~ours /\ mem_ssyn' = (phase = "msyn") /\ HostOnly
      /\ UNCHANGED <<phase, cycle, got, served, value>>
  BY DEF MemoryAnswers, history
<1>2. ~ours' /\ ustate_s = {}
  BY <1>1 DEF ours, CycleInv, SlaveInv
<1>3. TypeInv'
  BY <1>1, HostTypes DEF CycleInv, TypeInv, CycleTypeOK
<1>4. PlaceInv' /\ PinInv' /\ Gone /\ isr' = isr /\ isr \in Tails \cup {"pio", "off", "again"}
  BY <1>1, <1>2, HostKeeps DEF Asking
<1>5. SlaveInv'
  BY <1>1, <1>2, <1>4 DEF CycleInv, SlaveInv, HostOnly, cpldVars, Gone
<1>6. HostInv'
  BY <1>1, <1>2 DEF CycleInv, HostInv, Quiet, Asking
<1>7. HalfInv' /\ LocalsInv' /\ ValueInv'
  BY <1>1, <1>2, <1>4 DEF CycleInv, HalfInv, LocalsInv, ValueInv, Tails, HostOnly, isrVars, cpldVars
<1> QED
  BY <1>3, <1>4, <1>5, <1>6, <1>7 DEF CycleInv

LEMMA StepTakes ==
  ASSUME CycleInv, HostTakes PROVE CycleInv'
<1>1. /\ phase = "msyn" /\ phase' = "drop" /\ HostOnly /\ SSYN_IN(bus)
      /\ UNCHANGED <<cycle, mem_ssyn, served, value>>
  BY DEF HostTakes, history
<1>2. ours' = ours /\ ustate_s \in {{}, {3}} /\ (ours => ustate_s = {3})
  <2>1. ours => ustate_s = {3}
    BY <1>1 DEF CycleInv, SlaveInv, HostInv, SSYN_IN, ssyn_assert, SS, bus
  <2> QED
    BY <1>1, <2>1 DEF ours, CycleInv, SlaveInv
<1>3. got' \in Word \cup {Nothing}
  <2>1. BUS_DATA(bus) \in Word
    BY CycleTypes DEF BUS_DATA, bus, CycleInv, TypeInv
  <2> QED
    BY <2>1 DEF HostTakes, CycleInv, TypeInv, CycleTypeOK
<1>4. TypeInv'
  BY <1>1, <1>3, HostTypes DEF CycleInv, TypeInv, CycleTypeOK
<1>5. PlaceInv' /\ PinInv' /\ Gone /\ isr' = isr /\ isr \in Tails \cup {"pio", "off", "again"}
  BY <1>1, <1>2, HostKeeps DEF Asking
<1>6. SlaveInv'
  BY <1>1, <1>2, <1>5 DEF CycleInv, SlaveInv, HostOnly, cpldVars, Gone
<1>7. HostInv'
  BY <1>1, <1>2 DEF CycleInv, HostInv, Quiet, Asking
<1>8. HalfInv'
  BY <1>1, <1>2, <1>5 DEF CycleInv, HalfInv, Tails, HostOnly, cpldVars, Waiting, Asking
<1>9. LocalsInv' /\ ValueInv'
  BY <1>1, <1>2, <1>5 DEF CycleInv, LocalsInv, ValueInv, Tails, HostOnly, isrVars, cpldVars
<1> QED
  BY <1>4, <1>5, <1>6, <1>7, <1>8, <1>9 DEF CycleInv

LEMMA StepEnds ==
  ASSUME CycleInv, HostEnds PROVE CycleInv'
<1>1. /\ phase = "drop" /\ HostOnly /\ ~SSYN_IN(bus) /\ served' = FALSE /\ value' = Nothing
      /\ mem_ssyn' = mem_ssyn /\ got' = got
  BY DEF HostEnds
<1>2. ustate_s = {} /\ ~mem_ssyn /\ (ours => ~msyn)
  BY <1>1 DEF CycleInv, SlaveInv, SSYN_IN, ssyn_assert, SS, bus, TypeInv, CycleTypeOK
<1>3. cycle \in Cycles
  BY <1>1 DEF CycleInv, HostInv, TypeInv, CycleTypeOK
<1>4. CASE cycle.kind = "DATIP"
  <2>1. PICK v \in Word : cycle' = [cycle EXCEPT !.kind = "DATO", !.data = v]
    BY <1>1, <1>4 DEF HostEnds
  <2>2. phase' = "addr"
    BY <1>1, <1>4 DEF HostEnds
  <2>3. cycle' \in Cycles /\ cycle'.addr = cycle.addr /\ cycle'.kind = "DATO"
    BY <1>3, <2>1 DEF Cycles
  <2>4. ours' = ours /\ ~Asking'
    BY <1>1, <2>2, <2>3 DEF ours, Asking
  <2>5. TypeInv'
    BY <1>1, <2>2, <2>3, HostTypes DEF CycleInv, TypeInv, CycleTypeOK
  <2>6. PlaceInv' /\ PinInv' /\ Gone /\ isr' = isr /\ isr \in Tails \cup {"pio", "off", "again"}
    BY <1>1, <2>4, HostKeeps
  <2>7. SlaveInv'
    BY <1>1, <1>2, <2>2, <2>4, <2>6 DEF CycleInv, SlaveInv, HostOnly, cpldVars, Gone
  <2>8. cycle' # Quiet
    BY <2>3 DEF Quiet
  <2>9. HostInv'
    BY <1>1, <1>2, <2>2, <2>4, <2>8 DEF HostInv, Quiet
  <2>10. HalfInv'
    BY <1>1, <1>2, <2>2, <2>3, <2>4, <2>6 DEF CycleInv, HalfInv, Tails, HostOnly, cpldVars
  <2>11. LocalsInv' /\ ValueInv'
    BY <1>1, <2>3, <2>6 DEF CycleInv, LocalsInv, ValueInv, Tails, HostOnly, isrVars
  <2> QED
    BY <2>5, <2>6, <2>7, <2>9, <2>10, <2>11 DEF CycleInv
<1>5. CASE cycle.kind # "DATIP"
  <2>1. phase' = "idle" /\ cycle' = Quiet
    BY <1>5 DEF HostEnds
  <2>2. ~ours' /\ ~Asking'
    BY <2>1 DEF ours, Asking
  <2>3. TypeInv'
    BY <1>1, <2>1, HostTypes DEF CycleInv, TypeInv, CycleTypeOK
  <2>4. PlaceInv' /\ PinInv' /\ Gone /\ isr' = isr /\ isr \in Tails \cup {"pio", "off", "again"}
    BY <1>1, <2>2, HostKeeps
  <2>5. SlaveInv'
    BY <1>1, <1>2, <2>1, <2>2, <2>4 DEF CycleInv, SlaveInv, HostOnly, cpldVars, Gone
  <2>6. HostInv'
    BY <1>1, <1>2, <2>1, <2>2 DEF HostInv, Quiet
  <2>7. isr \notin {"cycled", "again"}
    BY <1>1, <1>5 DEF CycleInv, HalfInv
  <2>8. HalfInv' /\ LocalsInv' /\ ValueInv'
    BY <1>1, <2>4, <2>7 DEF HalfInv, LocalsInv, ValueInv, Tails
  <2> QED
    BY <2>3, <2>4, <2>5, <2>6, <2>8 DEF CycleInv
<1> QED
  BY <1>4, <1>5

-----------------------------------------------------------------------------
LEMMA CycleInit ==
  Init => CycleInv
<1> SUFFICES ASSUME Init PROVE CycleInv
  OBVIOUS
<1> USE DEF Init, CpldStart
<1>1. phase = "idle" /\ ~ours /\ ~Asking
  BY DEF ours, Asking
<1>2. TypeInv
  <2>1. 0 \in 0 .. LoSpace - 1 /\ lag \in 0 .. ClocksPerAccess
    BY AddrAssumption, CycleAssumption
  <2>2. sigs \in [c0 : BOOLEAN, c1 : BOOLEAN]
    OBVIOUS
  <2>3. cycle \in Cycles \cup {Quiet}
    OBVIOUS
  <2>4. bus_data_hold \in Word /\ addr_out \in Int
    BY ZeroAssumption
  <2> QED
    BY <2>1, <2>2, <2>3, <2>4 DEF TypeInv, CycleTypeOK
<1>3. SlaveInv /\ HostInv
  BY <1>1 DEF SlaveInv, HostInv, Quiet
<1>4. PlaceInv /\ PinInv
  BY <1>1 DEF PlaceInv, PinInv, Gone, CPU_INT, Asks, Answers, Tails
<1>5. HalfInv /\ LocalsInv /\ ValueInv
  BY DEF HalfInv, LocalsInv, ValueInv
<1> QED
  BY <1>2, <1>3, <1>4, <1>5 DEF CycleInv

LEMMA CycleStutters ==
  CycleInv /\ UNCHANGED cycleVars => CycleInv'
<1> SUFFICES ASSUME CycleInv, UNCHANGED cycleVars PROVE CycleInv'
  OBVIOUS
<1>1. Same /\ isr' = isr /\ pio' = pio /\ aic' = aic
  BY DEF cycleVars, Same, isrVars, pinVars
<1>2. TypeInv'
  BY <1>1, SameTypes DEF Isrs, Asks, Answers, Tails, CycleInv, TypeInv, CycleTypeOK
<1>3. Passing' <=> Passing
  BY <1>1, SameKeeps DEF Passing, Same, cpldVars
<1>4. main' = main /\ lag' = lag /\ sigs' = sigs /\ addr_lo' = addr_lo
  BY <1>1 DEF Same
<1>5. PlaceInv' /\ PinInv'
  BY <1>1, <1>3, <1>4, SameKeeps DEF CycleInv, PlaceInv, PinInv
<1>6. HalfInv' /\ LocalsInv'
  BY <1>1, <1>4, SameKeeps DEF CycleInv, HalfInv, LocalsInv
<1> QED
  BY <1>1, <1>2, <1>5, <1>6, SameKeeps DEF CycleInv

LEMMA CycleNext ==
  ASSUME Patient PROVE CycleInv /\ [Next]_cycleVars => CycleInv'
<1> SUFFICES ASSUME CycleInv, [Next]_cycleVars PROVE CycleInv'
  OBVIOUS
<1>1. CASE Tick
  BY <1>1, StepTick
<1>2. CASE Isr
  BY <1>2, StepEnter, StepAck, StepStatus, StepAddrLo, StepShortCs, StepShortRelease, StepLong,
     StepRead, StepHalf, StepWrite, StepRelease, StepDone DEF Isr
<1>3. CASE MainMasks \/ MainGoesOn
  BY <1>3, StepMain
<1>4. CASE HostAsks
  BY <1>4, StepAsks
<1>5. CASE HostGoesOn
  BY <1>5, StepMsyn, StepMemory, StepTakes, StepEnds DEF HostGoesOn
<1>6. CASE UNCHANGED cycleVars
  BY <1>6, CycleStutters
<1> QED
  BY <1>1, <1>2, <1>3, <1>4, <1>5, <1>6 DEF Next

\* CycleInv holds in every state.
LEMMA CycleAlways ==
  ASSUME Patient PROVE Spec => []CycleInv
<1>1. CycleInv /\ [Next]_cycleVars => CycleInv'
  BY CycleNext
<1> QED
  BY CycleInit, <1>1, PTL DEF Spec

\* The registers of the CPLD, the locals of cpld_isr and the answers keep
\* their types.
THEOREM CycleTypeCorrect ==
  ASSUME Patient PROVE Spec => []CycleTypeOK
<1>1. CycleInv => CycleTypeOK
  BY DEF CycleInv, TypeInv
<1> QED
  BY CycleAlways, <1>1, PTL

\* The board answers a cycle that is addressed to it, and only after cpld_isr
\* has served this very cycle.
THEOREM SsynAlwaysServed ==
  ASSUME Patient PROVE Spec => []SsynOnlyWhenServed
<1>1. CycleInv => SsynOnlyWhenServed
  BY DEF CycleInv, SlaveInv, HostInv, SsynOnlyWhenServed, ssyn_assert, SS
<1> QED
  BY CycleAlways, <1>1, PTL

\* When the slave machine waits for CPU_RELEASE and cpld_isr does not run, its
\* interrupt is latched: the acknowledgements in the CPLD, the PIO and the AIC
\* never swallow the edge of a later cycle.
THEOREM InterruptNeverLost ==
  ASSUME Patient PROVE Spec => []InterruptNotLost
<1>1. CycleInv => InterruptNotLost
  BY DEF CycleInv, PinInv, InterruptNotLost, CPU_INT
<1> QED
  BY CycleAlways, <1>1, PTL

-----------------------------------------------------------------------------
(* Each cycle is served once: the steps of HostAccess.                     *)
Unseen == UNCHANGED <<phase, cycle, served, value, regs, got>>
Slot   == {a % Decode : a \in {t \in Targets : t \div Window = Base \div Window}}

LEMMA UnseenStutters ==
  Unseen => UNCHANGED HA!accessVars
BY DEF Unseen, HA!accessVars, abstractPhase, ours

LEMMA OursIsSlot ==
  ASSUME CycleInv, ours
  PROVE  /\ cycle \in Cycles /\ cycle.addr % Decode \in Slot /\ cycle.kind \in {"DATI", "DATIP", "DATO"}
         /\ cycle.data \in Word
<1>1. cycle \in Cycles
  BY DEF ours, CycleInv, HostInv, TypeInv, CycleTypeOK
<1>2. cycle.addr \in Targets /\ cycle.kind \in {"DATI", "DATIP", "DATO"}
  BY <1>1 DEF Cycles
<1>3. cycle.data \in Word
  BY CycleTypes DEF CycleInv
<1> QED
  BY <1>1, <1>2, <1>3 DEF Slot, ours

\* While cpld_isr serves, the abstract cycle is asked, and the value and the
\* register are those of its slot.
LEMMA AskedHere ==
  ASSUME CycleInv, isr \in Asks
  PROVE  ours /\ phase = "msyn" /\ ~served /\ Latched
BY DEF CycleInv, PlaceInv, Waiting, Asking

LEMMA ReadServed ==
  ASSUME CycleInv, IsrShortCs \/ IsrRead
  PROVE  HA!ServeRead
<1>1. isr \in {"cs", "read"} /\ Driven /\ got' = got /\ regs' = regs /\ served' = TRUE
  BY DEF IsrShortCs, IsrRead, Access, hostVars, Driven
<1>2. ours /\ phase = "msyn" /\ ~served /\ ours' = ours /\ phase' = phase /\ cycle' = cycle
  BY <1>1, AskedHere DEF Asks, Driven, ours
<1>3. abstractPhase = "asked" /\ abstractPhase' = "served"
  BY <1>1, <1>2 DEF abstractPhase
<1>4. cycle.kind # "DATO" /\ cycle.addr \in Int
  BY <1>1, CycleTypes DEF CycleInv, LocalsInv
<1>5. value' \in IF cycle.addr % Decode \in Reg THEN {regs[cycle.addr % Decode]} ELSE Word
  <2>1. CASE IsrShortCs
    <3>1. cycle.addr % Window = CS /\ value' = regs[CS]
      BY <2>1 DEF IsrShortCs, Access, CycleInv, LocalsInv
    <3> QED
      BY <3>1, <1>4, LowOfAddress, CycleAssumption
  <2>2. CASE IsrRead
    <3>1. isr = "read"
      BY <2>2 DEF IsrRead, Access
    <3>2. register = cycle.addr % Decode
      BY <3>1, <1>4, LowOfAddress DEF CycleInv, LocalsInv, register
    <3> QED
      BY <2>2, <3>2 DEF IsrRead
  <2> QED
    BY <2>1, <2>2
<1> QED
  BY <1>1, <1>2, <1>3, <1>4, <1>5 DEF HA!ServeRead

LEMMA WriteServed ==
  ASSUME CycleInv, IsrWrite
  PROVE  HA!ServeWrite
<1>1. isr = "write" /\ Driven /\ got' = got /\ value' = value /\ served' = TRUE
  BY DEF IsrWrite, Access, hostVars, Driven
<1>2. ours /\ phase = "msyn" /\ ~served /\ Latched /\ ours' = ours /\ phase' = phase /\ cycle' = cycle
  BY <1>1, AskedHere DEF Asks, Driven, ours
<1>3. abstractPhase = "asked" /\ abstractPhase' = "served"
  BY <1>1, <1>2 DEF abstractPhase
<1>4. cycle.kind = "DATO" /\ cycle.addr \in Int /\ addr_lo = cycle.addr % LoSpace
  BY <1>1, CycleTypes DEF CycleInv, LocalsInv
<1>5. register = cycle.addr % Decode /\ bus_data_hold = cycle.data
  BY <1>2, <1>4, LowOfAddress DEF Latched, register
<1>6. regs' = [r \in Reg |-> IF r = cycle.addr % Decode THEN cycle.data ELSE regs[r]]
  BY <1>5 DEF IsrWrite
<1> QED
  BY <1>1, <1>2, <1>3, <1>4, <1>6 DEF HA!ServeWrite

LEMMA AsksSimulated ==
  ASSUME CycleInv, CycleInv', HostAsks
  PROVE  HA!Ask \/ UNCHANGED HA!accessVars
<1>1. /\ phase = "idle" /\ phase' = "addr" /\ served' = FALSE /\ value' = Nothing
      /\ got' = got /\ regs' = regs
  BY DEF HostAsks, HostOnly, isrVars
<1>2. abstractPhase = "idle"
  BY <1>1 DEF abstractPhase, ours
<1>3. CASE ours'
  <2>1. abstractPhase' = "asked"
    BY <1>1, <1>3 DEF abstractPhase
  <2>2. /\ cycle'.addr % Decode \in Slot /\ cycle'.kind \in {"DATI", "DATIP", "DATO"}
        /\ cycle'.data \in Word
    <3>1. cycle' \in Cycles
      BY DEF HostAsks
    <3>2. cycle'.addr \in Targets /\ cycle'.kind \in {"DATI", "DATIP", "DATO"} /\ cycle'.data \in Word
      BY <3>1, ZeroAssumption DEF Cycles
    <3> QED
      BY <1>3, <3>2 DEF Slot, ours
  <2> QED
    BY <1>1, <1>2, <2>1, <2>2 DEF HA!Ask, HA!Requests, Slot
<1>4. CASE ~ours'
  <2>1. abstractPhase' = "idle"
    BY <1>4 DEF abstractPhase
  <2> QED
    BY <1>1, <1>2, <2>1 DEF HA!accessVars
<1> QED
  BY <1>3, <1>4

LEMMA TakesSimulated ==
  ASSUME CycleInv, HostTakes
  PROVE  HA!Answer \/ UNCHANGED HA!accessVars
<1>1. /\ phase = "msyn" /\ phase' = "drop" /\ SSYN_IN(bus) /\ regs' = regs
      /\ cycle' = cycle /\ served' = served /\ value' = value /\ ours' = ours
  BY DEF HostTakes, HostOnly, isrVars, history, ours
<1>2. abstractPhase' = "idle"
  BY <1>1 DEF abstractPhase
<1>3. CASE ours
  <2>1. ustate_s = {3} /\ served
    BY <1>1, <1>3 DEF CycleInv, SlaveInv, HostInv, SSYN_IN, ssyn_assert, SS, bus
  <2>2. abstractPhase = "served"
    BY <1>1, <1>3, <2>1 DEF abstractPhase
  <2>3. got' = value
    <3>1. CASE cycle.kind = "DATO"
      BY <1>3, <3>1 DEF HostTakes, CycleInv, ValueInv
    <3>2. CASE cycle.kind # "DATO"
      <4>1. BUS_DATA(bus) = bus_data_hold
        BY <2>1, <3>2 DEF BUS_DATA, BUS_DATA_DIR, data_assert, C1_IN, c1_assert, MSin, SS, bus,
           CycleInv, SlaveInv
      <4> QED
        BY <1>3, <2>1, <3>2, <4>1 DEF HostTakes, CycleInv, ValueInv
    <3> QED
      BY <3>1, <3>2
  <2> QED
    BY <1>1, <1>2, <2>2, <2>3 DEF HA!Answer, HA!Idle
<1>4. CASE ~ours
  <2>1. abstractPhase = "idle" /\ got' = got
    BY <1>4 DEF abstractPhase, HostTakes
  <2> QED
    BY <1>1, <1>2, <2>1 DEF HA!accessVars
<1> QED
  BY <1>3, <1>4

LEMMA EndsSimulated ==
  ASSUME CycleInv, CycleInv', HostEnds
  PROVE  HA!Ask \/ UNCHANGED HA!accessVars
<1>1. /\ phase = "drop" /\ regs' = regs /\ got' = got /\ served' = FALSE /\ value' = Nothing
  BY DEF HostEnds, HostOnly, isrVars
<1>2. abstractPhase = "idle"
  BY <1>1 DEF abstractPhase
<1>3. CASE ours /\ cycle.kind = "DATIP"
  <2>1. PICK v \in Word : cycle' = [cycle EXCEPT !.kind = "DATO", !.data = v]
    BY <1>1, <1>3 DEF HostEnds
  <2>2. phase' = "addr"
    BY <1>1, <1>3 DEF HostEnds
  <2>3. cycle'.addr = cycle.addr /\ cycle'.kind = "DATO" /\ cycle'.data = v /\ cycle.addr % Decode \in Slot
    BY <1>3, <2>1, OursIsSlot DEF Cycles
  <2>4. abstractPhase' = "asked"
    BY <1>1, <1>3, <2>2, <2>3 DEF abstractPhase, ours
  <2> QED
    BY <1>1, <1>2, <2>3, <2>4 DEF HA!Ask, HA!Requests, Slot
<1>4. CASE ~(ours /\ cycle.kind = "DATIP")
  <2>1. ~ours'
    <3>1. CASE cycle.kind = "DATIP"
      <4>1. PICK v \in Word : cycle' = [cycle EXCEPT !.kind = "DATO", !.data = v]
        BY <1>1, <3>1 DEF HostEnds
      <4>2. cycle \in Cycles
        BY <1>1 DEF CycleInv, HostInv, TypeInv, CycleTypeOK
      <4>3. cycle'.addr = cycle.addr
        BY <4>1, <4>2 DEF Cycles
      <4> QED
        BY <1>1, <1>4, <3>1, <4>3 DEF ours
    <3>2. CASE cycle.kind # "DATIP"
      BY <3>2 DEF HostEnds, ours
    <3> QED
      BY <3>1, <3>2
  <2>2. abstractPhase' = "idle"
    BY <2>1 DEF abstractPhase
  <2> QED
    BY <1>1, <1>2, <2>2 DEF HA!accessVars
<1> QED
  BY <1>3, <1>4

LEMMA HostUnseen ==
  ASSUME CycleInv, HostMsyn \/ MemoryAnswers
  PROVE  UNCHANGED HA!accessVars
<1>1. CASE MemoryAnswers
  BY <1>1, UnseenStutters DEF MemoryAnswers, HostOnly, isrVars, history, Unseen
<1>2. CASE HostMsyn
  <2>1. /\ phase = "addr" /\ phase' = "msyn"
        /\ UNCHANGED <<cycle, served, value, regs, got>>
    BY <1>2 DEF HostMsyn, HostOnly, isrVars, history
  <2>2. abstractPhase' = abstractPhase
    BY <2>1 DEF abstractPhase, ours
  <2> QED
    BY <2>1, <2>2 DEF HA!accessVars
<1> QED
  BY <1>1, <1>2

LEMMA IsrUnseen ==
  \/ IsrEnter \/ IsrAck \/ IsrStatus \/ IsrAddrLo \/ IsrShortRelease \/ IsrLong
  \/ IsrHalf \/ IsrRelease \/ IsrDone
  => Unseen
<1> USE DEF Unseen, hostVars, history, Access, ClearAic, ClearPio
<1>1. IsrEnter \/ IsrAck => Unseen
  BY DEF IsrEnter, IsrAck
<1>2. IsrStatus \/ IsrAddrLo => Unseen
  BY DEF IsrStatus, IsrAddrLo
<1>3. IsrShortRelease \/ IsrLong => Unseen
  BY DEF IsrShortRelease, IsrLong
<1>4. IsrHalf \/ IsrRelease \/ IsrDone => Unseen
  BY DEF IsrHalf, IsrRelease, IsrDone
<1> QED
  BY <1>1, <1>2, <1>3, <1>4

\* A cycle addressed to the board behaves as a HostAccess, step by step: it is
\* served once, between its MSYN and its SSYN, a write stores its data in the
\* register it names and in no other, and a read returns the register of that
\* instant.  (That it is served at all is left to the model checker.)
THEOREM AccessSimulated ==
  ASSUME Patient
  PROVE  Spec => HA!Init /\ [][HA!Next]_(HA!accessVars)
<1>1. Init => HA!Init
  <2> SUFFICES ASSUME Init PROVE HA!Init
    OBVIOUS
  <2>1. abstractPhase = "idle"
    BY DEF Init, abstractPhase, ours
  <2> QED
    BY <2>1 DEF Init, HA!Init, HA!Idle
<1>2. CycleInv /\ CycleInv' /\ [Next]_cycleVars => [HA!Next]_(HA!accessVars)
  <2> SUFFICES ASSUME CycleInv, CycleInv', [Next]_cycleVars PROVE [HA!Next]_(HA!accessVars)
    OBVIOUS
  <2>1. CASE Tick \/ MainMasks \/ MainGoesOn \/ UNCHANGED cycleVars
    <3>1. Unseen
      BY <2>1 DEF Tick, MainMasks, MainGoesOn, cycleVars, hostVars, isrVars, history, Unseen
    <3> QED
      BY <3>1, UnseenStutters
  <2>2. CASE Isr
    BY <2>2, IsrUnseen, UnseenStutters, ReadServed, WriteServed DEF Isr, HA!Next
  <2>3. CASE HostAsks
    BY <2>3, AsksSimulated DEF HA!Next
  <2>4. CASE HostGoesOn
    BY <2>4, HostUnseen, TakesSimulated, EndsSimulated DEF HostGoesOn, HA!Next
  <2> QED
    BY <2>1, <2>2, <2>3, <2>4 DEF Next
<1> QED
  BY <1>1, <1>2, CycleAlways, PTL DEF Spec
=============================================================================
