---------------------------- MODULE MasterProofs ----------------------------
(***************************************************************************)
(* Proofs about the board as a master of the UNIBUS (BusMaster), for any   *)
(* words, buffers and memory, any number of clocks between two accesses of *)
(* the ARM, and any order in which the arbiter, the processor, memory and  *)
(* the other board take their steps.                                       *)
(***************************************************************************)
EXTENDS BusMaster, TLAPS, SequenceTheorems

\* The other board and the arbiter's answer to SACK are faster than the ARM,
\* and the CPLD has at least one clock between two of its accesses.
Timely == "device" \in Prompt /\ "slave" \in Prompt /\ ClocksPerAccess # 0

\* The buffer, and the word after it that the last sample asks for, are in
\* memory, which has nothing in the board's window; WR_ADDR_LO is the lower
\* part of an address.
Placed ==
  /\ \A i \in 0 .. Words : Start + 2 * i \in Memory
  /\ Base \notin Memory /\ Start \div Window # Base \div Window
  /\ AddrSpace % LoSpace = 0

-----------------------------------------------------------------------------
(* The accesses of the ARM, and what it has written at each.               *)
DmaOn    == {"put", "prime", "idle", "sample", "idle2", "pass_on", "mode_off"}
DmaBus   == {"hi", "lo", "mode", "sack_off", "bbsy_off"} \cup DmaOn
DmaAsks  == {"npg", "sack", "npr_off"}
DmaWaits == {"npg_off", "bbsy", "own"}
DmaSteps == {"npg_high", "pass_off", "npr", "npg_low"} \cup DmaAsks \cup DmaWaits \cup DmaBus
NpgCut   == ({"npr"} \cup DmaAsks \cup DmaWaits \cup DmaBus) \ {"mode_off", "sack_off", "bbsy_off"}
DmaSack  == ({"npr_off"} \cup DmaWaits \cup DmaBus) \ {"bbsy_off"}

VectorOut == {"data_dir", "issyn", "intr", "isack_off", "ack", "drop"}
IntrBus   == {"vector"} \cup VectorOut
IntrAsks  == {"bg", "isack", "br_off"}
IntrWaits == {"bg_off", "ibbsy", "iown"}
IntrSteps == {"bg_high", "bg_pass_off", "br", "ipass_on", "bg_low"}
               \cup IntrAsks \cup IntrWaits \cup IntrBus
Bg5Cut    == {"br", "ipass_on"} \cup IntrAsks \cup IntrWaits \cup IntrBus
IntrSack  == ({"br_off"} \cup IntrWaits \cup IntrBus) \ {"ack", "drop"}

Idle  == {"idle", "idle2"}             \* a master cycle may be running
Owner == DmaBus \cup IntrBus           \* BBSY is asserted
Sack  == DmaSack \cup IntrSack

ArmInv ==
  /\ pc \in {"off"} \cup DmaSteps \cup IntrSteps
  /\ assert_pin \subseteq AssertPins
  /\ ("NPG" \in assert_pin) <=> pc \in DmaSteps \ {"npg_high"}
  /\ ("NPR" \in assert_pin) <=> pc \in DmaAsks
  /\ ("BG5" \in assert_pin) <=> pc \in IntrSteps \ {"bg_high"}
  /\ ("BR5" \in assert_pin) <=> pc \in IntrAsks
  /\ ("SACK" \in assert_pin) <=> pc \in Sack
  /\ ("BBSY" \in assert_pin) <=> pc \in Owner
  /\ ("DATA_DIR" \in assert_pin) <=> pc \in VectorOut \ {"data_dir"}
  /\ ("INTR" \in assert_pin) <=> pc \in {"isack_off", "ack", "drop"}
  /\ pass_thru \subseteq Grants /\ "BG4" \in pass_thru
  /\ ("NPG" \in pass_thru) <=> pc \notin NpgCut
  /\ ("BG5" \in pass_thru) <=> pc \notin Bg5Cut
  /\ dma_mode \in BOOLEAN /\ (dma_mode <=> pc \in DmaOn)
  /\ addr_match_1 = Base /\ lag \in 0 .. ClocksPerAccess

-----------------------------------------------------------------------------
(* The bus: one grant, one master, and, from the grant on, no other board  *)
(* that waits for it.                                                      *)
BusInv ==
  /\ npg \in BOOLEAN /\ bg5 \in BOOLEAN /\ ~(npg /\ bg5) /\ slave_ssyn \in BOOLEAN
  /\ phase \in {"off", "addr", "msyn", "drop"} /\ dev \in {"off", "asks", "sack", "owns"}
  /\ target \in {Base, Start} /\ (phase = "off" => target = Start)
  /\ phase # "off" => dev # "owns" /\ pc \notin Owner
  /\ dev = "owns" => pc \notin Owner
  /\ pc = "sack" => npg
  /\ pc = "isack" => bg5
  /\ pc \in {"sack", "isack"} \cup Sack => dev # "sack"
  /\ pc \in IntrSack \cup (({"bbsy", "own"} \cup DmaBus) \ {"bbsy_off"}) => ~npg
  /\ pc \in {"own", "iown"} => phase = "off" /\ dev # "owns"

\* The CPLD's two machines.
Pending == (pending_dma_write <=> job = "write") /\ (pending_dma_read <=> job = "read")
Done    == ustate_m = {} /\ ~pending_dma_write /\ ~pending_dma_read
Armed   == ustate_m = {} /\ Pending /\ lag = 0
Running == (\E k \in 1 .. 6 : ustate_m = {k}) /\ Pending

MachineInv ==
  /\ {ssyn, msyn, bbsy, pending_dma_write, pending_dma_read} \subseteq BOOLEAN
  /\ pc \notin Idle => Done
  /\ pc \in Idle => Armed \/ Running \/ Done

\* The slave machine answers the processor's cycle in the window only.
SlaveInv ==
  /\ ustate_s = {} \/ \E k \in 1 .. 3 : ustate_s = {k}
  /\ SS(1) \/ SS(2) => phase \in {"addr", "msyn"} /\ target = Base
  /\ phase = "drop" /\ target = Base /\ ~SS(3) => ~msyn
  /\ phase = "msyn" /\ target = Base => ~slave_ssyn
  /\ pc \in DmaBus => SS0

\* SSYN of a master cycle is that of memory, and of this cycle.
SsynInv ==
  /\ pc \in DmaBus /\ ~MSin({3, 4, 5}) => ~slave_ssyn
  /\ MS(4) /\ ssyn => slave_ssyn
  /\ MS(5) /\ ~ssyn => ~slave_ssyn

-----------------------------------------------------------------------------
(* The words.                                                              *)
TypeInv ==
  /\ addr \in Address /\ addr_out \in Address /\ bus_data_hold \in Word
  /\ data \in Seq(Word \cup {Nothing}) /\ words \in Seq(Word)
  /\ Len(data) \in 0 .. Words /\ Len(words) \in 0 .. Words
  /\ memory \in [Memory -> Word]
  /\ job \in {"write", "read", "intr"} /\ (job = "intr" => pc \notin DmaSteps)
  /\ pc \in {"prime", "sample", "idle2"} => job = "read"
  /\ pc = "put" => job = "write"
  /\ pc \in VectorOut => bus_data_hold = Vector

Unmoved == {"npg_high", "pass_off", "npr", "hi", "lo", "mode", "put", "prime", "idle", "sample"}
             \cup DmaAsks \cup DmaWaits

\* What is left of the buffer and what has been moved.
BufferInv == pc \in DmaSteps =>
  /\ addr = Start + 2 * Moved
  /\ pc \in Unmoved => data # <<>>
  /\ pc = "npg_low" => data = <<>>
  /\ job = "write" => Len(words) = Words /\ \A i \in 1 .. Len(data) : data[i] = words[Moved + i]
  /\ job = "read" => Len(words) = Moved
  /\ \A i \in 1 .. Moved : words[i] = memory[Start + 2 * (i - 1)]

\* The CPLD's address and data in the master cycles of one word.
WordInv ==
  /\ pc = "lo" => addr_out \div LoSpace = addr \div LoSpace
  /\ pc \in {"mode", "put", "prime"} \/ (pc \in Idle /\ ~Done) => addr_out = addr
  /\ pc = "sample" \/ (pc = "idle" /\ Done /\ job = "read") => addr_out = addr + 2
  /\ pc = "idle" /\ job = "write" =>
       /\ bus_data_hold = words[Moved + 1]
       /\ (slave_ssyn \/ MSin({5, 6}) \/ Done) => memory[addr] = words[Moved + 1]
  /\ pc = "sample" \/ (pc = "idle" /\ job = "read" /\ (MSin({5, 6}) \/ Done)) =>
       bus_data_hold = memory[addr]

MasterInv ==
  ArmInv /\ BusInv /\ MachineInv /\ SlaveInv /\ SsynInv /\ TypeInv /\ BufferInv /\ WordInv

-----------------------------------------------------------------------------
(* What each kind of access does, and the steps of the ARM.                *)
Pins(at, next, pins) ==
  pc = at /\ pc' = next /\ assert_pin' = pins /\ UNCHANGED <<pass_thru, dma_mode>>
Pass(at, next, pins) ==
  pc = at /\ pc' = next /\ pass_thru' = pins /\ UNCHANGED <<assert_pin, dma_mode>>
Mode(at, next, v) ==
  pc = at /\ pc' = next /\ dma_mode' = v /\ UNCHANGED <<assert_pin, pass_thru>>
Goes(at, next) ==
  pc = at /\ pc' = next /\ UNCHANGED <<assert_pin, pass_thru, dma_mode>>
Always == Settled /\ UNCHANGED busVars /\ addr_match_1' = addr_match_1 /\ (lag' = 0 \/ lag' = lag)

\* An access that writes none of the registers above.
Plain(op) == op.reg \notin {"ASSERT", "PASS_THRU", "DMA_MODE", "MADDR1"}

LEMMA ClkRegisters ==
  ASSUME NEW op, Clk(bus, op)
  PROVE  /\ assert_pin' = RegNext("ASSERT", assert_pin, op)
         /\ pass_thru' = RegNext("PASS_THRU", pass_thru, op)
         /\ dma_mode' = RegNext("DMA_MODE", dma_mode, op)
         /\ addr_match_1' = RegNext("MADDR1", addr_match_1, op)
BY DEF Clk

LEMMA Accesses ==
  ASSUME NEW at, NEW next, NEW v, NEW op
  PROVE  /\ Plain(op) /\ Access(at, op, next) => Always /\ Goes(at, next)
         /\ Access(at, Wr("DMA_MODE", v), next) => Always /\ Mode(at, next, v)
         /\ Assert(at, v, next) => Always /\ Pins(at, next, assert_pin \cup v)
         /\ Deassert(at, v, next) => Always /\ Pins(at, next, assert_pin \ v)
         /\ PassThru(at, v, next) => Always /\ Pass(at, next, v)
         /\ Wait(at, v, next) => Always /\ Goes(at, next)
         /\ WaitPin(at, v, next) => Always /\ Goes(at, next)
<1> USE DEF Always, RegNext, Wrote, Wr, Rd
<1>1. Plain(op) /\ Access(at, op, next) => Always /\ Goes(at, next)
  BY ClkRegisters DEF Access, Plain, Goes
<1>2. Access(at, Wr("DMA_MODE", v), next) => Always /\ Mode(at, next, v)
  BY ClkRegisters DEF Access, Mode
<1>3. Assert(at, v, next) => Always /\ Pins(at, next, assert_pin \cup v)
  BY ClkRegisters DEF Assert, Access, Pins
<1>4. Deassert(at, v, next) => Always /\ Pins(at, next, assert_pin \ v)
  BY ClkRegisters DEF Deassert, Access, Pins
<1>5. PassThru(at, v, next) => Always /\ Pass(at, next, v)
  BY ClkRegisters DEF PassThru, Access, Pass
<1>6. Wait(at, v, next) => Always /\ Goes(at, next)
  BY ClkRegisters DEF Wait, Access, Goes
<1>7. WaitPin(at, v, next) => Always /\ Goes(at, next)
  BY DEF WaitPin, Goes, cpldVars
<1> QED
  BY <1>1, <1>2, <1>3, <1>4, <1>5, <1>6, <1>7

LEMMA RequestSteps ==
  Request => Always /\
    \/ Pins("npg_high", "pass_off", assert_pin \cup {"NPG"})
    \/ Pass("pass_off", "npr", Grants \ {"NPG"})
    \/ Pins("npr", "npg", assert_pin \cup {"NPR"})
    \/ Goes("npg", "sack") /\ npg
    \/ Pins("sack", "npr_off", assert_pin \cup {"SACK"})
<1>1. Wait("npg", npg, "sack") => npg
  BY DEF Wait
<1> QED
  BY Accesses, <1>1 DEF Request

LEMMA TakeBusSteps ==
  TakeBus => Always /\
    \/ Pins("npr_off", "npg_off", assert_pin \ {"NPR"})
    \/ Goes("npg_off", "bbsy") /\ ~npg
    \/ Goes("bbsy", "own") /\ ~BBSY_IN(bus)
    \/ Pins("own", "hi", assert_pin \cup {"BBSY"})
<1>1. Wait("npg_off", ~npg, "bbsy") => ~npg
  BY DEF Wait
<1>2. WaitPin("bbsy", ~BBSY_IN(bus), "own") => ~BBSY_IN(bus)
  BY DEF WaitPin
<1> QED
  BY Accesses, <1>1, <1>2 DEF TakeBus

LEMMA PrimeSteps ==
  Prime => Always /\
    \/ Goes("hi", "lo")
    \/ Goes("lo", "mode")
    \/ Mode("mode", IF job = "write" THEN "put" ELSE "prime", TRUE)
    \/ Goes("prime", "idle")
BY Accesses DEF Prime, Plain, Wr, Rd

LEMMA MoveWordSteps ==
  MoveWord => Always /\
    \/ Goes("put", "idle")
    \/ Goes("idle", IF job = "write" THEN "pass_on" ELSE "sample") /\ MS0
    \/ Goes("sample", "idle2")
    \/ Goes("idle2", "pass_on") /\ MS0
<1>1. Wait("idle", MS0, IF job = "write" THEN "pass_on" ELSE "sample") => MS0
  BY DEF Wait
<1>2. Wait("idle2", MS0, "pass_on") => MS0
  BY DEF Wait
<1> QED
  BY Accesses, <1>1, <1>2 DEF MoveWord, Plain, Wr, Rd

LEMMA GiveBackSteps ==
  GiveBack => Always /\
    \/ Pass("pass_on", "mode_off", Grants)
    \/ Mode("mode_off", "sack_off", FALSE)
    \/ Pins("sack_off", "bbsy_off", assert_pin \ {"SACK"})
    \/ Pins("bbsy_off", IF data = <<>> THEN "npg_low" ELSE "pass_off", assert_pin \ {"BBSY"})
    \/ Pins("npg_low", "off", assert_pin \ {"NPG"})
BY Accesses DEF GiveBack

LEMMA IntrRequestSteps ==
  IntrRequest => Always /\
    \/ Pins("bg_high", "bg_pass_off", assert_pin \cup {"BG5"})
    \/ Pass("bg_pass_off", "br", Grants \ {"BG5"})
    \/ Pins("br", "bg", assert_pin \cup {"BR5"})
    \/ Goes("bg", "isack") /\ bg5
    \/ Pins("isack", "br_off", assert_pin \cup {"SACK"})
    \/ Pins("br_off", "bg_off", assert_pin \ {"BR5"})
    \/ Goes("bg_off", "ibbsy") /\ ~bg5
    \/ Goes("ibbsy", "iown") /\ ~BBSY_IN(bus)
    \/ Pins("iown", "vector", assert_pin \cup {"BBSY"})
<1>1. Wait("bg", bg5, "isack") => bg5
  BY DEF Wait
<1>2. Wait("bg_off", ~bg5, "ibbsy") => ~bg5
  BY DEF Wait
<1>3. WaitPin("ibbsy", ~BBSY_IN(bus), "iown") => ~BBSY_IN(bus)
  BY DEF WaitPin
<1> QED
  BY Accesses, <1>1, <1>2, <1>3 DEF IntrRequest

LEMMA IntrVectorSteps ==
  IntrVector => Always /\
    \/ Goes("vector", "data_dir")
    \/ Pins("data_dir", "issyn", assert_pin \cup {"DATA_DIR"})
    \/ Goes("issyn", "intr")
    \/ Pins("intr", "isack_off", assert_pin \cup {"INTR"})
    \/ Pins("isack_off", "ack", assert_pin \ {"SACK"})
    \/ Goes("ack", "drop")
BY Accesses DEF IntrVector, Plain, Wr, Rd

LEMMA IntrEndSteps ==
  IntrEnd => Always /\
    \/ Pins("drop", "ipass_on", assert_pin \ {"DATA_DIR", "INTR", "BBSY"})
    \/ Pass("ipass_on", "bg_low", Grants)
    \/ Pins("bg_low", "off", assert_pin \ {"BG5"})
BY Accesses DEF IntrEnd

-----------------------------------------------------------------------------
(* The ARM keeps ArmInv and its part of BusInv.                            *)
LEMMA ArmRequest ==
  ASSUME Timely PROVE ArmInv /\ BusInv /\ Request => ArmInv' /\ BusInv'
<1> SUFFICES ASSUME ArmInv, BusInv, Request PROVE ArmInv' /\ BusInv'
  OBVIOUS
<1>a. addr_match_1' = Base /\ lag' \in 0 .. ClocksPerAccess /\ UNCHANGED busVars /\ Settled
  BY RequestSteps, MasterAssumption DEF ArmInv, Always
<1> USE <1>a DEF Pins, Pass, Mode, Goes, busVars, AssertPins, Grants, DmaOn, DmaBus, DmaAsks, DmaWaits, DmaSteps,
    NpgCut, DmaSack, VectorOut, IntrBus, IntrAsks, IntrWaits, IntrSteps, Bg5Cut, IntrSack, Owner, Sack
<1>1. CASE Pins("npg_high", "pass_off", assert_pin \cup {"NPG"})
  <2>1. ArmInv'
    BY <1>1 DEF ArmInv
  <2>2. BusInv'
    BY <1>1 DEF ArmInv, BusInv
  <2> QED
    BY <2>1, <2>2
<1>2. CASE Pass("pass_off", "npr", Grants \ {"NPG"})
  <2>1. ArmInv'
    BY <1>2 DEF ArmInv
  <2>2. BusInv'
    BY <1>2 DEF ArmInv, BusInv
  <2> QED
    BY <2>1, <2>2
<1>3. CASE Pins("npr", "npg", assert_pin \cup {"NPR"})
  <2>1. ArmInv'
    BY <1>3 DEF ArmInv
  <2>2. BusInv'
    BY <1>3 DEF ArmInv, BusInv
  <2> QED
    BY <2>1, <2>2
<1>4. CASE Goes("npg", "sack") /\ npg
  <2>1. ArmInv'
    BY <1>4 DEF ArmInv
  <2>2. BusInv'
    BY <1>4 DEF ArmInv, BusInv, Timely, Settled, SACK_IN
  <2> QED
    BY <2>1, <2>2
<1>5. CASE Pins("sack", "npr_off", assert_pin \cup {"SACK"})
  <2>1. ArmInv'
    BY <1>5 DEF ArmInv
  <2>2. BusInv'
    BY <1>5 DEF ArmInv, BusInv
  <2> QED
    BY <2>1, <2>2
<1> QED
  BY <1>1, <1>2, <1>3, <1>4, <1>5, RequestSteps

LEMMA ArmTakeBus ==
  ASSUME Timely PROVE ArmInv /\ BusInv /\ TakeBus => ArmInv' /\ BusInv'
<1> SUFFICES ASSUME ArmInv, BusInv, TakeBus PROVE ArmInv' /\ BusInv'
  OBVIOUS
<1>a. addr_match_1' = Base /\ lag' \in 0 .. ClocksPerAccess /\ UNCHANGED busVars /\ Settled
  BY TakeBusSteps, MasterAssumption DEF ArmInv, Always
<1> USE <1>a DEF Pins, Pass, Mode, Goes, busVars, AssertPins, Grants, DmaOn, DmaBus, DmaAsks, DmaWaits, DmaSteps,
    NpgCut, DmaSack, VectorOut, IntrBus, IntrAsks, IntrWaits, IntrSteps, Bg5Cut, IntrSack, Owner, Sack
<1>1. CASE Pins("npr_off", "npg_off", assert_pin \ {"NPR"})
  <2>1. ArmInv'
    BY <1>1 DEF ArmInv
  <2>2. BusInv'
    BY <1>1 DEF ArmInv, BusInv
  <2> QED
    BY <2>1, <2>2
<1>2. CASE Goes("npg_off", "bbsy") /\ ~npg
  <2>1. ArmInv'
    BY <1>2 DEF ArmInv
  <2>2. BusInv'
    BY <1>2 DEF ArmInv, BusInv
  <2> QED
    BY <2>1, <2>2
<1>3. CASE Goes("bbsy", "own") /\ ~BBSY_IN(bus)
  <2>1. ArmInv'
    BY <1>3 DEF ArmInv
  <2>2. BusInv'
    BY <1>3 DEF ArmInv, BusInv, BBSY_IN, bus
  <2> QED
    BY <2>1, <2>2
<1>4. CASE Pins("own", "hi", assert_pin \cup {"BBSY"})
  <2>1. ArmInv'
    BY <1>4 DEF ArmInv
  <2>2. BusInv'
    BY <1>4 DEF ArmInv, BusInv
  <2> QED
    BY <2>1, <2>2
<1> QED
  BY <1>1, <1>2, <1>3, <1>4, TakeBusSteps

LEMMA ArmPrime ==
  ASSUME Timely PROVE ArmInv /\ BusInv /\ Prime => ArmInv' /\ BusInv'
<1> SUFFICES ASSUME ArmInv, BusInv, Prime PROVE ArmInv' /\ BusInv'
  OBVIOUS
<1>a. addr_match_1' = Base /\ lag' \in 0 .. ClocksPerAccess /\ UNCHANGED busVars /\ Settled
  BY PrimeSteps, MasterAssumption DEF ArmInv, Always
<1> USE <1>a DEF Pins, Pass, Mode, Goes, busVars, AssertPins, Grants, DmaOn, DmaBus, DmaAsks, DmaWaits, DmaSteps,
    NpgCut, DmaSack, VectorOut, IntrBus, IntrAsks, IntrWaits, IntrSteps, Bg5Cut, IntrSack, Owner, Sack
<1>1. CASE Goes("hi", "lo")
  <2>1. ArmInv'
    BY <1>1 DEF ArmInv
  <2>2. BusInv'
    BY <1>1 DEF ArmInv, BusInv
  <2> QED
    BY <2>1, <2>2
<1>2. CASE Goes("lo", "mode")
  <2>1. ArmInv'
    BY <1>2 DEF ArmInv
  <2>2. BusInv'
    BY <1>2 DEF ArmInv, BusInv
  <2> QED
    BY <2>1, <2>2
<1>3. CASE Mode("mode", IF job = "write" THEN "put" ELSE "prime", TRUE)
  <2>1. ArmInv'
    BY <1>3 DEF ArmInv
  <2>2. BusInv'
    BY <1>3 DEF ArmInv, BusInv
  <2> QED
    BY <2>1, <2>2
<1>4. CASE Goes("prime", "idle")
  <2>1. ArmInv'
    BY <1>4 DEF ArmInv
  <2>2. BusInv'
    BY <1>4 DEF ArmInv, BusInv
  <2> QED
    BY <2>1, <2>2
<1> QED
  BY <1>1, <1>2, <1>3, <1>4, PrimeSteps

LEMMA ArmMoveWord ==
  ASSUME Timely PROVE ArmInv /\ BusInv /\ MoveWord => ArmInv' /\ BusInv'
<1> SUFFICES ASSUME ArmInv, BusInv, MoveWord PROVE ArmInv' /\ BusInv'
  OBVIOUS
<1>a. addr_match_1' = Base /\ lag' \in 0 .. ClocksPerAccess /\ UNCHANGED busVars /\ Settled
  BY MoveWordSteps, MasterAssumption DEF ArmInv, Always
<1> USE <1>a DEF Pins, Pass, Mode, Goes, busVars, AssertPins, Grants, DmaOn, DmaBus, DmaAsks, DmaWaits, DmaSteps,
    NpgCut, DmaSack, VectorOut, IntrBus, IntrAsks, IntrWaits, IntrSteps, Bg5Cut, IntrSack, Owner, Sack
<1>1. CASE Goes("put", "idle")
  <2>1. ArmInv'
    BY <1>1 DEF ArmInv
  <2>2. BusInv'
    BY <1>1 DEF ArmInv, BusInv
  <2> QED
    BY <2>1, <2>2
<1>2. CASE Goes("idle", IF job = "write" THEN "pass_on" ELSE "sample") /\ MS0
  <2>1. ArmInv'
    BY <1>2 DEF ArmInv
  <2>2. BusInv'
    BY <1>2 DEF ArmInv, BusInv
  <2> QED
    BY <2>1, <2>2
<1>3. CASE Goes("sample", "idle2")
  <2>1. ArmInv'
    BY <1>3 DEF ArmInv
  <2>2. BusInv'
    BY <1>3 DEF ArmInv, BusInv
  <2> QED
    BY <2>1, <2>2
<1>4. CASE Goes("idle2", "pass_on") /\ MS0
  <2>1. ArmInv'
    BY <1>4 DEF ArmInv
  <2>2. BusInv'
    BY <1>4 DEF ArmInv, BusInv
  <2> QED
    BY <2>1, <2>2
<1> QED
  BY <1>1, <1>2, <1>3, <1>4, MoveWordSteps

LEMMA ArmGiveBack ==
  ASSUME Timely PROVE ArmInv /\ BusInv /\ GiveBack => ArmInv' /\ BusInv'
<1> SUFFICES ASSUME ArmInv, BusInv, GiveBack PROVE ArmInv' /\ BusInv'
  OBVIOUS
<1>a. addr_match_1' = Base /\ lag' \in 0 .. ClocksPerAccess /\ UNCHANGED busVars /\ Settled
  BY GiveBackSteps, MasterAssumption DEF ArmInv, Always
<1> USE <1>a DEF Pins, Pass, Mode, Goes, busVars, AssertPins, Grants, DmaOn, DmaBus, DmaAsks, DmaWaits, DmaSteps,
    NpgCut, DmaSack, VectorOut, IntrBus, IntrAsks, IntrWaits, IntrSteps, Bg5Cut, IntrSack, Owner, Sack
<1>1. CASE Pass("pass_on", "mode_off", Grants)
  <2>1. ArmInv'
    BY <1>1 DEF ArmInv
  <2>2. BusInv'
    BY <1>1 DEF ArmInv, BusInv
  <2> QED
    BY <2>1, <2>2
<1>2. CASE Mode("mode_off", "sack_off", FALSE)
  <2>1. ArmInv'
    BY <1>2 DEF ArmInv
  <2>2. BusInv'
    BY <1>2 DEF ArmInv, BusInv
  <2> QED
    BY <2>1, <2>2
<1>3. CASE Pins("sack_off", "bbsy_off", assert_pin \ {"SACK"})
  <2>1. ArmInv'
    BY <1>3 DEF ArmInv
  <2>2. BusInv'
    BY <1>3 DEF ArmInv, BusInv
  <2> QED
    BY <2>1, <2>2
<1>4. CASE Pins("bbsy_off", IF data = <<>> THEN "npg_low" ELSE "pass_off", assert_pin \ {"BBSY"})
  <2>1. ArmInv'
    BY <1>4 DEF ArmInv
  <2>2. BusInv'
    BY <1>4 DEF ArmInv, BusInv
  <2> QED
    BY <2>1, <2>2
<1>5. CASE Pins("npg_low", "off", assert_pin \ {"NPG"})
  <2>1. ArmInv'
    BY <1>5 DEF ArmInv
  <2>2. BusInv'
    BY <1>5 DEF ArmInv, BusInv
  <2> QED
    BY <2>1, <2>2
<1> QED
  BY <1>1, <1>2, <1>3, <1>4, <1>5, GiveBackSteps

LEMMA ArmIntrRequest ==
  ASSUME Timely PROVE ArmInv /\ BusInv /\ IntrRequest => ArmInv' /\ BusInv'
<1> SUFFICES ASSUME ArmInv, BusInv, IntrRequest PROVE ArmInv' /\ BusInv'
  OBVIOUS
<1>a. addr_match_1' = Base /\ lag' \in 0 .. ClocksPerAccess /\ UNCHANGED busVars /\ Settled
  BY IntrRequestSteps, MasterAssumption DEF ArmInv, Always
<1> USE <1>a DEF Pins, Pass, Mode, Goes, busVars, AssertPins, Grants, DmaOn, DmaBus, DmaAsks, DmaWaits, DmaSteps,
    NpgCut, DmaSack, VectorOut, IntrBus, IntrAsks, IntrWaits, IntrSteps, Bg5Cut, IntrSack, Owner, Sack
<1>1. CASE Pins("bg_high", "bg_pass_off", assert_pin \cup {"BG5"})
  <2>1. ArmInv'
    BY <1>1 DEF ArmInv
  <2>2. BusInv'
    BY <1>1 DEF ArmInv, BusInv
  <2> QED
    BY <2>1, <2>2
<1>2. CASE Pass("bg_pass_off", "br", Grants \ {"BG5"})
  <2>1. ArmInv'
    BY <1>2 DEF ArmInv
  <2>2. BusInv'
    BY <1>2 DEF ArmInv, BusInv
  <2> QED
    BY <2>1, <2>2
<1>3. CASE Pins("br", "bg", assert_pin \cup {"BR5"})
  <2>1. ArmInv'
    BY <1>3 DEF ArmInv
  <2>2. BusInv'
    BY <1>3 DEF ArmInv, BusInv
  <2> QED
    BY <2>1, <2>2
<1>4. CASE Goes("bg", "isack") /\ bg5
  <2>1. ArmInv'
    BY <1>4 DEF ArmInv
  <2>2. BusInv'
    BY <1>4 DEF ArmInv, BusInv, Timely, Settled, SACK_IN
  <2> QED
    BY <2>1, <2>2
<1>5. CASE Pins("isack", "br_off", assert_pin \cup {"SACK"})
  <2>1. ArmInv'
    BY <1>5 DEF ArmInv
  <2>2. BusInv'
    BY <1>5 DEF ArmInv, BusInv
  <2> QED
    BY <2>1, <2>2
<1>6. CASE Pins("br_off", "bg_off", assert_pin \ {"BR5"})
  <2>1. ArmInv'
    BY <1>6 DEF ArmInv
  <2>2. BusInv'
    BY <1>6 DEF ArmInv, BusInv
  <2> QED
    BY <2>1, <2>2
<1>7. CASE Goes("bg_off", "ibbsy") /\ ~bg5
  <2>1. ArmInv'
    BY <1>7 DEF ArmInv
  <2>2. BusInv'
    BY <1>7 DEF ArmInv, BusInv
  <2> QED
    BY <2>1, <2>2
<1>8. CASE Goes("ibbsy", "iown") /\ ~BBSY_IN(bus)
  <2>1. ArmInv'
    BY <1>8 DEF ArmInv
  <2>2. BusInv'
    BY <1>8 DEF ArmInv, BusInv, BBSY_IN, bus
  <2> QED
    BY <2>1, <2>2
<1>9. CASE Pins("iown", "vector", assert_pin \cup {"BBSY"})
  <2>1. ArmInv'
    BY <1>9 DEF ArmInv
  <2>2. BusInv'
    BY <1>9 DEF ArmInv, BusInv
  <2> QED
    BY <2>1, <2>2
<1> QED
  BY <1>1, <1>2, <1>3, <1>4, <1>5, <1>6, <1>7, <1>8, <1>9, IntrRequestSteps

LEMMA ArmIntrVector ==
  ASSUME Timely PROVE ArmInv /\ BusInv /\ IntrVector => ArmInv' /\ BusInv'
<1> SUFFICES ASSUME ArmInv, BusInv, IntrVector PROVE ArmInv' /\ BusInv'
  OBVIOUS
<1>a. addr_match_1' = Base /\ lag' \in 0 .. ClocksPerAccess /\ UNCHANGED busVars /\ Settled
  BY IntrVectorSteps, MasterAssumption DEF ArmInv, Always
<1> USE <1>a DEF Pins, Pass, Mode, Goes, busVars, AssertPins, Grants, DmaOn, DmaBus, DmaAsks, DmaWaits, DmaSteps,
    NpgCut, DmaSack, VectorOut, IntrBus, IntrAsks, IntrWaits, IntrSteps, Bg5Cut, IntrSack, Owner, Sack
<1>1. CASE Goes("vector", "data_dir")
  <2>1. ArmInv'
    BY <1>1 DEF ArmInv
  <2>2. BusInv'
    BY <1>1 DEF ArmInv, BusInv
  <2> QED
    BY <2>1, <2>2
<1>2. CASE Pins("data_dir", "issyn", assert_pin \cup {"DATA_DIR"})
  <2>1. ArmInv'
    BY <1>2 DEF ArmInv
  <2>2. BusInv'
    BY <1>2 DEF ArmInv, BusInv
  <2> QED
    BY <2>1, <2>2
<1>3. CASE Goes("issyn", "intr")
  <2>1. ArmInv'
    BY <1>3 DEF ArmInv
  <2>2. BusInv'
    BY <1>3 DEF ArmInv, BusInv
  <2> QED
    BY <2>1, <2>2
<1>4. CASE Pins("intr", "isack_off", assert_pin \cup {"INTR"})
  <2>1. ArmInv'
    BY <1>4 DEF ArmInv
  <2>2. BusInv'
    BY <1>4 DEF ArmInv, BusInv
  <2> QED
    BY <2>1, <2>2
<1>5. CASE Pins("isack_off", "ack", assert_pin \ {"SACK"})
  <2>1. ArmInv'
    BY <1>5 DEF ArmInv
  <2>2. BusInv'
    BY <1>5 DEF ArmInv, BusInv
  <2> QED
    BY <2>1, <2>2
<1>6. CASE Goes("ack", "drop")
  <2>1. ArmInv'
    BY <1>6 DEF ArmInv
  <2>2. BusInv'
    BY <1>6 DEF ArmInv, BusInv
  <2> QED
    BY <2>1, <2>2
<1> QED
  BY <1>1, <1>2, <1>3, <1>4, <1>5, <1>6, IntrVectorSteps

LEMMA ArmIntrEnd ==
  ASSUME Timely PROVE ArmInv /\ BusInv /\ IntrEnd => ArmInv' /\ BusInv'
<1> SUFFICES ASSUME ArmInv, BusInv, IntrEnd PROVE ArmInv' /\ BusInv'
  OBVIOUS
<1>a. addr_match_1' = Base /\ lag' \in 0 .. ClocksPerAccess /\ UNCHANGED busVars /\ Settled
  BY IntrEndSteps, MasterAssumption DEF ArmInv, Always
<1> USE <1>a DEF Pins, Pass, Mode, Goes, busVars, AssertPins, Grants, DmaOn, DmaBus, DmaAsks, DmaWaits, DmaSteps,
    NpgCut, DmaSack, VectorOut, IntrBus, IntrAsks, IntrWaits, IntrSteps, Bg5Cut, IntrSack, Owner, Sack
<1>1. CASE Pins("drop", "ipass_on", assert_pin \ {"DATA_DIR", "INTR", "BBSY"})
  <2>1. ArmInv'
    BY <1>1 DEF ArmInv
  <2>2. BusInv'
    BY <1>1 DEF ArmInv, BusInv
  <2> QED
    BY <2>1, <2>2
<1>2. CASE Pass("ipass_on", "bg_low", Grants)
  <2>1. ArmInv'
    BY <1>2 DEF ArmInv
  <2>2. BusInv'
    BY <1>2 DEF ArmInv, BusInv
  <2> QED
    BY <2>1, <2>2
<1>3. CASE Pins("bg_low", "off", assert_pin \ {"BG5"})
  <2>1. ArmInv'
    BY <1>3 DEF ArmInv
  <2>2. BusInv'
    BY <1>3 DEF ArmInv, BusInv
  <2> QED
    BY <2>1, <2>2
<1> QED
  BY <1>1, <1>2, <1>3, IntrEndSteps

-----------------------------------------------------------------------------
(* The other steps.                                                        *)
Sensed == Tick \/ Serve
Others == GrantNpg \/ GrantBg5 \/ EndGrant \/ CpuStarts \/ CpuGoesOn \/ Slave \/ DevAsks \/ DevGoesOn

\* A clock without an access of the main loop.
LEMMA SensedClock ==
  ASSUME ArmInv, Sensed
  PROVE  /\ \/ Clk(bus, NoOp) /\ lag' = IF lag < ClocksPerAccess THEN lag + 1 ELSE lag
            \/ Clk(bus, Wr("CPU_RELEASE", Zero)) /\ lag' = 0 /\ SS(1)
         /\ lag' \in 0 .. ClocksPerAccess
         /\ UNCHANGED <<assert_pin, pass_thru, dma_mode, addr_match_1, pc, job, addr, data, words, busVars>>
<1>1. CASE Tick
  <2>1. Clk(bus, NoOp)
    BY <1>1 DEF Tick
  <2>2. UNCHANGED <<assert_pin, pass_thru, dma_mode, addr_match_1>>
    BY <2>1, ClkRegisters DEF NoOp, RegNext, Wrote
  <2> QED
    BY <1>1, <2>1, <2>2, MasterAssumption DEF Tick, ArmInv
<1>2. CASE Serve
  <2>1. Clk(bus, Wr("CPU_RELEASE", Zero))
    BY <1>2 DEF Serve
  <2>2. UNCHANGED <<assert_pin, pass_thru, dma_mode, addr_match_1>>
    BY <2>1, ClkRegisters DEF Wr, RegNext, Wrote
  <2> QED
    BY <1>2, <2>1, <2>2, MasterAssumption DEF Serve
<1> QED
  BY <1>1, <1>2 DEF Sensed

LEMMA SensedArm == ArmInv /\ BusInv /\ Sensed => ArmInv' /\ BusInv'
<1> SUFFICES ASSUME ArmInv, BusInv, Sensed PROVE ArmInv' /\ BusInv'
  OBVIOUS
<1>1. /\ lag' \in 0 .. ClocksPerAccess
      /\ UNCHANGED <<assert_pin, pass_thru, dma_mode, addr_match_1, pc, busVars>>
  BY SensedClock
<1>2. ArmInv'
  BY <1>1 DEF ArmInv
<1>3. BusInv'
  BY <1>1 DEF BusInv, busVars
<1> QED
  BY <1>2, <1>3

LEMMA CallArm == ArmInv /\ BusInv /\ Call => ArmInv' /\ BusInv'
<1> SUFFICES ASSUME ArmInv, BusInv, Call PROVE ArmInv' /\ BusInv'
  OBVIOUS
<1>1. /\ UNCHANGED <<assert_pin, pass_thru, dma_mode, addr_match_1, lag,
                      npg, bg5, phase, target, slave_ssyn, dev>>
      /\ pc = "off" /\ pc' \in {"bg_high", "npg_high"}
  BY DEF Call, cpldVars
<1> USE <1>1 DEF DmaOn, DmaBus, DmaAsks, DmaWaits, DmaSteps, NpgCut, DmaSack, VectorOut, IntrBus,
    IntrAsks, IntrWaits, IntrSteps, Bg5Cut, IntrSack, Owner, Sack
<1>2. ArmInv'
  BY DEF ArmInv
<1>3. BusInv'
  BY DEF ArmInv, BusInv
<1> QED
  BY <1>2, <1>3

\* Why the others leave the bus to one master: no grant while SACK is out,
\* and nobody starts while BBSY is.
LEMMA OthersBus == ArmInv /\ BusInv /\ Others => ArmInv' /\ BusInv'
<1> SUFFICES ASSUME ArmInv, BusInv, Others PROVE ArmInv' /\ BusInv'
  OBVIOUS
<1>1. UNCHANGED <<assert_pin, pass_thru, dma_mode, addr_match_1, pc, lag>>
  BY DEF Others, GrantNpg, GrantBg5, EndGrant, CpuStarts, CpuGoesOn, Cycle, Slave, DevAsks, DevGoesOn,
         BusOnly, cpldVars, armVars
<1>2. ArmInv'
  BY <1>1 DEF ArmInv
<1> DEFINE sacks == pc \in Sack
           owns == pc \in Owner
<1>3. /\ SACK_IN <=> sacks \/ dev = "sack"
      /\ BBSY_IN(bus) <=> phase # "off" \/ dev = "owns" \/ owns
  BY DEF ArmInv, SACK_IN, BBSY_IN, bus
<1>4. pc \in NpgCut => ~NPG_OUT
  BY DEF ArmInv, NPG_OUT, NpgCut, DmaSteps, DmaAsks, DmaWaits, DmaBus, DmaOn
<1>5. pc \notin NpgCut => (NPG_OUT <=> npg)
  BY DEF ArmInv, BusInv, NPG_OUT
<1> USE DEF DmaOn, DmaBus, DmaAsks, DmaWaits, NpgCut, DmaSack, VectorOut, IntrBus,
    IntrAsks, IntrWaits, IntrSack, Owner, Sack
<1>6. CASE GrantNpg
  BY <1>1, <1>2, <1>3, <1>6 DEF GrantNpg, CanGrant, BusInv
<1>7. CASE GrantBg5
  BY <1>1, <1>2, <1>3, <1>7 DEF GrantBg5, CanGrant, BusInv
<1>8. CASE EndGrant
  BY <1>1, <1>2, <1>3, <1>8 DEF EndGrant, BusInv
<1>9. CASE CpuStarts
  BY <1>1, <1>2, <1>3, <1>9 DEF CpuStarts, Cycle, CanGrant, BusInv
<1>10. CASE CpuGoesOn
  BY <1>1, <1>2, <1>10 DEF CpuGoesOn, Cycle, BusInv
<1>11. CASE Slave
  BY <1>1, <1>2, <1>11 DEF Slave, BusInv
<1>12. CASE DevAsks
  BY <1>1, <1>2, <1>12 DEF DevAsks, BusInv
<1>13. CASE DevGoesOn
  BY <1>1, <1>2, <1>3, <1>4, <1>5, <1>13 DEF DevGoesOn, BusInv
<1> QED
  BY <1>6, <1>7, <1>8, <1>9, <1>10, <1>11, <1>12, <1>13 DEF Others

-----------------------------------------------------------------------------
(* One clock of the CPLD.                                                  *)
LEMMA ShiftSteps ==
  ASSUME NEW w \in Nat, NEW start
  PROVE  /\ Shift({}, w, start) = {} \/ Shift({}, w, start) = {1}
         /\ (w >= 1 /\ start) => Shift({}, w, start) = {1}
         /\ ~start => Shift({}, w, start) = {}
         /\ \A k \in 1 .. w : ~start =>
              Shift({k}, w, start) = IF k < w THEN {k + 1} ELSE {}
<1>1. start => Shift({}, w, start) \subseteq {1}
  BY DEF Shift
<1>2. (w >= 1 /\ start) => 1 \in Shift({}, w, start)
  BY DEF Shift
<1>3. ~start => Shift({}, w, start) = {}
  BY DEF Shift
<1>4. ASSUME NEW k \in 1 .. w, ~start
      PROVE  Shift({k}, w, start) = IF k < w THEN {k + 1} ELSE {}
  BY <1>4 DEF Shift
<1> QED
  BY <1>1, <1>2, <1>3, <1>4

\* The wires.
LEMMA Wires ==
  ASSUME Placed, ArmInv, BusInv, MachineInv, SlaveInv
  PROVE  /\ pc \notin Idle => ustate_m = {}
         /\ MSYN_IN(bus) <=> phase = "msyn" \/ MSin({3, 4})
         /\ C1_IN(bus) <=> MSin(1 .. 4) /\ pending_dma_write
         /\ SSYN_IN(bus) <=> slave_ssyn \/ SS(3)
         /\ BUS_ADDR(bus) = IF MSin(1 .. 5) THEN addr_out ELSE target
         /\ phase # "off" => pc \notin Owner /\ ustate_m = {} /\ ~dma_mode
         /\ target = Start /\ ustate_m = {} => ~unibus_master(bus)
         /\ target = Base /\ ustate_m = {} => (unibus_master(bus) <=> bbsy /\ msyn)
         /\ Idle \subseteq DmaBus /\ DmaBus \subseteq Owner /\ DmaOn \subseteq DmaBus
<1>1. Idle \subseteq DmaBus /\ DmaBus \subseteq Owner /\ DmaOn \subseteq DmaBus
  BY DEF Idle, DmaBus, DmaOn, Owner
<1>2. pc \notin Idle => ustate_m = {}
  BY DEF MachineInv, Done
<1>3. /\ bus.msyn <=> phase = "msyn"
      /\ bus.ssyn <=> slave_ssyn
      /\ ~bus.c1
      /\ bus.addr = target
  BY DEF bus, BusInv
<1>4. BUS_ADDR(bus) = IF MSin(1 .. 5) THEN addr_out ELSE target
  BY <1>3 DEF BUS_ADDR, addr_assert
<1>5. ustate_m = {} => (addr_match(bus) <=> target \div Window = Base \div Window)
  BY <1>4 DEF addr_match, MSin, ArmInv
<1>6. phase # "off" => pc \notin Owner /\ ustate_m = {} /\ ~dma_mode
  BY <1>1, <1>2 DEF BusInv, ArmInv
<1>7. target = Start /\ ustate_m = {} => ~unibus_master(bus)
  BY <1>5 DEF unibus_master, Placed
<1>8. target = Base /\ ustate_m = {} => (unibus_master(bus) <=> bbsy /\ msyn)
  BY <1>5 DEF unibus_master
<1>9. /\ MSYN_IN(bus) <=> phase = "msyn" \/ MSin({3, 4})
      /\ C1_IN(bus) <=> MSin(1 .. 4) /\ pending_dma_write
      /\ SSYN_IN(bus) <=> slave_ssyn \/ SS(3)
  BY <1>3 DEF MSYN_IN, C1_IN, SSYN_IN, msyn_assert, c1_assert, ssyn_assert
<1> QED
  BY <1>1, <1>2, <1>4, <1>6, <1>7, <1>8, <1>9

\* The slave machine, whatever the ARM does: it leaves SS3 with the
\* processor's MSYN, and starts for no one else.
LEMMA SlaveClock ==
  ASSUME Placed, ArmInv, BusInv, MachineInv, SlaveInv,
         NEW op, Clk(bus, op), UNCHANGED busVars
  PROVE  /\ ustate_s' = {} \/ \E k \in 1 .. 3 : ustate_s' = {k}
         /\ 1 \in ustate_s' \/ 2 \in ustate_s' => phase \in {"addr", "msyn"} /\ target = Base
         /\ phase = "drop" /\ target = Base /\ 3 \notin ustate_s' => ~msyn'
         /\ phase = "off" => ustate_s' = {}
         /\ msyn' \in BOOLEAN /\ bbsy' \in BOOLEAN /\ ssyn' \in BOOLEAN
<1> DEFINE start == ustate_s_start(bus)
<1>0. ustate_s' = SlaveNext(bus) /\ msyn' = MSYN_IN(bus) /\ bbsy' = BBSY_IN(bus) /\ ssyn' = SSYN_IN(bus)
  BY DEF Clk
<1>1. msyn' \in BOOLEAN /\ bbsy' \in BOOLEAN /\ ssyn' \in BOOLEAN
  BY <1>0 DEF MSYN_IN, BBSY_IN, SSYN_IN, bus, msyn_assert, ssyn_assert, BusInv, MSin, SS
<1>2. start => ustate_s = {} /\ target = Base /\ phase # "off" /\ bbsy /\ msyn
  <2>1. start => ustate_s = {} /\ ustate_m = {} /\ unibus_master(bus)
    BY DEF ustate_s_start, SS0, MS0
  <2>2. start => target = Base /\ target # Start
    BY <2>1, Wires DEF BusInv
  <2> QED
    BY <2>1, <2>2 DEF unibus_master, BusInv
<1>3. \/ ustate_s' = ustate_s
      \/ ustate_s' = {} /\ ~start
      \/ ustate_s' = {1} /\ start
      \/ ustate_s = {1} /\ ustate_s' = {2}
      \/ ustate_s = {2} /\ ustate_s' = {3}
  <2> HIDE DEF start
  <2>1. CASE ustate_s' = ustate_s
    BY <2>1
  <2>2. CASE ustate_s' = Shift(ustate_s, 3, start)
    <3>1. CASE ustate_s = {}
      BY <2>2, <3>1, ShiftSteps
    <3>2. ASSUME NEW k \in 1 .. 3, ustate_s = {k} 
          PROVE  \/ ustate_s' = {} /\ ~start
                 \/ ustate_s = {1} /\ ustate_s' = {2}
                 \/ ustate_s = {2} /\ ustate_s' = {3}
      <4>1. ~start
        BY <1>2, <3>2
      <4>2. ustate_s' = IF k < 3 THEN {k + 1} ELSE {}
        BY <2>2, <3>2, <4>1 DEF Shift
      <4> QED
        BY <3>2, <4>1, <4>2
    <3> QED
      BY <3>1, <3>2 DEF SlaveInv
  <2> QED
    BY <1>0, <2>1, <2>2 DEF SlaveNext, start
<1>4. phase = "off" => ustate_s' = {}
  <2> SUFFICES ASSUME phase = "off" PROVE ustate_s' = {}
    OBVIOUS
  <2>1. ustate_s = {} \/ ustate_s = {3}
    BY DEF SlaveInv, SS
  <2>2. ~start
    BY <1>2
  <2>3. CASE ustate_s = {}
    BY <1>3, <2>2, <2>3
  <2>4. CASE ustate_s = {3}
    <3>1. ustate_m = {} /\ target = Start
      BY <2>4, Wires DEF SlaveInv, BusInv, SS0
    <3>2. ~unibus_master(bus) /\ ~SS(1)
      BY <2>4, <3>1, Wires DEF SS
    <3>3. ustate_s' = Shift({3}, 3, start)
      BY <1>0, <2>4, <3>2 DEF SlaveNext
    <3> QED
      BY <2>2, <3>3 DEF Shift
  <2> QED
    BY <2>1, <2>3, <2>4
<1>5. phase = "drop" /\ target = Base /\ 3 \notin ustate_s' => ~msyn'
  BY <1>0, Wires DEF MSin
<1>6. 1 \in ustate_s' \/ 2 \in ustate_s' => phase \in {"addr", "msyn"} /\ target = Base
  <2>1. start => phase \in {"addr", "msyn"} /\ target = Base
    <3>1. phase = "drop" /\ target = Base /\ ustate_s = {} => ~msyn
      BY DEF SlaveInv, SS
    <3> QED
      BY <1>2, <3>1 DEF BusInv
  <2> QED
    BY <1>3, <2>1 DEF SlaveInv, SS
<1>7. ustate_s' = {} \/ \E k \in 1 .. 3 : ustate_s' = {k}
  BY <1>3 DEF SlaveInv
<1> QED
  BY <1>1, <1>4, <1>5, <1>6, <1>7

\* A clock between master cycles, unless the ARM strobes the data register.
LEMMA DoneClock ==
  ASSUME Placed, ArmInv, BusInv, MachineInv, SlaveInv, TypeInv, Done,
         NEW op, op.reg # "DATA", Clk(bus, op), UNCHANGED busVars
  PROVE  /\ Done' /\ pending_dma_write' \in BOOLEAN /\ pending_dma_read' \in BOOLEAN
         /\ bus_data_hold' = bus_data_hold
         /\ op.reg \notin {"WR_ADDR_HI", "WR_ADDR_LO"} => addr_out' \in Address
         /\ pc \in DmaBus /\ op.reg \notin {"WR_ADDR_HI", "WR_ADDR_LO"} => addr_out' = addr_out
<1>1. /\ ustate_m' = MasterNext(bus)
      /\ pending_dma_write' = PendingNext(pending_dma_write, "wr", op)
      /\ pending_dma_read' = PendingNext(pending_dma_read, "rd", op)
      /\ bus_data_hold' = DataNext(bus, op) /\ addr_out' = AddrNext(bus, op)
  BY DEF Clk
<1>2. ~pending_dma_write' /\ ~pending_dma_read' /\ pending_dma_write' \in BOOLEAN /\ pending_dma_read' \in BOOLEAN
  BY <1>1 DEF PendingNext, Done
<1>3. ustate_m' = {}
  <2>1. ~ustate_m_start(bus)
    BY DEF ustate_m_start, pending_dma, Done
  <2> QED
    BY <1>1, <2>1 DEF MasterNext, Shift, Done
<1>4. bus_data_hold' = bus_data_hold
  <2>1. ~data_strobe(bus)
    BY Wires DEF data_strobe, Done, MS
  <2> QED
    BY <1>1, <2>1 DEF DataNext, Wrote
<1>5. op.reg \notin {"WR_ADDR_HI", "WR_ADDR_LO"} =>
        addr_out' = IF addr_strobe THEN target ELSE addr_out
  BY <1>1, Wires DEF AddrNext, addr_incr, Done, MS, MSin
<1>6. pc \in DmaBus => ~addr_strobe
  BY DEF addr_strobe, SlaveInv, SS, SS0
<1>7. target \in Address
  BY MasterAssumption DEF BusInv
<1> QED
  BY <1>2, <1>3, <1>4, <1>5, <1>6, <1>7 DEF Done, TypeInv

\* A strobe of the data register in DMA mode: the next clock can start a cycle.
LEMMA DataAccess ==
  ASSUME Placed, ArmInv, BusInv, MachineInv, SlaveInv, TypeInv, Done, pc \in DmaOn,
         NEW op, op.reg = "DATA", op.kind \in {"rd", "wr"}, op.kind = "wr" => op.val \in Word,
         Clk(bus, op), UNCHANGED busVars
  PROVE  /\ ustate_m' = {} /\ addr_out' = addr_out
         /\ pending_dma_write' \in BOOLEAN /\ pending_dma_read' \in BOOLEAN
         /\ pending_dma_write' <=> op.kind = "wr"
         /\ pending_dma_read' <=> op.kind = "rd"
         /\ bus_data_hold' = IF op.kind = "wr" THEN op.val ELSE bus_data_hold
<1>1. /\ ustate_m' = MasterNext(bus)
      /\ pending_dma_write' = PendingNext(pending_dma_write, "wr", op)
      /\ pending_dma_read' = PendingNext(pending_dma_read, "rd", op)
      /\ bus_data_hold' = DataNext(bus, op) /\ addr_out' = AddrNext(bus, op)
  BY DEF Clk
<1>2. /\ pending_dma_write' \in BOOLEAN /\ pending_dma_read' \in BOOLEAN
      /\ pending_dma_write' <=> op.kind = "wr"
      /\ pending_dma_read' <=> op.kind = "rd"
  BY <1>1 DEF PendingNext, Done, ArmInv
<1>3. ustate_m' = {}
  <2>1. ~ustate_m_start(bus)
    BY DEF ustate_m_start, pending_dma, Done
  <2> QED
    BY <1>1, <2>1 DEF MasterNext, Shift, Done
<1>4. bus_data_hold' = IF op.kind = "wr" THEN op.val ELSE bus_data_hold
  <2>1. ~data_strobe(bus)
    BY Wires DEF data_strobe, Done, MS
  <2> QED
    BY <1>1, <2>1 DEF DataNext, Wrote
<1>5. addr_out' = addr_out
  <2>1. ~addr_strobe
    BY Wires DEF addr_strobe, SlaveInv, SS, SS0
  <2> QED
    BY <1>1, <2>1 DEF AddrNext, addr_incr, Done, MS
<1> QED
  BY <1>2, <1>3, <1>4, <1>5

\* A clock of a master cycle.
LEMMA CycleClock ==
  ASSUME Placed, ArmInv, BusInv, MachineInv, SlaveInv, TypeInv, SsynInv, pc \in Idle, Pending,
         NEW op, op.reg # "DATA", op.kind # "wr", Clk(bus, op), UNCHANGED busVars
  PROVE  /\ ssyn' <=> slave_ssyn
         /\ ustate_m = {} => ustate_m' = {1}
         /\ \A k \in {1, 2, 3} : ustate_m = {k} => ustate_m' = {k + 1}
         /\ ustate_m = {4} => ustate_m' = IF ssyn THEN {5} ELSE {4}
         /\ ustate_m = {5} => ustate_m' = IF ssyn THEN {5} ELSE {6}
         /\ ustate_m = {6} => Done'
         /\ pending_dma_write' \in BOOLEAN /\ pending_dma_read' \in BOOLEAN
         /\ ~MS(6) => /\ pending_dma_write' <=> pending_dma_write
                      /\ pending_dma_read' <=> pending_dma_read
         /\ addr_out' = IF MS(6) THEN (addr_out + 2) % AddrSpace ELSE addr_out
         /\ bus_data_hold' = IF MS(4) /\ pending_dma_read THEN BUS_DATA(bus) ELSE bus_data_hold
<1>1. /\ ustate_m' = MasterNext(bus) /\ ssyn' = SSYN_IN(bus)
      /\ pending_dma_write' = PendingNext(pending_dma_write, "wr", op)
      /\ pending_dma_read' = PendingNext(pending_dma_read, "rd", op)
      /\ bus_data_hold' = DataNext(bus, op) /\ addr_out' = AddrNext(bus, op)
  BY DEF Clk
<1>2. ustate_s = {} /\ dma_mode /\ phase = "off"
  BY Wires DEF Idle, DmaOn, DmaBus, SlaveInv, SS0, ArmInv
<1>3. ssyn' <=> slave_ssyn
  BY <1>1, <1>2, Wires DEF SS
<1>4. /\ pending_dma_write' \in BOOLEAN /\ pending_dma_read' \in BOOLEAN
      /\ pending_dma_write' <=> pending_dma_write /\ ~MS(6)
      /\ pending_dma_read' <=> pending_dma_read /\ ~MS(6)
  BY <1>1 DEF PendingNext, MachineInv
<1>5. ustate_m_start(bus) <=> ustate_m = {}
  <2>1. pending_dma_write \/ pending_dma_read
    BY DEF Pending, TypeInv, Idle, DmaSteps, DmaBus, DmaOn
  <2>2. target = Start
    BY <1>2 DEF BusInv
  <2> QED
    BY <1>2, <2>1, <2>2, Wires DEF ustate_m_start, pending_dma, MS0, SS0
<1>6. /\ ustate_m = {} => ustate_m' = {1}
      /\ \A k \in {1, 2, 3} : ustate_m = {k} => ustate_m' = {k + 1}
      /\ ustate_m = {4} => ustate_m' = IF ssyn THEN {5} ELSE {4}
      /\ ustate_m = {5} => ustate_m' = IF ssyn THEN {5} ELSE {6}
      /\ ustate_m = {6} => ustate_m' = {}
  <2>1. CASE ustate_m = {}
    BY <1>1, <1>2, <1>5, <2>1 DEF MasterNext, MS, Shift
  <2>2. CASE ustate_m # {}
    <3>1. ustate_m' = IF (MS(4) /\ ~ssyn) \/ (MS(5) /\ ssyn) THEN ustate_m
                      ELSE {i + 1 : i \in ustate_m} \cap (1 .. 6)
      BY <1>1, <1>2, <1>5, <2>2 DEF MasterNext, Shift
    <3> QED
      BY <2>2, <3>1 DEF MS
  <2> QED
    BY <2>1, <2>2
<1>7. ustate_m = {6} => Done'
  BY <1>4, <1>6 DEF Done, MS
<1>8. addr_out' = IF MS(6) THEN (addr_out + 2) % AddrSpace ELSE addr_out
  BY <1>1, <1>2 DEF AddrNext, addr_strobe, addr_incr, SS
<1>9. bus_data_hold' = IF MS(4) /\ pending_dma_read THEN BUS_DATA(bus) ELSE bus_data_hold
  BY <1>1, <1>2 DEF DataNext, data_strobe, Wrote, SS
<1> QED
  BY <1>3, <1>4, <1>6, <1>7, <1>8, <1>9

\* What is read is what memory drives.
LEMMA DataRead ==
  ASSUME Placed, ArmInv, BusInv, MachineInv, SlaveInv, pc \in Idle, MS(4), Pending, job = "read"
  PROVE  BUS_DATA(bus) = IF slave_ssyn THEN memory[addr_out] ELSE Zero
<1>1. ~C1_IN(bus) /\ ~c1_assert
  BY Wires DEF Pending, c1_assert
<1>2. ~BUS_DATA_DIR(bus)
  BY <1>1, Wires DEF BUS_DATA_DIR, data_assert, ArmInv, SlaveInv, SS, SS0, Idle, DmaOn, DmaBus, VectorOut
<1>3. addr_assert
  BY DEF addr_assert, MSin, MS
<1> QED
  BY <1>2, <1>3 DEF BUS_DATA, bus

-----------------------------------------------------------------------------
(* The steps that strobe neither the data nor the address of the CPLD,     *)
(* between two master cycles, need only be looked at for where they go.    *)
Clocked == \E op : op.reg \notin {"DATA", "WR_ADDR_HI", "WR_ADDR_LO"} /\ Clk(bus, op)
Kept    == UNCHANGED <<busVars, job, addr, data, words>>

Along ==
  /\ \/ pc' = pc
     \/ pc' \notin Idle \cup {"lo", "mode", "put", "prime", "sample"}
     \/ pc = "mode" /\ pc' = "put" /\ job = "write"
     \/ pc = "mode" /\ pc' = "prime" /\ job # "write"
     \/ pc = "idle" /\ pc' = "sample" /\ job = "read"
  /\ pc' \in DmaBus => pc \in DmaBus \/ (pc = "own" /\ Clocked /\ ~slave_ssyn)
  /\ pc' \in VectorOut => pc \in VectorOut
  /\ pc' \in DmaSteps => pc \in DmaSteps
  /\ pc' \in Unmoved => pc \in Unmoved \/ data # <<>>
  /\ pc' = "npg_low" => pc = "npg_low" \/ data = <<>>

LEMMA Quiet ==
  ASSUME Placed, MasterInv, ArmInv', BusInv', Done, Kept, Along, UNCHANGED cpldVars \/ Clocked
  PROVE  MasterInv'
<1> USE DEF MasterInv
<1>1. /\ Done' /\ {pending_dma_write', pending_dma_read'} \subseteq BOOLEAN
      /\ bus_data_hold' = bus_data_hold /\ addr_out' \in Address
      /\ pc \in DmaBus => addr_out' = addr_out
      /\ {ssyn', msyn', bbsy'} \subseteq BOOLEAN
      /\ ustate_s' = {} \/ \E k \in 1 .. 3 : ustate_s' = {k}
      /\ 1 \in ustate_s' \/ 2 \in ustate_s' => phase \in {"addr", "msyn"} /\ target = Base
      /\ phase = "drop" /\ target = Base /\ 3 \notin ustate_s' => ~msyn'
      /\ pc \in DmaBus => ustate_s' = {}
      /\ Clocked /\ phase = "off" => ustate_s' = {}
  <2>0. pc \in DmaBus => phase = "off"
    BY DEF BusInv, Owner
  <2>1. CASE Clocked
    <3>1. PICK op : op.reg \notin {"DATA", "WR_ADDR_HI", "WR_ADDR_LO"} /\ Clk(bus, op)
      BY <2>1 DEF Clocked
    <3>2. /\ Done' /\ {pending_dma_write', pending_dma_read'} \subseteq BOOLEAN
          /\ bus_data_hold' = bus_data_hold /\ addr_out' \in Address
          /\ pc \in DmaBus => addr_out' = addr_out
      BY <3>1, DoneClock DEF Kept
    <3> QED
      BY <3>1, <3>2, <2>0, SlaveClock DEF Kept
  <2>2. CASE UNCHANGED cpldVars /\ ~Clocked
    BY <2>2 DEF cpldVars, Done, MachineInv, SlaveInv, SS, SS0, TypeInv
  <2> QED
    BY <2>1, <2>2
<1>2. UNCHANGED <<phase, target, slave_ssyn, memory, took, job, addr, data, words>>
  BY DEF Kept, busVars
<1>3. MachineInv'
  BY <1>1 DEF MachineInv
<1>4. SlaveInv'
  <2>1. pc' \in DmaBus => ustate_s' = {}
    BY <1>1 DEF Along, BusInv
  <2> QED
    BY <1>1, <1>2, <2>1 DEF SlaveInv, SS, SS0
<1>5. SsynInv'
  <2>1. pc' \in DmaBus => ~slave_ssyn
    BY DEF Along, SsynInv, Done, MSin
  <2> QED
    BY <1>1, <1>2, <2>1 DEF SsynInv, MS, Done
<1>6. TypeInv'
  BY <1>1, <1>2 DEF TypeInv, Along, DmaSteps, DmaBus, DmaOn, VectorOut, DmaAsks, DmaWaits, Idle
<1>7. BufferInv'
  <2>1. Moved' = Moved
    BY <1>2 DEF Moved
  <2> QED
    BY <1>2, <2>1 DEF BufferInv, Along
<1>8. WordInv'
  <2>1. Moved' = Moved
    BY <1>2 DEF Moved
  <2>2. ustate_m = {} /\ ustate_m' = {} /\ Done'
    BY <1>1 DEF Done
  <2>3. pc \in {"lo", "mode", "put", "prime", "sample"} \cup Idle => addr_out' = addr_out
    BY <1>1 DEF DmaBus, DmaOn, Idle
  <2> QED
    BY <1>1, <1>2, <2>1, <2>2, <2>3 DEF WordInv, Along, MSin, Idle
<1> QED
  BY <1>3, <1>4, <1>5, <1>6, <1>7, <1>8

\* When pc is not where a master cycle may run, there is none.
LEMMA AccessClock ==
  ASSUME NEW at, NEW next, NEW v, NEW op
  PROVE  /\ Access(at, op, next) /\ op.reg \notin {"DATA", "WR_ADDR_HI", "WR_ADDR_LO"} => Clocked
         /\ Assert(at, v, next) => Clocked
         /\ Deassert(at, v, next) => Clocked
         /\ PassThru(at, v, next) => Clocked
         /\ Wait(at, v, next) => Clocked
         /\ Access(at, Wr("DMA_MODE", v), next) => Clocked
         /\ WaitPin(at, v, next) => UNCHANGED cpldVars
<1>1. Access(at, op, next) /\ op.reg \notin {"DATA", "WR_ADDR_HI", "WR_ADDR_LO"} => Clocked
  BY DEF Access, Clocked
<1>2. \A w : (Wr("ASSERT", w).reg = "ASSERT" /\ Wr("PASS_THRU", w).reg = "PASS_THRU"
              /\ Wr("DMA_MODE", w).reg = "DMA_MODE") /\ Rd("STATUS").reg = "STATUS"
  BY DEF Wr, Rd
<1>3. Assert(at, v, next) => Clocked
  BY <1>2 DEF Assert, Access, Clocked
<1>4. Deassert(at, v, next) => Clocked
  BY <1>2 DEF Deassert, Access, Clocked
<1>5. PassThru(at, v, next) => Clocked
  BY <1>2 DEF PassThru, Access, Clocked
<1>6. Wait(at, v, next) => Clocked
  BY <1>2 DEF Wait, Access, Clocked
<1>7. Access(at, Wr("DMA_MODE", v), next) => Clocked
  BY <1>2 DEF Access, Clocked
<1>8. WaitPin(at, v, next) => UNCHANGED cpldVars
  BY DEF WaitPin
<1> QED
  BY <1>1, <1>3, <1>4, <1>5, <1>6, <1>7, <1>8

LEMMA ArmMain ==
  ASSUME Timely PROVE ArmInv /\ BusInv /\ Main => ArmInv' /\ BusInv'
BY ArmRequest, ArmTakeBus, ArmPrime, ArmMoveWord, ArmGiveBack, ArmIntrRequest, ArmIntrVector,
   ArmIntrEnd DEF Main

LEMMA KeepRequest ==
  ASSUME Timely, Placed PROVE MasterInv /\ Request => MasterInv'
<1> SUFFICES ASSUME MasterInv, Request PROVE MasterInv'
  OBVIOUS
<1>1. Always /\ Kept /\ (UNCHANGED cpldVars \/ Clocked)
  BY AccessClock, RequestSteps DEF Request, Same, Kept, Always
<1>3. Done /\ Along
  <2> USE DEF Pins, Pass, Mode, Goes, Idle, DmaOn, DmaBus, DmaAsks, DmaWaits, DmaSteps, VectorOut, Unmoved
  <2>1. Done
    BY RequestSteps DEF MasterInv, MachineInv
  <2>2. Along
    BY RequestSteps DEF Along
  <2> QED
    BY <2>1, <2>2
<1>4. ArmInv' /\ BusInv'
  BY ArmRequest DEF MasterInv
<1> QED
  BY <1>1, <1>3, <1>4, Quiet

LEMMA KeepTakeBus ==
  ASSUME Timely, Placed PROVE MasterInv /\ TakeBus => MasterInv'
<1> SUFFICES ASSUME MasterInv, TakeBus PROVE MasterInv'
  OBVIOUS
<1>1. Always /\ Kept /\ (UNCHANGED cpldVars \/ Clocked)
  BY AccessClock, TakeBusSteps DEF TakeBus, Same, Kept, Always
<1>2. pc = "own" /\ pc' = "hi" => Clocked /\ ~slave_ssyn
  <2>1. pc = "own" /\ pc' = "hi" => Assert("own", {"BBSY"}, "hi")
    BY DEF TakeBus, Deassert, Wait, WaitPin, Access
  <2>2. pc = "own" => phase = "off" /\ ustate_m = {} /\ "INTR" \notin assert_pin
    BY DEF MasterInv, BusInv, MachineInv, Done, Idle, ArmInv
  <2>3. pc = "own" => ~MSYN_IN(bus) /\ ~INTR_IN
    BY <2>2, Wires DEF MasterInv, INTR_IN, MSin
  <2> QED
    BY <1>1, <2>1, <2>3, AccessClock DEF Always, Settled, Timely
<1>3. Done /\ Along
  <2> USE DEF Pins, Pass, Mode, Goes, Idle, DmaOn, DmaBus, DmaAsks, DmaWaits, DmaSteps, VectorOut, Unmoved
  <2>1. Done
    BY TakeBusSteps DEF MasterInv, MachineInv
  <2>2. Along
    BY <1>2, TakeBusSteps DEF Along
  <2> QED
    BY <2>1, <2>2
<1>4. ArmInv' /\ BusInv'
  BY ArmTakeBus DEF MasterInv
<1> QED
  BY <1>1, <1>3, <1>4, Quiet

LEMMA KeepGiveBack ==
  ASSUME Timely, Placed PROVE MasterInv /\ GiveBack => MasterInv'
<1> SUFFICES ASSUME MasterInv, GiveBack PROVE MasterInv'
  OBVIOUS
<1>1. Always /\ Kept /\ (UNCHANGED cpldVars \/ Clocked)
  BY AccessClock, GiveBackSteps DEF GiveBack, Same, Kept, Always
<1>3. Done /\ Along
  <2> USE DEF Pins, Pass, Mode, Goes, Idle, DmaOn, DmaBus, DmaAsks, DmaWaits, DmaSteps, VectorOut, Unmoved
  <2>1. Done
    BY GiveBackSteps DEF MasterInv, MachineInv
  <2>2. Along
    BY GiveBackSteps DEF Along
  <2> QED
    BY <2>1, <2>2
<1>4. ArmInv' /\ BusInv'
  BY ArmGiveBack DEF MasterInv
<1> QED
  BY <1>1, <1>3, <1>4, Quiet

LEMMA KeepIntrRequest ==
  ASSUME Timely, Placed PROVE MasterInv /\ IntrRequest => MasterInv'
<1> SUFFICES ASSUME MasterInv, IntrRequest PROVE MasterInv'
  OBVIOUS
<1>1. Always /\ Kept /\ (UNCHANGED cpldVars \/ Clocked)
  BY AccessClock, IntrRequestSteps DEF IntrRequest, Same, Kept, Always
<1>3. Done /\ Along
  <2> USE DEF Pins, Pass, Mode, Goes, Idle, DmaOn, DmaBus, DmaAsks, DmaWaits, DmaSteps, VectorOut, Unmoved
  <2>1. Done
    BY IntrRequestSteps DEF MasterInv, MachineInv
  <2>2. Along
    BY IntrRequestSteps DEF Along
  <2> QED
    BY <2>1, <2>2
<1>4. ArmInv' /\ BusInv'
  BY ArmIntrRequest DEF MasterInv
<1> QED
  BY <1>1, <1>3, <1>4, Quiet

LEMMA KeepIntrEnd ==
  ASSUME Timely, Placed PROVE MasterInv /\ IntrEnd => MasterInv'
<1> SUFFICES ASSUME MasterInv, IntrEnd PROVE MasterInv'
  OBVIOUS
<1>1. Always /\ Kept /\ (UNCHANGED cpldVars \/ Clocked)
  BY AccessClock, IntrEndSteps DEF IntrEnd, Same, Kept, Always
<1>3. Done /\ Along
  <2> USE DEF Pins, Pass, Mode, Goes, Idle, DmaOn, DmaBus, DmaAsks, DmaWaits, DmaSteps, VectorOut, Unmoved
  <2>1. Done
    BY IntrEndSteps DEF MasterInv, MachineInv
  <2>2. Along
    BY IntrEndSteps DEF Along
  <2> QED
    BY <2>1, <2>2
<1>4. ArmInv' /\ BusInv'
  BY ArmIntrEnd DEF MasterInv
<1> QED
  BY <1>1, <1>3, <1>4, Quiet

-----------------------------------------------------------------------------
(* The halves of an address.                                               *)
LEMMA DivMod ==
  ASSUME NEW a \in Int, NEW b \in Nat \ {0}
  PROVE  /\ a \div b \in Int /\ a % b \in 0 .. b - 1
         /\ a = b * (a \div b) + (a % b)
BY Z3

LEMMA TimesAtLeast ==
  ASSUME NEW k \in Int, NEW b \in Nat \ {0}
  PROVE  /\ k >= 1 => b * k >= b
         /\ k <= -1 => b * k <= -b
BY Z3

LEMMA DivUnique ==
  ASSUME NEW a \in Int, NEW b \in Nat \ {0}, NEW q \in Int, NEW r \in 0 .. b - 1, a = b * q + r
  PROVE  a \div b = q /\ a % b = r
<1>1. /\ a \div b \in Int /\ a % b \in 0 .. b - 1
      /\ a = b * (a \div b) + (a % b)
  BY DivMod
<1> DEFINE p == a \div b
           s == a % b
           d == p - q
<1>2. p \in Int /\ s \in 0 .. b - 1 /\ a = b * p + s
  BY <1>1
<1> HIDE DEF p, s
<1>3. d \in Int /\ b * d = b * p - b * q
  BY <1>2
<1>4. b * d = r - s
  BY <1>2, <1>3
<1>5. b * d < b /\ b * d > -b
  BY <1>2, <1>4
<1>6. (d >= 1 => b * d >= b) /\ (d <= -1 => b * d <= -b)
  BY <1>3, TimesAtLeast
<1>7. d = 0
  BY <1>3, <1>5, <1>6
<1> QED
  BY <1>2, <1>4, <1>7 DEF p, s

LEMMA LowPart ==
  ASSUME NEW a \in Address PROVE a % LoSpace \in 0 .. LoSpace - 1
<1>1. a \in Int /\ LoSpace \in Nat \ {0}
  BY AddrAssumption DEF Address
<1> QED
  BY <1>1, DivMod

\* The upper half of one address and the lower half of another are an
\* address, with that upper half.
LEMMA Halves ==
  ASSUME Placed, NEW a \in Address, NEW r \in 0 .. LoSpace - 1
  PROVE  /\ a \div LoSpace \in Int /\ a % LoSpace \in 0 .. LoSpace - 1
         /\ a = (a \div LoSpace) * LoSpace + (a % LoSpace)
         /\ ((a \div LoSpace) * LoSpace + r) % AddrSpace = (a \div LoSpace) * LoSpace + r
         /\ (a \div LoSpace) * LoSpace + r \in Address
         /\ ((a \div LoSpace) * LoSpace + r) \div LoSpace = a \div LoSpace
<1> DEFINE q == a \div LoSpace
           s == a % LoSpace
           n == AddrSpace \div LoSpace
           x == q * LoSpace + r
<1>1. LoSpace \in Nat \ {0} /\ AddrSpace \in Nat \ {0} /\ a \in Int /\ a >= 0 /\ a < AddrSpace /\ r \in Int
  BY AddrAssumption DEF Address
<1>2. q \in Int /\ s \in 0 .. LoSpace - 1 /\ a = LoSpace * q + s
  BY <1>1, DivMod
<1>3. n \in Int /\ AddrSpace = LoSpace * n
  <2>1. n \in Int /\ AddrSpace = LoSpace * n + (AddrSpace % LoSpace)
    BY <1>1, DivMod
  <2> HIDE DEF n
  <2> QED
    BY <2>1, <1>1 DEF Placed
<1> HIDE DEF q, s, n
<1>4. LoSpace * (q - n) = LoSpace * q - LoSpace * n /\ q - n \in Int /\ LoSpace * q = q * LoSpace
  BY <1>1, <1>2, <1>3
<1>5. LoSpace * (q - n) < 0
  BY <1>1, <1>2, <1>3, <1>4
<1>6. q - n <= -1
  <2>1. q - n >= 0 => LoSpace * (q - n) >= 0
    BY <1>1, <1>4, Z3
  <2> QED
    BY <2>1, <1>5, <1>4, <1>1
<1>7. LoSpace * (q - n) <= -LoSpace
  BY <1>1, <1>4, <1>6, TimesAtLeast
<1>8. LoSpace * q >= 0
  <2>1. q <= -1 => LoSpace * q <= -LoSpace
    BY <1>1, <1>2, TimesAtLeast
  <2>2. q >= 0 => LoSpace * q >= 0
    BY <1>1, <1>2, Z3
  <2> QED
    BY <2>1, <2>2, <1>1, <1>2
<1>9. x \in Int /\ x = LoSpace * q + r /\ x >= 0 /\ x < AddrSpace
  BY <1>1, <1>2, <1>3, <1>4, <1>7, <1>8
<1> HIDE DEF x
<1>10. x % AddrSpace = x
  BY <1>1, <1>9
<1>11. x \div LoSpace = q
  BY <1>1, <1>2, <1>9, DivUnique
<1>12. x \in Address
  BY <1>9, <1>1 DEF Address
<1>13. a = q * LoSpace + s
  BY <1>2, <1>4
<1> QED
  BY <1>2, <1>10, <1>11, <1>12, <1>13 DEF q, s, x

-----------------------------------------------------------------------------
(* The accesses that strobe the address or the data of the CPLD.           *)
LEMMA KeepHi ==
  ASSUME Timely, Placed, MasterInv, Same, Access("hi", Wr("WR_ADDR_HI", addr \div LoSpace), "lo")
  PROVE  MasterInv'
<1> USE DEF MasterInv
<1> DEFINE op == Wr("WR_ADDR_HI", addr \div LoSpace)
<1>1. /\ op.kind = "wr" /\ op.reg = "WR_ADDR_HI" /\ op.val = addr \div LoSpace
  BY DEF Wr
<1>2. pc = "hi" /\ pc' = "lo" /\ Clk(bus, op) /\ UNCHANGED busVars
  BY DEF Access
<1>3. ArmInv' /\ BusInv'
  BY ArmPrime DEF Prime
<1> USE DEF DmaOn, DmaBus, DmaSteps, Idle, Unmoved, VectorOut
<1>4. Done
  BY <1>2 DEF MachineInv
<1>5. addr_out' = AddrNext(bus, op)
  BY <1>2 DEF Clk
<1> HIDE DEF op
<1>6. Done' /\ {pending_dma_write', pending_dma_read'} \subseteq BOOLEAN /\ bus_data_hold' = bus_data_hold
  BY <1>1, <1>2, <1>4, DoneClock
<1>7. addr_out' = (addr \div LoSpace) * LoSpace + (addr_out % LoSpace)
  <2>1. ~addr_strobe
    BY <1>2 DEF addr_strobe, SlaveInv, SS, SS0
  <2>2. addr_out' = ((addr \div LoSpace) * LoSpace + (addr_out % LoSpace)) % AddrSpace
    BY <1>1, <1>5, <2>1 DEF AddrNext
  <2>3. addr_out % LoSpace \in 0 .. LoSpace - 1 /\ addr \in Address
    BY LowPart DEF TypeInv
  <2> QED
    BY <2>2, <2>3, Halves
<1>8. addr_out' \in Address /\ addr_out' \div LoSpace = addr \div LoSpace
  <2>1. addr_out % LoSpace \in 0 .. LoSpace - 1 /\ addr \in Address
    BY LowPart DEF TypeInv
  <2> QED
    BY <1>7, <2>1, Halves
<1>9. /\ ustate_s' = {} /\ {msyn', bbsy', ssyn'} \subseteq BOOLEAN
  <2>1. phase = "off"
    BY <1>2 DEF BusInv, Owner
  <2> QED
    BY <1>2, <2>1, SlaveClock
<1>10. UNCHANGED <<phase, target, slave_ssyn, memory, took, job, addr, data, words>> /\ Moved' = Moved
  BY <1>2 DEF busVars, Same, Moved
<1>11. MachineInv' /\ SlaveInv' /\ SsynInv'
  BY <1>2, <1>4, <1>6, <1>9, <1>10 DEF MachineInv, SlaveInv, SsynInv, Done, SS, SS0, MS, MSin, BusInv, Owner
<1>12. TypeInv' /\ BufferInv' /\ WordInv'
  BY <1>2, <1>6, <1>8, <1>10 DEF TypeInv, BufferInv, WordInv
<1> QED
  BY <1>3, <1>11, <1>12

LEMMA KeepLo ==
  ASSUME Timely, Placed, MasterInv, Same, Access("lo", Wr("WR_ADDR_LO", addr % LoSpace), "mode")
  PROVE  MasterInv'
<1> USE DEF MasterInv
<1> DEFINE op == Wr("WR_ADDR_LO", addr % LoSpace)
<1>1. /\ op.kind = "wr" /\ op.reg = "WR_ADDR_LO" /\ op.val = addr % LoSpace
  BY DEF Wr
<1>2. pc = "lo" /\ pc' = "mode" /\ Clk(bus, op) /\ UNCHANGED busVars
  BY DEF Access
<1>3. ArmInv' /\ BusInv'
  BY ArmPrime DEF Prime
<1> USE DEF DmaOn, DmaBus, DmaSteps, Idle, Unmoved, VectorOut
<1>4. Done
  BY <1>2 DEF MachineInv
<1>5. addr_out' = AddrNext(bus, op)
  BY <1>2 DEF Clk
<1> HIDE DEF op
<1>6. Done' /\ {pending_dma_write', pending_dma_read'} \subseteq BOOLEAN /\ bus_data_hold' = bus_data_hold
  BY <1>1, <1>2, <1>4, DoneClock
<1>7. addr_out' = addr
  <2>1. ~addr_strobe
    BY <1>2 DEF addr_strobe, SlaveInv, SS, SS0
  <2>2. addr_out \div LoSpace = addr \div LoSpace /\ addr \in Address
    BY <1>2 DEF WordInv, TypeInv
  <2>3. addr_out' = ((addr \div LoSpace) * LoSpace + (addr % LoSpace)) % AddrSpace
    BY <1>1, <1>5, <2>1, <2>2 DEF AddrNext
  <2>4. addr % LoSpace \in 0 .. LoSpace - 1
    BY <2>2, LowPart
  <2>5. addr = (addr \div LoSpace) * LoSpace + (addr % LoSpace)
    BY <2>2, <2>4, Halves
  <2> QED
    BY <2>2, <2>3, <2>4, <2>5, Halves
<1>9. /\ ustate_s' = {} /\ {msyn', bbsy', ssyn'} \subseteq BOOLEAN
  <2>1. phase = "off"
    BY <1>2 DEF BusInv, Owner
  <2> QED
    BY <1>2, <2>1, SlaveClock
<1>10. UNCHANGED <<phase, target, slave_ssyn, memory, took, job, addr, data, words>> /\ Moved' = Moved
  BY <1>2 DEF busVars, Same, Moved
<1>11. MachineInv' /\ SlaveInv' /\ SsynInv'
  BY <1>2, <1>4, <1>6, <1>9, <1>10 DEF MachineInv, SlaveInv, SsynInv, Done, SS, SS0, MS, MSin, BusInv, Owner
<1>12. TypeInv' /\ BufferInv' /\ WordInv'
  BY <1>2, <1>6, <1>7, <1>10 DEF TypeInv, BufferInv, WordInv
<1> QED
  BY <1>3, <1>11, <1>12

LEMMA KeepMode ==
  ASSUME Timely, Placed, MasterInv, Same,
         Access("mode", Wr("DMA_MODE", TRUE), IF job = "write" THEN "put" ELSE "prime")
  PROVE  MasterInv'
<1> USE DEF MasterInv
<1>1. ArmInv' /\ BusInv'
  BY ArmPrime DEF Prime
<1>2. pc = "mode" /\ pc' = (IF job = "write" THEN "put" ELSE "prime") /\ Kept /\ Clocked
  BY AccessClock DEF Access, Kept, Same
<1>3. Done /\ Along
  BY <1>2 DEF MachineInv, Along, DmaOn, DmaBus, DmaSteps, Idle, Unmoved, VectorOut
<1> QED
  BY <1>1, <1>2, <1>3, Quiet

LEMMA Remaining ==
  ASSUME Placed, TypeInv, BufferInv, pc \in DmaSteps
  PROVE  /\ Words \in Nat /\ Moved \in 0 .. Words /\ Len(data) = Words - Moved
         /\ addr = Start + 2 * Moved /\ addr \in Memory /\ Start \in Nat /\ addr \in Nat
         /\ data # <<>> => Moved < Words /\ Moved + 1 \in 1 .. Words
<1>1. /\ Words \in Nat /\ Len(data) \in 0 .. Words /\ Moved = Words - Len(data) /\ Start \in Nat
      /\ addr = Start + 2 * Moved /\ data \in Seq(Word \cup {Nothing})
  BY MasterAssumption DEF TypeInv, BufferInv, Moved, Address
<1>2. data # <<>> => Len(data) > 0
  BY <1>1, EmptySeq
<1>3. Moved \in 0 .. Words
  BY <1>1
<1>4. addr \in Memory
  BY <1>1, <1>3 DEF Placed
<1> HIDE DEF Moved
<1> QED
  BY <1>1, <1>2, <1>3, <1>4

\* The next word.
LEMMA Advance ==
  ASSUME Placed, TypeInv, BufferInv, pc \in Unmoved, pc \in DmaSteps, NextWord
  PROVE  /\ Moved \in 0 .. Words - 1 /\ Moved' = Moved + 1 /\ Words \in Nat
         /\ addr' = Start + 2 * Moved' /\ addr' \in Address /\ addr' \in Memory
         /\ data' \in Seq(Word \cup {Nothing}) /\ Len(data') = Len(data) - 1 /\ Len(data') \in 0 .. Words
         /\ \A i \in 1 .. Len(data') : data'[i] = data[i + 1]
<1>1. data # <<>> /\ data \in Seq(Word \cup {Nothing}) /\ addr' = addr + 2 /\ data' = Tail(data)
  BY DEF BufferInv, TypeInv, NextWord
<1>2. /\ data' \in Seq(Word \cup {Nothing}) /\ Len(data') = Len(data) - 1
      /\ \A i \in 1 .. Len(data') : data'[i] = data[i + 1]
  BY <1>1, HeadTailProperties
<1>3. Len(data) \in 0 .. Words /\ Len(data') \in Nat /\ Words \in Nat
  BY <1>2, MasterAssumption, LenProperties DEF TypeInv
<1>4. Moved = Words - Len(data) /\ Moved' = Words - Len(data')
  BY DEF Moved
<1>5. Moved \in 0 .. Words - 1 /\ Moved' = Moved + 1
  BY <1>2, <1>3, <1>4, Remaining, <1>1
<1>6. addr' = Start + 2 * Moved'
  BY <1>1, <1>5, Remaining
<1>7. addr' \in Memory
  <2>1. Moved + 1 \in 0 .. Words
    BY <1>3, <1>5
  <2>2. addr' = Start + 2 * (Moved + 1)
    BY <1>5, <1>6
  <2> QED
    BY <2>1, <2>2 DEF Placed
<1>8. addr' \in Address /\ Len(data') \in 0 .. Words
  BY <1>2, <1>3, <1>7, MasterAssumption
<1> QED
  BY <1>2, <1>3, <1>5, <1>6, <1>7, <1>8

\* The strobe of the data register arms a master cycle.
LEMMA Arm ==
  ASSUME Placed, MasterInv, ArmInv', BusInv', pc \in DmaOn \ Idle, pc' \in Idle, lag' = 0, job' = job,
         job \in {"write", "read"},
         NEW op, op.reg = "DATA", op.kind = (IF job = "write" THEN "wr" ELSE "rd"),
         op.kind = "wr" => op.val \in Word, Clk(bus, op), UNCHANGED busVars
  PROVE  /\ MachineInv' /\ SlaveInv' /\ SsynInv' /\ addr_out' = addr_out /\ ~Done' /\ ustate_m' = {}
         /\ UNCHANGED <<slave_ssyn, memory, took>> /\ ~slave_ssyn
         /\ bus_data_hold' = IF op.kind = "wr" THEN op.val ELSE bus_data_hold
<1> USE DEF MasterInv
<1>1. Done
  BY DEF MachineInv
<1>2. /\ ustate_m' = {} /\ addr_out' = addr_out
      /\ pending_dma_write' \in BOOLEAN /\ pending_dma_read' \in BOOLEAN
      /\ pending_dma_write' <=> op.kind = "wr"
      /\ pending_dma_read' <=> op.kind = "rd"
      /\ bus_data_hold' = IF op.kind = "wr" THEN op.val ELSE bus_data_hold
  BY <1>1, DataAccess
<1>3. phase = "off" /\ pc \in DmaBus
  BY DEF BusInv, DmaBus, Owner
<1>4. ustate_s' = {} /\ {msyn', bbsy', ssyn'} \subseteq BOOLEAN
  BY <1>3, SlaveClock
<1>5. UNCHANGED <<slave_ssyn, memory, took, phase, target>>
  BY DEF busVars
<1>6. Armed' /\ ~Done'
  BY <1>2 DEF Armed, Pending, Done
<1>7. MachineInv'
  BY <1>2, <1>4, <1>6 DEF MachineInv
<1>8. SlaveInv'
  BY <1>3, <1>4, <1>5 DEF SlaveInv, SS, SS0
<1>9. ~slave_ssyn
  BY <1>1, <1>3 DEF SsynInv, Done, MSin
<1>10. SsynInv'
  BY <1>2, <1>5, <1>9 DEF SsynInv, MS, MSin
<1> QED
  BY <1>2, <1>5, <1>6, <1>7, <1>8, <1>9, <1>10

LEMMA KeepPut ==
  ASSUME Timely, Placed, MasterInv, Same, Access("put", Wr("DATA", Head(data)), "idle")
  PROVE  MasterInv'
<1> USE DEF MasterInv
<1> DEFINE op == Wr("DATA", Head(data))
<1>1. /\ op.kind = "wr" /\ op.reg = "DATA" /\ op.val = Head(data)
  BY DEF Wr
<1>2. pc = "put" /\ pc' = "idle" /\ lag' = 0 /\ Clk(bus, op) /\ UNCHANGED busVars
  BY DEF Access
<1>3. ArmInv' /\ BusInv'
  BY ArmMoveWord DEF MoveWord
<1>4. job = "write" /\ pc \in DmaSteps /\ pc \in Unmoved
  BY <1>2 DEF TypeInv, DmaSteps, DmaBus, DmaOn, Unmoved
<1>5. /\ data # <<>> /\ Len(words) = Words /\ \A i \in 1 .. Len(data) : data[i] = words[Moved + i]
      /\ data \in Seq(Word \cup {Nothing}) /\ words \in Seq(Word)
  BY <1>4 DEF BufferInv, TypeInv
<1>6. Moved + 1 \in 1 .. Words /\ 1 \in 1 .. Len(data)
  BY <1>4, <1>5, Remaining, EmptySeq
<1>7. Head(data) = words[Moved + 1] /\ words[Moved + 1] \in Word
  <2>1. Head(data) = data[1]
    BY <1>5, HeadTailProperties
  <2> QED
    BY <2>1, <1>5, <1>6, ElementOfSeq
<1> HIDE DEF op
<1> USE DEF DmaOn, DmaBus, DmaSteps, Idle, Unmoved, VectorOut
<1>8. /\ MachineInv' /\ SlaveInv' /\ SsynInv' /\ addr_out' = addr_out /\ ~Done' /\ ustate_m' = {}
      /\ UNCHANGED <<slave_ssyn, memory, took>> /\ ~slave_ssyn
      /\ bus_data_hold' = words[Moved + 1]
  BY <1>1, <1>2, <1>3, <1>4, <1>7, Arm DEF Same
<1>9. UNCHANGED <<job, addr, data, words>> /\ Moved' = Moved
  BY DEF Same, Moved
<1>10. TypeInv' /\ BufferInv'
  BY <1>2, <1>4, <1>7, <1>8, <1>9 DEF TypeInv, BufferInv
<1>11. WordInv'
  BY <1>2, <1>4, <1>8, <1>9 DEF WordInv, MSin
<1> QED
  BY <1>3, <1>8, <1>10, <1>11

LEMMA KeepPrime ==
  ASSUME Timely, Placed, MasterInv, Same, Access("prime", Rd("DATA"), "idle")
  PROVE  MasterInv'
<1> USE DEF MasterInv
<1> DEFINE op == Rd("DATA")
<1>1. op.kind = "rd" /\ op.reg = "DATA"
  BY DEF Rd
<1>2. pc = "prime" /\ pc' = "idle" /\ lag' = 0 /\ Clk(bus, op) /\ UNCHANGED busVars
  BY DEF Access
<1>3. ArmInv' /\ BusInv'
  BY ArmPrime DEF Prime
<1>4. job = "read"
  BY <1>2 DEF TypeInv
<1> HIDE DEF op
<1> USE DEF DmaOn, DmaBus, DmaSteps, Idle, Unmoved, VectorOut
<1>8. /\ MachineInv' /\ SlaveInv' /\ SsynInv' /\ addr_out' = addr_out /\ ~Done' /\ ustate_m' = {}
      /\ UNCHANGED <<slave_ssyn, memory, took>> /\ ~slave_ssyn
      /\ bus_data_hold' = bus_data_hold
  BY <1>1, <1>2, <1>3, <1>4, Arm DEF Same
<1>9. UNCHANGED <<job, addr, data, words>> /\ Moved' = Moved
  BY DEF Same, Moved
<1>10. TypeInv' /\ BufferInv'
  BY <1>2, <1>4, <1>8, <1>9 DEF TypeInv, BufferInv
<1>11. WordInv'
  BY <1>2, <1>4, <1>8, <1>9 DEF WordInv, MSin
<1> QED
  BY <1>3, <1>8, <1>10, <1>11

LEMMA KeepSample ==
  ASSUME Timely, Placed, MasterInv, NextWord,
         Access("sample", Rd("DATA"), "idle2"), words' = Append(words, bus_data_hold)
  PROVE  MasterInv'
<1> USE DEF MasterInv
<1> DEFINE op == Rd("DATA")
<1>1. op.kind = "rd" /\ op.reg = "DATA"
  BY DEF Rd
<1>2. pc = "sample" /\ pc' = "idle2" /\ lag' = 0 /\ Clk(bus, op) /\ UNCHANGED busVars
  BY DEF Access
<1>3. ArmInv' /\ BusInv'
  BY ArmMoveWord DEF MoveWord
<1>4. job = "read" /\ job' = job
  BY <1>2 DEF TypeInv, NextWord
<1> HIDE DEF op
<1> USE DEF DmaOn, DmaBus, DmaSteps, Idle, Unmoved, VectorOut
<1>5. /\ MachineInv' /\ SlaveInv' /\ SsynInv' /\ addr_out' = addr_out /\ ~Done' /\ ustate_m' = {}
      /\ UNCHANGED <<slave_ssyn, memory, took>> /\ ~slave_ssyn
      /\ bus_data_hold' = bus_data_hold
  BY <1>1, <1>2, <1>3, <1>4, Arm
<1>6. /\ Moved \in 0 .. Words - 1 /\ Moved' = Moved + 1 /\ Words \in Nat
      /\ addr' = Start + 2 * Moved' /\ addr' \in Address /\ addr' = addr + 2
      /\ data' \in Seq(Word \cup {Nothing}) /\ Len(data') \in 0 .. Words
  BY <1>2, Advance DEF NextWord
<1>7. /\ words \in Seq(Word) /\ Len(words) = Moved /\ bus_data_hold = memory[addr] /\ bus_data_hold \in Word
      /\ addr = Start + 2 * Moved
      /\ \A i \in 1 .. Moved : words[i] = memory[Start + 2 * (i - 1)]
  BY <1>2, <1>4 DEF BufferInv, TypeInv, WordInv
<1>8. /\ words' \in Seq(Word) /\ Len(words') = Moved + 1
      /\ \A i \in 1 .. Moved + 1 : words'[i] = IF i <= Moved THEN words[i] ELSE bus_data_hold
  BY <1>7, AppendProperties
<1>9. \A i \in 1 .. Moved' : words'[i] = memory[Start + 2 * (i - 1)]
  <2> SUFFICES ASSUME NEW i \in 1 .. Moved + 1 PROVE words'[i] = memory[Start + 2 * (i - 1)]
    BY <1>6
  <2>1. CASE i <= Moved
    <3>1. i \in 1 .. Moved
      BY <1>6, <2>1
    <3> QED
      BY <3>1, <2>1, <1>7, <1>8
  <2>2. CASE ~(i <= Moved)
    <3>1. i - 1 = Moved
      BY <1>6, <2>2
    <3> QED
      BY <3>1, <2>2, <1>7, <1>8
  <2> QED
    BY <2>1, <2>2
<1>10. BufferInv'
  <2> HIDE DEF DmaOn, DmaBus, DmaSteps, Idle, VectorOut
  <2>1. pc' \notin Unmoved /\ pc' # "npg_low" /\ job' # "write" /\ Len(words') = Moved'
    BY <1>2, <1>4, <1>6, <1>8 DEF DmaAsks, DmaWaits
  <2>2. \A i \in 1 .. Moved' : words'[i] = memory'[Start + 2 * (i - 1)]
    BY <1>5, <1>9
  <2> QED
    BY <1>6, <2>1, <2>2 DEF BufferInv
<1>11. TypeInv'
  BY <1>2, <1>4, <1>5, <1>6, <1>8 DEF TypeInv
<1>12. WordInv'
  BY <1>2, <1>4, <1>5, <1>6 DEF WordInv
<1> QED
  BY <1>3, <1>5, <1>10, <1>11, <1>12

\* A wait for MS0 ends when the cycle has been run, and not before it.
LEMMA Waited ==
  ASSUME Timely, MasterInv, pc \in Idle, MS0, lag = ClocksPerAccess
  PROVE  Done
<1>1. ~Armed /\ ~Running
  BY MasterAssumption DEF Timely, Armed, Running, MS0
<1> QED
  BY <1>1 DEF MasterInv, MachineInv

LEMMA KeepIdle ==
  ASSUME Timely, Placed, MasterInv, Wait("idle", MS0, IF job = "write" THEN "pass_on" ELSE "sample"),
         IF job = "write" THEN NextWord /\ UNCHANGED words ELSE Same
  PROVE  MasterInv'
<1> USE DEF MasterInv
<1>1. /\ pc = "idle" /\ MS0 /\ lag = ClocksPerAccess /\ UNCHANGED busVars
      /\ pc' = IF job = "write" THEN "pass_on" ELSE "sample"
  BY DEF Wait, Access
<1>2. Done
  BY <1>1, Waited DEF Idle
<1>3. ArmInv' /\ BusInv'
  BY ArmMoveWord DEF MoveWord
<1> USE DEF DmaOn, DmaBus, DmaSteps, Idle, Unmoved, VectorOut
<1>4. CASE job # "write"
  <2>1. job = "read"
    BY <1>1, <1>4 DEF TypeInv
  <2>2. Kept /\ Clocked /\ Along
    BY <1>1, <1>4, <2>1, AccessClock DEF Kept, Same, Along
  <2> QED
    BY <1>2, <1>3, <2>2, Quiet
<1>5. CASE job = "write"
  <2>1. PICK op : op.reg \notin {"DATA", "WR_ADDR_HI", "WR_ADDR_LO"} /\ Clk(bus, op)
    BY AccessClock DEF Clocked
  <2>2. /\ Done' /\ {pending_dma_write', pending_dma_read'} \subseteq BOOLEAN
        /\ bus_data_hold' = bus_data_hold /\ addr_out' = addr_out
    BY <1>1, <1>2, <2>1, DoneClock
  <2>3. ustate_s' = {} /\ {msyn', bbsy', ssyn'} \subseteq BOOLEAN
    <3>1. phase = "off"
      BY <1>1 DEF BusInv, Owner
    <3> QED
      BY <1>1, <2>1, <3>1, SlaveClock
  <2>4. UNCHANGED <<phase, target, slave_ssyn, memory, took, words, job>>
    BY <1>1, <1>5 DEF busVars, NextWord
  <2>5. MachineInv' /\ SlaveInv' /\ SsynInv'
    BY <1>1, <1>2, <1>5, <2>2, <2>3, <2>4
       DEF MachineInv, SlaveInv, SsynInv, Done, SS, SS0, MS, MSin, BusInv, Owner
  <2>6. /\ Moved \in 0 .. Words - 1 /\ Moved' = Moved + 1 /\ Words \in Nat
        /\ addr' = Start + 2 * Moved' /\ addr' \in Address
        /\ data' \in Seq(Word \cup {Nothing}) /\ Len(data') \in 0 .. Words /\ Len(data') = Len(data) - 1
        /\ \A i \in 1 .. Len(data') : data'[i] = data[i + 1]
    BY <1>1, <1>5, Advance
  <2>7. /\ addr = Start + 2 * Moved /\ memory[addr] = words[Moved + 1] /\ Len(words) = Words
        /\ \A i \in 1 .. Len(data) : data[i] = words[Moved + i]
        /\ \A i \in 1 .. Moved : words[i] = memory[Start + 2 * (i - 1)]
    BY <1>1, <1>2, <1>5 DEF BufferInv, WordInv
  <2>8. \A i \in 1 .. Len(data') : data'[i] = words[Moved' + i]
    <3> SUFFICES ASSUME NEW i \in 1 .. Len(data') PROVE data'[i] = words[Moved' + i]
      OBVIOUS
    <3>0. data \in Seq(Word \cup {Nothing}) /\ Len(data) \in Nat
      BY LenProperties DEF TypeInv
    <3>1. i + 1 \in 1 .. Len(data) /\ Moved + (i + 1) = Moved' + i
      BY <2>6, <3>0
    <3> QED
      BY <3>1, <2>6, <2>7
  <2>9. \A i \in 1 .. Moved' : words[i] = memory[Start + 2 * (i - 1)]
    <3> SUFFICES ASSUME NEW i \in 1 .. Moved + 1 PROVE words[i] = memory[Start + 2 * (i - 1)]
      BY <2>6
    <3>1. CASE i \in 1 .. Moved
      BY <3>1, <2>7
    <3>2. CASE i = Moved + 1
      <4>1. i - 1 = Moved
        BY <3>2, <2>6
      <4> QED
        BY <3>2, <4>1, <2>7
    <3> QED
      BY <3>1, <3>2, <2>6
  <2>10. BufferInv'
    <3> HIDE DEF DmaOn, DmaBus, DmaSteps, Idle, VectorOut
    <3>1. pc' \notin Unmoved /\ pc' # "npg_low" /\ job' = "write" /\ Len(words') = Words
      BY <1>1, <1>5, <2>4, <2>7 DEF DmaAsks, DmaWaits
    <3>2. \A i \in 1 .. Moved' : words'[i] = memory'[Start + 2 * (i - 1)]
      BY <2>4, <2>9
    <3>3. \A i \in 1 .. Len(data') : data'[i] = words'[Moved' + i]
      BY <2>4, <2>8
    <3> QED
      BY <2>6, <3>1, <3>2, <3>3 DEF BufferInv
  <2>11. TypeInv' /\ WordInv'
    BY <1>1, <1>5, <2>2, <2>4, <2>6 DEF TypeInv, WordInv
  <2> QED
    BY <1>3, <2>5, <2>10, <2>11
<1> QED
  BY <1>4, <1>5

LEMMA KeepIdle2 ==
  ASSUME Timely, Placed, MasterInv, Wait("idle2", MS0, "pass_on"), Same
  PROVE  MasterInv'
<1>1. /\ pc = "idle2" /\ MS0 /\ lag = ClocksPerAccess /\ UNCHANGED busVars /\ pc' = "pass_on"
  BY DEF Wait, Access
<1>2. Done
  BY <1>1, Waited DEF Idle
<1>3. ArmInv' /\ BusInv'
  BY ArmMoveWord DEF MoveWord, MasterInv
<1>4. Clocked
  BY DEF Clocked, Wait, Access, Rd
<1>5. Kept /\ Along
  BY <1>1 DEF Kept, Same, Along, DmaOn, DmaBus, DmaSteps, Idle, Unmoved, VectorOut, DmaAsks, DmaWaits
<1> QED
  BY <1>2, <1>3, <1>4, <1>5, Quiet

\* The vector goes to the same register, outside DMA mode.
LEMMA KeepVector ==
  ASSUME Timely, Placed, MasterInv, Same, Access("vector", Wr("DATA", Vector), "data_dir")
  PROVE  MasterInv'
<1> USE DEF MasterInv
<1> DEFINE op == Wr("DATA", Vector)
<1>1. op.kind = "wr" /\ op.reg = "DATA" /\ op.val = Vector
  BY DEF Wr
<1>2. pc = "vector" /\ pc' = "data_dir" /\ Clk(bus, op) /\ UNCHANGED busVars
  BY DEF Access
<1>3. ArmInv' /\ BusInv'
  BY ArmIntrVector DEF IntrVector
<1> HIDE DEF op
<1> USE DEF DmaOn, DmaBus, DmaSteps, Idle, Unmoved, VectorOut, DmaAsks, DmaWaits
<1>4. Done /\ ~dma_mode
  BY <1>2 DEF MachineInv, ArmInv
<1>5. /\ ustate_m' = {} /\ ~pending_dma_write' /\ ~pending_dma_read'
      /\ pending_dma_write' \in BOOLEAN /\ pending_dma_read' \in BOOLEAN
  <2>1. /\ ustate_m' = MasterNext(bus)
        /\ pending_dma_write' = PendingNext(pending_dma_write, "wr", op)
        /\ pending_dma_read' = PendingNext(pending_dma_read, "rd", op)
    BY <1>2 DEF Clk
  <2> QED
    BY <1>1, <1>4, <2>1 DEF MasterNext, PendingNext, Done, ArmInv
<1>6. bus_data_hold' = Vector
  <2>1. ~data_strobe(bus)
    BY <1>4, Wires DEF data_strobe, Done, MS
  <2> QED
    BY <1>1, <1>2, <2>1 DEF Clk, DataNext, Wrote
<1>7. addr_out' \in Address
  <2>1. target \in Address
    BY MasterAssumption DEF BusInv
  <2> QED
    BY <1>1, <1>2, <1>4, <2>1, Wires DEF Clk, AddrNext, addr_incr, Done, MS, MSin, TypeInv
<1>8. /\ ustate_s' = {} \/ \E k \in 1 .. 3 : ustate_s' = {k}
      /\ 1 \in ustate_s' \/ 2 \in ustate_s' => phase \in {"addr", "msyn"} /\ target = Base
      /\ phase = "drop" /\ target = Base /\ 3 \notin ustate_s' => ~msyn'
      /\ {msyn', bbsy', ssyn'} \subseteq BOOLEAN
  BY <1>2, SlaveClock
<1>9. UNCHANGED <<phase, target, slave_ssyn, memory, took, job, addr, data, words>>
  BY <1>2 DEF busVars, Same
<1>10. MachineInv' /\ SlaveInv' /\ SsynInv'
  BY <1>2, <1>5, <1>8, <1>9 DEF MachineInv, SlaveInv, SsynInv, Done, SS, SS0, MS, MSin
<1>11. TypeInv' /\ BufferInv' /\ WordInv'
  BY <1>2, <1>6, <1>7, <1>9, MasterAssumption DEF TypeInv, BufferInv, WordInv
<1> QED
  BY <1>3, <1>10, <1>11

-----------------------------------------------------------------------------
(* A clock without an access of the main loop, and the steps of others.    *)
LEMMA KeepSensed ==
  ASSUME Timely, Placed, MasterInv, Sensed
  PROVE  MasterInv'
<1> USE DEF MasterInv
<1>1. ArmInv' /\ BusInv'
  BY SensedArm
<1>2. /\ \/ Clk(bus, NoOp) /\ lag' = IF lag < ClocksPerAccess THEN lag + 1 ELSE lag
         \/ Clk(bus, Wr("CPU_RELEASE", Zero)) /\ lag' = 0 /\ SS(1)
      /\ UNCHANGED <<pc, job, addr, data, words, busVars>>
  BY SensedClock
<1>3. CASE Done
  <2>1. Clocked
    BY <1>2 DEF Clocked, NoOp, Wr
  <2>2. Kept /\ Along
    BY <1>2 DEF Kept, Along
  <2> QED
    BY <1>1, <1>3, <2>1, <2>2, Quiet
<1>4. CASE ~Done
  <2> DEFINE op == NoOp
  <2>1. op.reg # "DATA" /\ op.kind # "wr"
    BY DEF NoOp
  <2>2. pc \in Idle /\ pc \in DmaBus /\ Pending /\ (Armed \/ Running)
    BY <1>4 DEF MachineInv, Armed, Running, Idle, DmaBus, DmaOn
  <2>3. ustate_s = {} /\ phase = "off"
    BY <2>2 DEF SlaveInv, SS0, BusInv, Owner
  <2>4. Clk(bus, op)
    BY <1>2, <2>3 DEF SS
  <2> HIDE DEF op
  <2>5. /\ ssyn' <=> slave_ssyn
        /\ ustate_m = {} => ustate_m' = {1}
        /\ \A k \in {1, 2, 3} : ustate_m = {k} => ustate_m' = {k + 1}
        /\ ustate_m = {4} => ustate_m' = IF ssyn THEN {5} ELSE {4}
        /\ ustate_m = {5} => ustate_m' = IF ssyn THEN {5} ELSE {6}
        /\ ustate_m = {6} => Done'
        /\ pending_dma_write' \in BOOLEAN /\ pending_dma_read' \in BOOLEAN
        /\ ~MS(6) => /\ pending_dma_write' <=> pending_dma_write
                     /\ pending_dma_read' <=> pending_dma_read
        /\ addr_out' = IF MS(6) THEN (addr_out + 2) % AddrSpace ELSE addr_out
        /\ bus_data_hold' = IF MS(4) /\ pending_dma_read THEN BUS_DATA(bus) ELSE bus_data_hold
    BY <1>2, <2>1, <2>2, <2>4, CycleClock
  <2>6. /\ ustate_s' = {} /\ {msyn', bbsy', ssyn'} \subseteq BOOLEAN
    BY <1>2, <2>3, <2>4, SlaveClock
  <2>7. UNCHANGED <<phase, target, slave_ssyn, memory, took, job, addr, data, words, pc>> /\ Moved' = Moved
    BY <1>2 DEF busVars, Moved
  <2>8. ustate_m = {} \/ ustate_m = {1} \/ ustate_m = {2} \/ ustate_m = {3} \/ ustate_m = {4}
          \/ ustate_m = {5} \/ ustate_m = {6}
    BY <2>2 DEF Armed, Running
  <2>9. ustate_m = {6} \/ (\E k \in 1 .. 6 : ustate_m' = {k})
    BY <2>5, <2>8
  <2>10. MachineInv'
    <3>1. CASE ustate_m = {6}
      BY <2>2, <2>5, <2>6, <2>7, <3>1 DEF MachineInv
    <3>2. CASE ustate_m # {6}
      <4>1. ~MS(6)
        BY <2>8, <3>2 DEF MS
      <4>2. Pending'
        BY <2>2, <2>5, <2>7, <4>1 DEF Pending
      <4>3. Running'
        BY <2>9, <3>2, <4>2 DEF Running
      <4> QED
        BY <2>2, <2>5, <2>6, <2>7, <4>3 DEF MachineInv
    <3> QED
      BY <3>1, <3>2
  <2>11. SlaveInv'
    BY <2>3, <2>6, <2>7 DEF SlaveInv, SS, SS0
  <2>12. SsynInv'
    BY <2>2, <2>5, <2>7, <2>8 DEF SsynInv, MS, MSin, Done
  <2> USE DEF DmaOn, DmaBus, DmaSteps, Idle, Unmoved, VectorOut
  <2>13. /\ addr_out = addr /\ addr \in Memory /\ (addr + 2) % AddrSpace \in Address
         /\ pc = "idle" => (addr + 2) % AddrSpace = addr + 2
    <3>1. addr_out = addr /\ pc \in DmaSteps
      BY <1>4, <2>2 DEF WordInv
    <3>2. /\ Words \in Nat /\ Moved \in 0 .. Words /\ addr = Start + 2 * Moved /\ addr \in Memory
          /\ Start \in Nat /\ addr \in Nat /\ (data # <<>> => Moved + 1 \in 1 .. Words)
      BY <3>1, Remaining
    <3>3. AddrSpace \in Nat \ {0} /\ Memory \subseteq Address
      BY AddrAssumption, MasterAssumption
    <3>4. (addr + 2) % AddrSpace \in Address
      BY <3>2, <3>3, DivMod DEF Address
    <3>5. ASSUME pc = "idle" PROVE (addr + 2) % AddrSpace = addr + 2
      <4>1. data # <<>>
        BY <3>1, <3>5 DEF BufferInv
      <4>2. Moved + 1 \in 0 .. Words /\ addr + 2 = Start + 2 * (Moved + 1)
        BY <3>2, <4>1
      <4>3. addr + 2 \in Address
        BY <3>3, <4>2 DEF Placed
      <4> HIDE DEF Moved
      <4> QED
        BY <3>2, <3>3, <4>3 DEF Address
    <3> QED
      BY <3>1, <3>2, <3>4, <3>5
  <2>14. MS(4) /\ pending_dma_read => bus_data_hold' = IF slave_ssyn THEN memory[addr] ELSE Zero
    <3>1. pending_dma_read => job = "read"
      BY <2>2 DEF Pending
    <3> QED
      BY <2>2, <2>5, <2>13, <3>1, DataRead
  <2>15. bus_data_hold' \in Word
    BY <2>5, <2>13, <2>14, ZeroAssumption DEF TypeInv
  <2>16. TypeInv'
    BY <2>2, <2>5, <2>7, <2>13, <2>15 DEF TypeInv
  <2>17. BufferInv'
    BY <2>7 DEF BufferInv
  <2>18. Done' <=> ustate_m = {6}
    BY <2>5, <2>8, <2>9 DEF Done
  <2>19. /\ MSin({5, 6})' \/ Done' => MSin({5, 6}) \/ (MS(4) /\ slave_ssyn)
         /\ MSin({5, 6}) => ~MS(4)
    BY <2>5, <2>8, <2>18 DEF MSin, MS, SsynInv
  <2>20. addr_out' = IF Done' THEN (addr + 2) % AddrSpace ELSE addr
    BY <2>5, <2>8, <2>13, <2>18 DEF MS
  <2>21. ~Done
    BY <1>4
  <2>22. WordInv'
    <3>1. pc \in Idle
      BY <2>2
    <3>2. pc = "idle" /\ Done' => addr_out' = addr + 2
      BY <2>13, <2>20
    <3>3. ASSUME pc = "idle", job = "write"
          PROVE  /\ bus_data_hold' = words[Moved + 1]
                 /\ (slave_ssyn \/ MSin({5, 6})' \/ Done') => memory[addr] = words[Moved + 1]
      <4>1. ~pending_dma_read
        BY <2>2, <3>3 DEF Pending
      <4> QED
        BY <2>5, <2>19, <3>3, <4>1 DEF WordInv
    <3>4. ASSUME pc = "idle", job = "read", MSin({5, 6})' \/ Done'
          PROVE  bus_data_hold' = memory[addr]
      <4>1. pending_dma_read
        BY <2>2, <3>4 DEF Pending
      <4>2. CASE MSin({5, 6})
        BY <2>5, <2>19, <3>4, <4>2 DEF WordInv
      <4>3. CASE MS(4) /\ slave_ssyn
        BY <2>14, <4>1, <4>3
      <4> QED
        BY <2>19, <3>4, <4>2, <4>3
    <3> QED
      BY <2>7, <2>20, <3>1, <3>2, <3>3, <3>4 DEF WordInv
  <2> QED
    BY <1>1, <2>10, <2>11, <2>12, <2>16, <2>17, <2>22
<1> QED
  BY <1>3, <1>4

LEMMA KeepCall ==
  ASSUME Timely, Placed, MasterInv, Call
  PROVE  MasterInv'
<1> USE DEF MasterInv
<1>1. ArmInv' /\ BusInv'
  BY CallArm
<1>2. /\ UNCHANGED <<cpldVars, lag, npg, bg5, phase, target, slave_ssyn, memory, dev>>
      /\ pc = "off" /\ addr' = Start
  BY DEF Call
<1>3. \/ job' = "write" /\ data' \in Buffers /\ words' = data' /\ pc' = "npg_high"
      \/ job' = "read" /\ data' = [i \in 1 .. Words |-> Nothing] /\ words' = <<>> /\ pc' = "npg_high"
      \/ job' = "intr" /\ data' = <<>> /\ words' = <<>> /\ pc' = "bg_high"
  BY DEF Call
<1> USE DEF DmaOn, DmaBus, DmaSteps, DmaAsks, DmaWaits, Idle, Unmoved, VectorOut
<1>4. MachineInv' /\ SlaveInv' /\ SsynInv'
  BY <1>2, <1>3 DEF cpldVars, MachineInv, SlaveInv, SsynInv, Done, SS, SS0, MS, MSin
<1>5. Words \in Nat \ {0} /\ Start \in Address /\ Start \in Nat
  BY MasterAssumption DEF Address
<1>6. pc' = "npg_high" => /\ data' \in Seq(Word \cup {Nothing}) /\ Len(data') = Words /\ data' # <<>>
                          /\ job' = "write" => words' = data' /\ data' \in Seq(Word)
  <2>1. ASSUME data' \in Buffers PROVE data' \in Seq(Word) /\ Len(data') = Words /\ data' # <<>>
    <3>1. data' \in [1 .. Words -> Word]
      BY <2>1, MasterAssumption
    <3>2. data' \in Seq(Word) /\ Len(data') = Words
      BY <3>1, <1>5, IsASeq
    <3> QED
      BY <3>2, <1>5, EmptySeq
  <2>2. ASSUME data' = [i \in 1 .. Words |-> Nothing]
        PROVE  data' \in Seq(Word \cup {Nothing}) /\ Len(data') = Words /\ data' # <<>>
    <3>1. data' \in [1 .. Words -> Word \cup {Nothing}]
      BY <2>2
    <3>2. data' \in Seq(Word \cup {Nothing}) /\ Len(data') = Words
      BY <3>1, <1>5, IsASeq
    <3> QED
      BY <3>2, <1>5, EmptySeq
  <2>3. Seq(Word) \subseteq Seq(Word \cup {Nothing})
    <3> SUFFICES ASSUME NEW s \in Seq(Word) PROVE s \in Seq(Word \cup {Nothing})
      OBVIOUS
    <3>1. Len(s) \in Nat /\ s \in [1 .. Len(s) -> Word]
      BY LenProperties
    <3>2. s \in [1 .. Len(s) -> Word \cup {Nothing}]
      BY <3>1
    <3> QED
      BY <3>1, <3>2, IsASeq
  <2> QED
    BY <1>3, <2>1, <2>2, <2>3
<1>7. pc' = "npg_high" => Moved' = 0
  <2>1. ASSUME pc' = "npg_high" PROVE Words - Len(data') = 0
    BY <2>1, <1>5, <1>6
  <2> QED
    BY <2>1 DEF Moved
<1>8. <<>> \in Seq(Word) /\ <<>> \in Seq(Word \cup {Nothing}) /\ Len(<<>>) = 0
  BY EmptySeq
<1>9. UNCHANGED <<memory, addr_out, bus_data_hold>>
  BY <1>2 DEF cpldVars
<1>10. TypeInv'
  <2>1. addr' \in Address /\ UNCHANGED <<memory, addr_out, bus_data_hold>>
    BY <1>2, <1>5, <1>9
  <2>2. /\ data' \in Seq(Word \cup {Nothing}) /\ words' \in Seq(Word)
        /\ Len(data') \in 0 .. Words /\ Len(words') \in 0 .. Words
    <3>1. CASE job' = "write"
      BY <1>3, <1>5, <1>6, <3>1
    <3>2. CASE job' = "read"
      <4>1. words' = <<>> /\ pc' = "npg_high"
        BY <1>3, <3>2
      <4> QED
        BY <4>1, <1>5, <1>6, <1>8
    <3>3. CASE job' = "intr"
      <4>1. words' = <<>> /\ data' = <<>>
        BY <1>3, <3>3
      <4> QED
        BY <4>1, <1>5, <1>8
    <3> QED
      BY <1>3, <3>1, <3>2, <3>3
  <2>3. job' \in {"write", "read", "intr"} /\ (job' = "intr" => pc' = "bg_high")
    BY <1>3
  <2>4. pc' = "npg_high" \/ pc' = "bg_high"
    BY <1>3
  <2> QED
    BY <2>1, <2>2, <2>3, <2>4 DEF TypeInv
<1>11. BufferInv'
  <2>1. CASE pc' = "bg_high"
    BY <2>1 DEF BufferInv
  <2>2. CASE pc' = "npg_high"
    <3>1. addr' = Start + 2 * Moved' /\ Moved' = 0
      BY <1>2, <1>5, <1>7, <2>2
    <3>2. job' = "write" => \A i \in 1 .. Len(data') : data'[i] = words'[Moved' + i]
      BY <1>6, <1>7, <2>2, LenProperties
    <3>3. job' = "read" => Len(words') = Moved'
      BY <1>3, <1>7, <1>8, <2>2
    <3> QED
      BY <1>6, <2>2, <3>1, <3>2, <3>3 DEF BufferInv
  <2> QED
    BY <1>3, <2>1, <2>2
<1>12. WordInv'
  BY <1>3 DEF WordInv
<1> QED
  BY <1>1, <1>4, <1>10, <1>11, <1>12

\* What memory takes is the word whose turn it is, at its address.
LEMMA Taken ==
  ASSUME Placed, MasterInv, Slave
  PROVE  /\ \/ memory' = memory
            \/ /\ pc = "idle" /\ job = "write" /\ addr_out = addr /\ addr \in Memory
               /\ memory' = [memory EXCEPT ![addr] = words[Moved + 1]]
         /\ slave_ssyn' \in BOOLEAN
         /\ pc = "idle" /\ job = "write" /\ slave_ssyn' /\ ~slave_ssyn =>
              memory' = [memory EXCEPT ![addr] = words[Moved + 1]]
         /\ \/ took' = took /\ (slave_ssyn' /\ ~slave_ssyn => MSYN_IN(bus))
               /\ (slave_ssyn /\ ~slave_ssyn' => ~INTR_IN)
            \/ took' = Append(took, Vector) /\ INTR_IN /\ ~slave_ssyn /\ slave_ssyn'
         /\ slave_ssyn' /\ ~slave_ssyn =>
              \/ phase = "msyn" /\ target \in Memory
              \/ MSin({3, 4})
              \/ phase = "off" /\ pc \notin DmaBus
         /\ slave_ssyn /\ ~slave_ssyn' => ~MSin({3, 4})
<1> USE DEF MasterInv
<1>1. INTR_IN => pc \in {"isack_off", "ack", "drop"}
  BY DEF INTR_IN, ArmInv
<1>2. pc \in {"isack_off", "ack", "drop"} => pc \notin DmaBus /\ pc \in Owner /\ pc \notin Idle /\ pc \in VectorOut \ {"data_dir"}
  BY DEF DmaBus, DmaOn, Owner, IntrBus, VectorOut, Idle
<1>3. INTR_IN => phase = "off" /\ ustate_m = {} /\ pc \notin DmaBus /\ BUS_DATA(bus) = Vector
  <2>1. INTR_IN => phase = "off" /\ ustate_m = {} /\ pc \notin DmaBus
    BY <1>1, <1>2, Wires DEF BusInv
  <2>2. INTR_IN => BUS_DATA_DIR(bus) /\ bus_data_hold = Vector
    BY <1>1, <1>2 DEF BUS_DATA_DIR, ArmInv, TypeInv
  <2> QED
    BY <2>1, <2>2 DEF BUS_DATA
<1>4. MSin({3, 4}) => pc \in Idle /\ Running /\ phase = "off" /\ BUS_ADDR(bus) = addr_out /\ addr_out = addr /\ addr \in Memory
  <2> SUFFICES ASSUME MSin({3, 4})
               PROVE  pc \in Idle /\ Running /\ phase = "off" /\ BUS_ADDR(bus) = addr_out /\ addr_out = addr /\ addr \in Memory
    OBVIOUS
  <2>1. pc \in Idle /\ ~Done
    BY DEF MachineInv, Done, MSin
  <2>2. Running
    BY <2>1 DEF MachineInv, Armed, MSin
  <2>3. phase = "off" /\ pc \in DmaSteps
    BY <2>1 DEF BusInv, Owner, Idle, DmaBus, DmaOn, DmaSteps
  <2>4. MSin(1 .. 5)
    BY DEF MSin
  <2>5. BUS_ADDR(bus) = addr_out
    BY <2>4, Wires
  <2>6. addr_out = addr /\ addr \in Memory
    BY <2>1, <2>3, Remaining DEF WordInv
  <2> QED
    BY <2>1, <2>2, <2>3, <2>5, <2>6
<1>5. C1_IN(bus) /\ MSYN_IN(bus) =>
        /\ MSin({3, 4}) /\ pc = "idle" /\ job = "write"
        /\ BUS_DATA(bus) = words[Moved + 1]
  <2> SUFFICES ASSUME C1_IN(bus), MSYN_IN(bus)
               PROVE  /\ MSin({3, 4}) /\ pc = "idle" /\ job = "write"
                      /\ BUS_DATA(bus) = words[Moved + 1]
    OBVIOUS
  <2>1. MSin(1 .. 4) /\ pending_dma_write
    BY Wires
  <2>2. MSin({3, 4})
    BY <2>1, Wires DEF MSin
  <2>3. pc = "idle" /\ job = "write"
    BY <1>4, <2>1, <2>2 DEF Running, Pending, TypeInv, Idle
  <2>4. BUS_DATA(bus) = bus_data_hold
    BY <2>1 DEF BUS_DATA, BUS_DATA_DIR, data_assert, c1_assert
  <2> QED
    BY <2>2, <2>3, <2>4 DEF WordInv
<1>6. pc = "idle" /\ job = "write" /\ MSYN_IN(bus) => C1_IN(bus)
  <2> SUFFICES ASSUME pc = "idle", job = "write", MSYN_IN(bus) PROVE C1_IN(bus)
    OBVIOUS
  <2>1. phase = "off"
    BY DEF BusInv, Owner, DmaBus, DmaOn
  <2>2. MSin({3, 4})
    BY <2>1, Wires
  <2>3. pending_dma_write /\ MSin(1 .. 4)
    BY <1>4, <2>2 DEF Running, Pending, MSin
  <2> QED
    BY <2>3, Wires
<1>7. MSYN_IN(bus) <=> phase = "msyn" \/ MSin({3, 4})
  BY Wires
<1>8. phase = "msyn" => BUS_ADDR(bus) = target
  BY Wires DEF MSin
<1>9. pc = "idle" => ~INTR_IN
  BY <1>1
<1>10. CASE /\ MSYN_IN(bus) /\ ~slave_ssyn /\ BUS_ADDR(bus) \in Memory /\ slave_ssyn' = TRUE
            /\ memory' = IF C1_IN(bus) THEN [memory EXCEPT ![BUS_ADDR(bus)] = BUS_DATA(bus)] ELSE memory
            /\ UNCHANGED took
  <2>0. slave_ssyn' /\ slave_ssyn' \in BOOLEAN /\ ~slave_ssyn /\ took' = took /\ MSYN_IN(bus)
    BY <1>10
  <2>1. CASE C1_IN(bus)
    <3>1. /\ MSin({3, 4}) /\ pc = "idle" /\ job = "write"
          /\ memory' = [memory EXCEPT ![addr] = words[Moved + 1]]
          /\ addr_out = addr /\ addr \in Memory
      BY <1>4, <1>5, <1>10, <2>1
    <3> QED
      BY <2>0, <3>1
  <2>2. CASE ~C1_IN(bus)
    <3>1. memory' = memory /\ ~(pc = "idle" /\ job = "write")
      BY <1>6, <1>10, <2>2
    <3>2. (phase = "msyn" /\ target \in Memory) \/ MSin({3, 4})
      BY <1>7, <1>8, <1>10
    <3> QED
      BY <2>0, <3>1, <3>2
  <2> QED
    BY <2>1, <2>2
<1>11. CASE INTR_IN /\ ~slave_ssyn /\ slave_ssyn' = TRUE /\ took' = Append(took, BUS_DATA(bus)) /\ UNCHANGED memory
  BY <1>3, <1>9, <1>11
<1>12. CASE slave_ssyn /\ ~MSYN_IN(bus) /\ ~INTR_IN /\ slave_ssyn' = FALSE /\ UNCHANGED <<memory, took>>
  BY <1>7, <1>12
<1> QED
  BY <1>10, <1>11, <1>12 DEF Slave

LEMMA KeepIntrVector ==
  ASSUME Timely, Placed, MasterInv, IntrVector, pc # "vector"
  PROVE  MasterInv'
<1>1. Always /\ Kept /\ (UNCHANGED cpldVars \/ Clocked)
  <2>1. ~Access("vector", Wr("DATA", Vector), "data_dir")
    BY DEF Access
  <2> QED
    BY <2>1, AccessClock, IntrVectorSteps DEF IntrVector, Same, Kept, Always
<1>2. Done /\ Along
  <2> USE DEF Pins, Pass, Mode, Goes, Idle, DmaOn, DmaBus, DmaAsks, DmaWaits, DmaSteps, VectorOut, Unmoved
  <2>1. Done
    BY IntrVectorSteps DEF MasterInv, MachineInv
  <2>2. Along
    BY IntrVectorSteps DEF Along
  <2> QED
    BY <2>1, <2>2
<1>3. ArmInv' /\ BusInv'
  BY ArmIntrVector DEF MasterInv
<1> QED
  BY <1>1, <1>2, <1>3, Quiet

LEMMA KeepSlave ==
  ASSUME Placed, MasterInv, Slave
  PROVE  MasterInv'
<1> USE DEF MasterInv
<1>1. ArmInv' /\ BusInv'
  BY OthersBus DEF Others
<1>2. UNCHANGED cpldVars /\ UNCHANGED armVars /\ UNCHANGED <<phase, target, dev>> /\ Moved' = Moved
  BY DEF Slave, BusOnly, armVars, Moved
<1>3. /\ \/ memory' = memory
         \/ /\ pc = "idle" /\ job = "write" /\ addr_out = addr /\ addr \in Memory
            /\ memory' = [memory EXCEPT ![addr] = words[Moved + 1]]
      /\ slave_ssyn' \in BOOLEAN
      /\ pc = "idle" /\ job = "write" /\ slave_ssyn' /\ ~slave_ssyn =>
           memory' = [memory EXCEPT ![addr] = words[Moved + 1]]
      /\ slave_ssyn' /\ ~slave_ssyn =>
           \/ phase = "msyn" /\ target \in Memory
           \/ MSin({3, 4})
           \/ phase = "off" /\ pc \notin DmaBus
      /\ slave_ssyn /\ ~slave_ssyn' => ~MSin({3, 4})
  BY Taken
<1>4. MachineInv'
  BY <1>2 DEF cpldVars, armVars, MachineInv, Done, Armed, Running, Pending
<1>5. MSin({3, 4}) => pc \in Idle /\ phase = "off" /\ Running
  BY DEF MachineInv, Done, Armed, MSin, BusInv, Owner, DmaBus, DmaOn, Idle
<1>6. pc \in DmaBus => phase = "off"
  BY DEF BusInv, Owner
<1>7. SlaveInv'
  <2>1. phase = "msyn" /\ target = Base => ~slave_ssyn'
    BY <1>3, <1>5 DEF SlaveInv, Placed, BusInv
  <2> QED
    BY <1>2, <2>1 DEF SlaveInv, SS, SS0, cpldVars, armVars
<1>8. SsynInv'
  <2>1. pc \in DmaBus /\ ~MSin({3, 4, 5}) => ~slave_ssyn'
    BY <1>3, <1>6 DEF SsynInv, MSin, BusInv
  <2>2. MS(4) /\ ssyn => slave_ssyn'
    BY <1>3 DEF SsynInv, MS, MSin, BusInv
  <2>3. MS(5) /\ ~ssyn => ~slave_ssyn'
    <3>1. MS(5) => pc \in Idle /\ ~MSin({3, 4})
      BY DEF MachineInv, Done, Armed, Running, MS, MSin
    <3>2. Idle \subseteq DmaBus
      BY DEF Idle, DmaBus, DmaOn
    <3> QED
      BY <1>3, <1>6, <3>1, <3>2 DEF SsynInv, BusInv
  <2> QED
    BY <1>2, <2>1, <2>2, <2>3 DEF SsynInv, MS, MSin, cpldVars, armVars
<1>9. CASE memory' = memory
  <2>1. TypeInv' /\ BufferInv'
    BY <1>2, <1>3, <1>9 DEF TypeInv, BufferInv, cpldVars, armVars
  <2>2. pc = "idle" /\ job = "write" /\ slave_ssyn' /\ ~slave_ssyn => memory[addr] = words[Moved + 1]
    <3> SUFFICES ASSUME pc = "idle", job = "write", slave_ssyn', ~slave_ssyn
                 PROVE  memory[addr] = words[Moved + 1]
      OBVIOUS
    <3>1. memory' = [memory EXCEPT ![addr] = words[Moved + 1]]
      BY <1>3
    <3>2. addr \in Memory
      BY Remaining DEF DmaSteps, DmaBus, DmaOn
    <3> QED
      BY <1>9, <3>1, <3>2 DEF TypeInv
  <2>3. WordInv'
    BY <1>2, <1>3, <1>9, <2>2 DEF WordInv, Done, MSin, cpldVars, armVars, BusInv
  <2> QED
    BY <1>1, <1>4, <1>7, <1>8, <2>1, <2>3
<1>10. CASE /\ pc = "idle" /\ job = "write" /\ addr_out = addr /\ addr \in Memory
            /\ memory' = [memory EXCEPT ![addr] = words[Moved + 1]]
  <2>1. pc \in DmaSteps /\ pc \in Unmoved
    BY <1>10 DEF DmaSteps, DmaBus, DmaOn, Unmoved
  <2>2. /\ Words \in Nat /\ Moved \in 0 .. Words /\ addr = Start + 2 * Moved /\ Start \in Nat
        /\ Moved + 1 \in 1 .. Words
    BY <2>1, Remaining DEF BufferInv
  <2>3. words[Moved + 1] \in Word
    <3>1. Len(words) = Words /\ words \in Seq(Word)
      BY <1>10, <2>1 DEF BufferInv, TypeInv
    <3> QED
      BY <2>2, <3>1, ElementOfSeq
  <2>4. memory' \in [Memory -> Word] /\ memory'[addr] = words[Moved + 1]
    BY <1>10, <2>3 DEF TypeInv
  <2>5. \A i \in 1 .. Moved : memory'[Start + 2 * (i - 1)] = memory[Start + 2 * (i - 1)]
    <3> SUFFICES ASSUME NEW i \in 1 .. Moved
                 PROVE  memory'[Start + 2 * (i - 1)] = memory[Start + 2 * (i - 1)]
      OBVIOUS
    <3>1. i - 1 \in 0 .. Words /\ Start + 2 * (i - 1) # addr
      BY <2>2
    <3>2. Start + 2 * (i - 1) \in Memory
      BY <3>1 DEF Placed
    <3> QED
      BY <1>10, <3>1, <3>2 DEF TypeInv
  <2>6. TypeInv'
    BY <1>2, <1>3, <2>4 DEF TypeInv, cpldVars, armVars
  <2>7. BufferInv'
    BY <1>2, <2>5 DEF BufferInv, armVars
  <2>8. WordInv'
    BY <1>2, <1>10, <2>4 DEF WordInv, Done, MSin, cpldVars, armVars
  <2> QED
    BY <1>1, <1>4, <1>7, <1>8, <2>6, <2>7, <2>8
<1> QED
  BY <1>3, <1>9, <1>10

LEMMA KeepOthers ==
  ASSUME Timely, Placed, MasterInv, Others
  PROVE  MasterInv'
<1> USE DEF MasterInv
<1>1. ArmInv' /\ BusInv'
  BY OthersBus
<1>2. CASE Slave
  BY <1>2, KeepSlave
<1>3. CASE GrantNpg \/ GrantBg5 \/ EndGrant \/ DevAsks \/ DevGoesOn
  <2>1. UNCHANGED cpldVars /\ UNCHANGED armVars /\ UNCHANGED <<phase, target, slave_ssyn, memory, took>>
        /\ Moved' = Moved
    BY <1>3 DEF GrantNpg, GrantBg5, EndGrant, DevAsks, DevGoesOn, BusOnly, armVars, Moved
  <2>2. MachineInv' /\ SlaveInv' /\ SsynInv'
    BY <2>1 DEF cpldVars, armVars, MachineInv, SlaveInv, SsynInv, Done, Armed, Running, Pending, SS, SS0, MS, MSin
  <2>3. TypeInv' /\ BufferInv'
    BY <2>1 DEF cpldVars, armVars, TypeInv, BufferInv
  <2>4. WordInv'
    BY <2>1 DEF cpldVars, armVars, WordInv, Done, MSin
  <2> QED
    BY <1>1, <2>2, <2>3, <2>4
<1>4. CASE CpuStarts \/ CpuGoesOn
  <2>1. UNCHANGED cpldVars /\ UNCHANGED armVars /\ UNCHANGED <<slave_ssyn, memory, took>> /\ Moved' = Moved
    BY <1>4 DEF CpuStarts, CpuGoesOn, Cycle, BusOnly, armVars, Moved
  <2>2. MachineInv' /\ SsynInv'
    BY <2>1 DEF cpldVars, armVars, MachineInv, SsynInv, Done, Armed, Running, Pending, MS, MSin
  <2>3. TypeInv' /\ BufferInv'
    BY <2>1 DEF cpldVars, armVars, TypeInv, BufferInv
  <2>4. WordInv'
    BY <2>1 DEF cpldVars, armVars, WordInv, Done, MSin
  <2>5. SlaveInv'
    <3>1. \/ phase = "off" /\ phase' = "addr"
          \/ phase = "addr" /\ ~SSYN_IN(bus) /\ phase' = "msyn" /\ UNCHANGED target
          \/ phase = "msyn" /\ SSYN_IN(bus) /\ phase' = "drop" /\ UNCHANGED target
          \/ phase = "drop" /\ phase' = "off"
      BY <1>4 DEF CpuStarts, CpuGoesOn
    <3>2. SSYN_IN(bus) <=> slave_ssyn \/ SS(3)
      BY Wires
    <3>3. SS(3) => ~SS(1) /\ ~SS(2)
      BY DEF SlaveInv, SS
    <3>4. \/ ustate_s' = {}
          \/ \E k \in 1 .. 3 : ustate_s' = {k}
      BY <2>1 DEF SlaveInv, cpldVars
    <3>5. SS(1) \/ SS(2) => phase' \in {"addr", "msyn"} /\ target' = Base
      BY <3>1, <3>2, <3>3 DEF SlaveInv, BusInv
    <3>6. phase' = "drop" /\ target' = Base /\ ~SS(3) => ~msyn
      BY <3>1, <3>2 DEF SlaveInv
    <3>7. phase' = "msyn" /\ target' = Base => ~slave_ssyn
      BY <3>1, <3>2 DEF SlaveInv
    <3> QED
      BY <2>1, <3>4, <3>5, <3>6, <3>7 DEF SlaveInv, SS, SS0, cpldVars, armVars
  <2> QED
    BY <1>1, <2>2, <2>3, <2>4, <2>5
<1> QED
  BY <1>2, <1>3, <1>4 DEF Others

-----------------------------------------------------------------------------
(* MasterInv is inductive.                                                 *)
LEMMA ArmInit == Init => ArmInv /\ BusInv
<1> SUFFICES ASSUME Init PROVE ArmInv /\ BusInv
  OBVIOUS
<1> USE DEF DmaOn, DmaBus, DmaAsks, DmaWaits, DmaSteps, NpgCut, DmaSack, VectorOut, IntrBus,
    IntrAsks, IntrWaits, IntrSteps, Bg5Cut, IntrSack, Owner, Sack
<1>1. ArmInv
  <2>1. /\ pc = "off" /\ assert_pin = {} /\ pass_thru = {"BG4", "BG5", "NPG"}
        /\ dma_mode = FALSE /\ addr_match_1 = Base /\ lag = ClocksPerAccess
    BY DEF Init, CpldStart, Grants
  <2>2. lag \in 0 .. ClocksPerAccess
    BY <2>1, MasterAssumption
  <2>3. pass_thru \subseteq Grants /\ "BG4" \in pass_thru /\ "NPG" \in pass_thru /\ "BG5" \in pass_thru
    BY <2>1 DEF Grants
  <2> QED
    BY <2>1, <2>2, <2>3 DEF ArmInv
<1>2. BusInv
  BY DEF Init, BusInv
<1> QED
  BY <1>1, <1>2

LEMMA MasterInit == Placed /\ Init => MasterInv
<1> SUFFICES ASSUME Placed, Init PROVE MasterInv
  OBVIOUS
<1> USE DEF Init, CpldStart, DmaOn, DmaBus, DmaAsks, DmaWaits, DmaSteps, VectorOut, Idle
<1>1. /\ Words \in Nat \ {0} /\ Start \in Address /\ Base \in Address /\ ClocksPerAccess \in Nat
      /\ 0 \in Address /\ Zero \in Word
  BY MasterAssumption, AddrAssumption, ZeroAssumption DEF Address
<1>2. ArmInv /\ BusInv
  BY ArmInit
<1>4. MachineInv /\ SlaveInv /\ SsynInv
  BY DEF MachineInv, SlaveInv, SsynInv, Done, SS, SS0, MS, MSin
<1>5. TypeInv
  <2>1. memory \in [Memory -> Word]
    BY <1>1
  <2>2. /\ data \in Seq(Word \cup {Nothing}) /\ words \in Seq(Word)
        /\ Len(data) \in 0 .. Words /\ Len(words) \in 0 .. Words
    BY <1>1, EmptySeq
  <2> QED
    BY <1>1, <2>1, <2>2 DEF TypeInv
<1>6. BufferInv /\ WordInv
  BY DEF BufferInv, WordInv
<1> QED
  BY <1>2, <1>4, <1>5, <1>6 DEF MasterInv

LEMMA MasterStutters == MasterInv /\ UNCHANGED masterVars => MasterInv'
<1> SUFFICES ASSUME MasterInv, UNCHANGED masterVars PROVE MasterInv'
  OBVIOUS
<1> USE DEF MasterInv, masterVars, cpldVars, armVars, busVars
<1>1. ArmInv' /\ BusInv'
  BY DEF ArmInv, BusInv
<1>2. MachineInv' /\ SlaveInv' /\ SsynInv'
  BY DEF MachineInv, SlaveInv, SsynInv, Done, Armed, Running, Pending, SS, SS0, MS, MSin
<1>3. TypeInv'
  BY DEF TypeInv
<1>4. BufferInv' /\ WordInv'
  BY DEF BufferInv, WordInv, Moved, Done, MSin
<1> QED
  BY <1>1, <1>2, <1>3, <1>4

LEMMA MasterStep ==
  ASSUME Timely, Placed
  PROVE  MasterInv /\ [Next]_masterVars => MasterInv'
<1> SUFFICES ASSUME MasterInv, [Next]_masterVars PROVE MasterInv'
  OBVIOUS
<1>1. CASE Tick \/ Serve
  BY <1>1, KeepSensed DEF Sensed
<1>2. CASE Call
  BY <1>2, KeepCall
<1>3. CASE Others
  BY <1>3, KeepOthers
<1>4. CASE Request \/ TakeBus \/ GiveBack \/ IntrRequest \/ IntrEnd
  BY <1>4, KeepRequest, KeepTakeBus, KeepGiveBack, KeepIntrRequest, KeepIntrEnd
<1>5. CASE Prime
  BY <1>5, KeepHi, KeepLo, KeepMode, KeepPrime DEF Prime
<1>6. CASE MoveWord
  BY <1>6, KeepPut, KeepIdle, KeepSample, KeepIdle2 DEF MoveWord
<1>7. CASE IntrVector
  <2>1. CASE pc # "vector"
    BY <1>7, <2>1, KeepIntrVector
  <2>2. CASE pc = "vector"
    <3>1. Same /\ Access("vector", Wr("DATA", Vector), "data_dir")
      BY <1>7, <2>2 DEF IntrVector, Assert, Deassert, WaitPin, Access
    <3> QED
      BY <3>1, KeepVector
  <2> QED
    BY <2>1, <2>2
<1>8. CASE UNCHANGED masterVars
  BY <1>8, MasterStutters
<1> QED
  BY <1>1, <1>2, <1>3, <1>4, <1>5, <1>6, <1>7, <1>8 DEF Next, Main, Others

LEMMA MasterInvariant ==
  ASSUME Timely, Placed
  PROVE  Spec => []MasterInv
<1>1. Init => MasterInv
  BY MasterInit
<1>2. MasterInv /\ [Next]_masterVars => MasterInv'
  BY MasterStep
<1> QED
  BY <1>1, <1>2, PTL DEF Spec

-----------------------------------------------------------------------------
(* The vector.                                                             *)
IntrAnswered == {"drop", "ipass_on", "bg_low", "off"}
IntrOut      == {"intr", "isack_off", "ack"}

\* How far the processor is in taking the vector.  From the time INTR is
\* asserted SSYN is the processor's own, and INTR stays until it has come.
TookInv ==
  /\ took \in {<<>>, <<Vector>>}
  /\ job # "intr" => took = <<>>
  /\ pc \in IntrSteps => job = "intr"
  /\ pc \in IntrSteps \ (IntrAnswered \cup {"isack_off", "ack"}) => took = <<>>
  /\ pc \in IntrOut => SS0
  /\ pc = "intr" => ~slave_ssyn
  /\ pc \in {"isack_off", "ack"} => (took = <<Vector>> <=> slave_ssyn)
  /\ pc = "drop" => slave_ssyn
  /\ job = "intr" /\ pc \in IntrAnswered => took = <<Vector>>

\* The order of the accesses of unibus_interrupt, and what they wait for.
LEMMA IntrOrder ==
  ASSUME Main
  PROVE  /\ UNCHANGED job /\ UNCHANGED busVars
         /\ UNCHANGED cpldVars \/ \E op : Clk(bus, op)
         /\ \/ pc \in DmaSteps /\ pc' \in DmaSteps \cup {"off"}
            \/ /\ pc \in IntrSteps \ (IntrAnswered \cup IntrOut \cup {"issyn"})
               /\ pc' \in IntrSteps \ (IntrAnswered \cup IntrOut)
            \/ pc = "issyn" /\ pc' = "intr" /\ ~SSYN_IN(bus) /\ UNCHANGED cpldVars
            \/ pc = "intr" /\ pc' = "isack_off"
            \/ pc = "isack_off" /\ pc' = "ack"
            \/ pc = "ack" /\ pc' = "drop" /\ SSYN_IN(bus)
            \/ pc \in IntrAnswered /\ pc \in IntrSteps /\ pc' \in IntrAnswered \ {"drop"}
<1>1. UNCHANGED job
  BY DEF Main, Request, TakeBus, Prime, MoveWord, GiveBack, IntrRequest, IntrVector, IntrEnd, Same, NextWord
<1>2. UNCHANGED busVars
  BY RequestSteps, TakeBusSteps, PrimeSteps, MoveWordSteps, GiveBackSteps, IntrRequestSteps,
     IntrVectorSteps, IntrEndSteps DEF Main, Always
<1>3. ASSUME NEW at, NEW next, NEW v
      PROVE  /\ Access(at, v, next) => \E op : Clk(bus, op)
             /\ Assert(at, v, next) => \E op : Clk(bus, op)
             /\ Deassert(at, v, next) => \E op : Clk(bus, op)
             /\ PassThru(at, v, next) => \E op : Clk(bus, op)
             /\ Wait(at, v, next) => \E op : Clk(bus, op)
             /\ WaitPin(at, v, next) => v /\ UNCHANGED cpldVars
  BY DEF Access, Assert, Deassert, PassThru, Wait, WaitPin
<1>4. UNCHANGED cpldVars \/ \E op : Clk(bus, op)
  <2>1. CASE Request \/ TakeBus \/ Prime
    BY <1>3, <2>1 DEF Request, TakeBus, Prime
  <2>2. CASE MoveWord \/ GiveBack
    BY <1>3, <2>2 DEF MoveWord, GiveBack
  <2>3. CASE IntrRequest \/ IntrVector \/ IntrEnd
    BY <1>3, <2>3 DEF IntrRequest, IntrVector, IntrEnd
  <2> QED
    BY <2>1, <2>2, <2>3 DEF Main
<1> USE DEF Pins, Pass, Mode, Goes, DmaOn, DmaBus, DmaAsks, DmaWaits, DmaSteps, VectorOut, IntrBus,
    IntrAsks, IntrWaits, IntrSteps, IntrAnswered, IntrOut
<1>5. Request \/ TakeBus \/ Prime => pc \in DmaSteps /\ pc' \in DmaSteps \cup {"off"}
  BY RequestSteps, TakeBusSteps, PrimeSteps
<1>6. MoveWord \/ GiveBack => pc \in DmaSteps /\ pc' \in DmaSteps \cup {"off"}
  BY MoveWordSteps, GiveBackSteps
<1>7. IntrRequest => /\ pc \in IntrSteps \ (IntrAnswered \cup IntrOut \cup {"issyn"})
                     /\ pc' \in IntrSteps \ (IntrAnswered \cup IntrOut)
  BY IntrRequestSteps
<1>8. IntrVector => \/ /\ pc \in IntrSteps \ (IntrAnswered \cup IntrOut \cup {"issyn"})
                       /\ pc' \in IntrSteps \ (IntrAnswered \cup IntrOut)
                    \/ pc = "issyn" /\ pc' = "intr" /\ ~SSYN_IN(bus) /\ UNCHANGED cpldVars
                    \/ pc = "intr" /\ pc' = "isack_off"
                    \/ pc = "isack_off" /\ pc' = "ack"
                    \/ pc = "ack" /\ pc' = "drop" /\ SSYN_IN(bus)
  <2> SUFFICES ASSUME IntrVector, pc \in {"issyn", "ack"}
               PROVE  \/ pc = "issyn" /\ pc' = "intr" /\ ~SSYN_IN(bus) /\ UNCHANGED cpldVars
                      \/ pc = "ack" /\ pc' = "drop" /\ SSYN_IN(bus)
    BY IntrVectorSteps
  <2>1. WaitPin("issyn", ~SSYN_IN(bus), "intr") \/ WaitPin("ack", SSYN_IN(bus), "drop")
    BY DEF IntrVector, Access, Assert, Deassert
  <2> QED
    BY <2>1, <1>3 DEF WaitPin
<1>9. IntrEnd => pc \in IntrAnswered /\ pc \in IntrSteps /\ pc' \in IntrAnswered \ {"drop"}
  BY IntrEndSteps
<1> QED
  BY <1>1, <1>2, <1>4, <1>5, <1>6, <1>7, <1>8, <1>9 DEF Main

\* While the board is master for an interrupt, no other cycle is on the bus.
LEMMA IntrAlone ==
  ASSUME Placed, MasterInv, pc \in IntrBus
  PROVE  phase = "off" /\ ~MSYN_IN(bus) /\ ~SS(1) /\ ~SS(2) /\ (SSYN_IN(bus) <=> slave_ssyn \/ SS(3))
<1>1. phase = "off" /\ pc \notin Idle
  BY DEF MasterInv, BusInv, Owner, IntrBus, VectorOut, Idle
<1>2. ustate_m = {}
  BY <1>1 DEF MasterInv, MachineInv, Done
<1>3. ~MSYN_IN(bus) /\ (SSYN_IN(bus) <=> slave_ssyn \/ SS(3))
  BY <1>1, <1>2, Wires DEF MasterInv, MSin
<1> QED
  BY <1>1, <1>3 DEF MasterInv, SlaveInv

LEMMA TookStep ==
  ASSUME Placed, MasterInv, TookInv, [Next]_masterVars
  PROVE  TookInv'
<1>0. IntrOut \subseteq IntrBus /\ {"isack_off", "ack", "drop"} \subseteq IntrBus /\ IntrBus \subseteq IntrSteps
      /\ "issyn" \in IntrBus
  BY DEF IntrOut, IntrBus, VectorOut, IntrSteps
<1>1. CASE UNCHANGED masterVars
  BY <1>1 DEF masterVars, cpldVars, armVars, busVars, TookInv, SS0
<1>2. CASE Sensed
  <2>1. UNCHANGED <<pc, job, took, slave_ssyn>> /\ UNCHANGED busVars
    BY <1>2, SensedClock DEF MasterInv, busVars
  <2>2. pc \in IntrOut => SS0'
    <3> SUFFICES ASSUME pc \in IntrOut PROVE ustate_s' = {}
      BY DEF SS0
    <3>1. phase = "off"
      BY <1>0, IntrAlone
    <3>2. PICK op : Clk(bus, op)
      BY <1>2, SensedClock DEF MasterInv
    <3> QED
      BY <2>1, <3>1, <3>2, SlaveClock DEF MasterInv
  <2> QED
    BY <2>1, <2>2 DEF TookInv
<1>3. CASE Call
  <2>1. pc' \in {"bg_high", "npg_high"} /\ took' = <<>> /\ (pc' = "bg_high" => job' = "intr")
    BY <1>3 DEF Call
  <2> QED
    BY <2>1 DEF TookInv, IntrSteps, IntrAsks, IntrWaits, IntrBus, VectorOut, IntrAnswered, IntrOut
<1>4. CASE Slave
  <2>1. UNCHANGED <<pc, job>> /\ UNCHANGED cpldVars
    BY <1>4 DEF Slave, BusOnly, armVars
  <2>2. INTR_IN <=> pc \in {"isack_off", "ack", "drop"}
    BY DEF INTR_IN, MasterInv, ArmInv
  <2>3. \/ took' = took /\ (slave_ssyn' /\ ~slave_ssyn => MSYN_IN(bus))
           /\ (slave_ssyn /\ ~slave_ssyn' => ~INTR_IN)
        \/ took' = Append(took, Vector) /\ INTR_IN /\ ~slave_ssyn /\ slave_ssyn'
    BY <1>4, Taken
  <2>4. pc \in IntrBus => ~MSYN_IN(bus)
    BY IntrAlone
  <2>5. SS0' = SS0
    BY <2>1 DEF cpldVars, SS0
  <2>6. slave_ssyn \in BOOLEAN /\ slave_ssyn' \in BOOLEAN
    BY <1>4, Taken DEF MasterInv, BusInv
  <2>7. CASE /\ took' = took /\ (slave_ssyn' /\ ~slave_ssyn => MSYN_IN(bus))
             /\ (slave_ssyn /\ ~slave_ssyn' => ~INTR_IN)
    <3>1. pc \in {"intr", "isack_off", "ack", "drop"} => slave_ssyn' = slave_ssyn \/ (pc = "intr" /\ ~slave_ssyn')
      BY <1>0, <2>2, <2>4, <2>6, <2>7 DEF IntrOut
    <3> QED
      BY <2>1, <2>5, <2>7, <3>1 DEF TookInv
  <2>8. CASE took' = Append(took, Vector) /\ INTR_IN /\ ~slave_ssyn /\ slave_ssyn'
    <3>1. pc \in {"isack_off", "ack"} /\ took = <<>> /\ job = "intr"
      BY <1>0, <2>2, <2>8 DEF TookInv
    <3>2. took' = <<Vector>>
      BY <2>8, <3>1
    <3> QED
      BY <2>1, <2>5, <2>8, <3>1, <3>2 DEF TookInv, IntrAnswered
  <2> QED
    BY <2>3, <2>7, <2>8
<1>5. CASE GrantNpg \/ GrantBg5 \/ EndGrant \/ CpuStarts \/ CpuGoesOn \/ DevAsks \/ DevGoesOn
  <2>1. UNCHANGED <<pc, job, took, slave_ssyn, ustate_s>>
    BY <1>5 DEF GrantNpg, GrantBg5, EndGrant, CpuStarts, CpuGoesOn, Cycle, DevAsks, DevGoesOn,
       BusOnly, armVars, cpldVars
  <2> QED
    BY <2>1 DEF TookInv, SS0
<1>6. CASE Main
  <2>1. UNCHANGED <<job, took, slave_ssyn>> /\ UNCHANGED busVars
    BY <1>6, IntrOrder DEF busVars
  <2>2. pc' \in IntrOut => SS0'
    <3> SUFFICES ASSUME pc' \in IntrOut PROVE SS0'
      OBVIOUS
    <3>1. CASE pc = "issyn" /\ ~SSYN_IN(bus) /\ UNCHANGED cpldVars
      <4>1. ~SS(1) /\ ~SS(2) /\ ~SS(3)
        BY <1>0, <3>1, IntrAlone
      <4>2. ustate_s = {}
        BY <4>1 DEF MasterInv, SlaveInv, SS
      <4> QED
        BY <3>1, <4>2 DEF SS0, cpldVars
    <3>2. CASE pc \in IntrOut
      <4>1. phase = "off" /\ ustate_s = {}
        BY <1>0, <3>2, IntrAlone DEF TookInv, SS0
      <4>2. CASE UNCHANGED cpldVars
        BY <4>1, <4>2 DEF SS0, cpldVars
      <4>3. ASSUME NEW op, Clk(bus, op) PROVE ustate_s' = {}
        BY <2>1, <4>1, <4>3, SlaveClock DEF MasterInv
      <4> QED
        BY <1>6, IntrOrder, <4>2, <4>3 DEF SS0
    <3>3. pc \in IntrOut \/ (pc = "issyn" /\ ~SSYN_IN(bus) /\ UNCHANGED cpldVars)
      BY <1>6, IntrOrder DEF IntrOut, IntrAnswered, DmaSteps, DmaAsks, DmaWaits, DmaBus, DmaOn
    <3> QED
      BY <3>1, <3>2, <3>3
  <2> USE DEF IntrSteps, IntrAsks, IntrWaits, IntrBus, VectorOut, IntrAnswered, IntrOut
  <2>3. CASE pc \in DmaSteps /\ pc' \in DmaSteps \cup {"off"}
    <3>1. job # "intr" /\ took = <<>>
      BY <2>3 DEF MasterInv, TypeInv, TookInv
    <3>2. pc' \notin IntrSteps \cup {"intr", "isack_off", "ack", "drop"}
      BY <2>3 DEF DmaSteps, DmaAsks, DmaWaits, DmaBus, DmaOn
    <3> QED
      BY <2>1, <3>1, <3>2 DEF TookInv
  <2>4. CASE /\ pc \in IntrSteps \ (IntrAnswered \cup IntrOut \cup {"issyn"})
             /\ pc' \in IntrSteps \ (IntrAnswered \cup IntrOut)
    <3>1. job = "intr" /\ took = <<>>
      BY <2>4 DEF TookInv
    <3> QED
      BY <2>1, <2>4, <3>1 DEF TookInv
  <2>5. CASE pc = "issyn" /\ pc' = "intr" /\ ~SSYN_IN(bus) /\ UNCHANGED cpldVars
    <3>1. job = "intr" /\ took = <<>> /\ ~slave_ssyn
      BY <2>5, IntrAlone DEF TookInv
    <3> QED
      BY <2>1, <2>2, <2>5, <3>1 DEF TookInv
  <2>6. CASE pc = "intr" /\ pc' = "isack_off"
    <3>1. job = "intr" /\ took = <<>> /\ ~slave_ssyn
      BY <2>6 DEF TookInv
    <3> QED
      BY <2>1, <2>2, <2>6, <3>1 DEF TookInv
  <2>7. CASE pc = "isack_off" /\ pc' = "ack"
    BY <2>1, <2>2, <2>7 DEF TookInv
  <2>8. CASE pc = "ack" /\ pc' = "drop" /\ SSYN_IN(bus)
    <3>1. slave_ssyn
      BY <2>8, IntrAlone DEF TookInv, SS0, SS
    <3>2. job = "intr" /\ took = <<Vector>>
      BY <2>8, <3>1 DEF TookInv
    <3> QED
      BY <2>1, <2>8, <3>1, <3>2 DEF TookInv
  <2>9. CASE pc \in IntrAnswered /\ pc \in IntrSteps /\ pc' \in IntrAnswered \ {"drop"}
    <3>1. job = "intr" /\ took = <<Vector>>
      BY <2>9 DEF TookInv
    <3> QED
      BY <2>1, <2>9, <3>1 DEF TookInv
  <2> QED
    BY <1>6, IntrOrder, <2>3, <2>4, <2>5, <2>6, <2>7, <2>8, <2>9
<1> QED
  BY <1>1, <1>2, <1>3, <1>4, <1>5, <1>6 DEF Next, Sensed

LEMMA TookInvariant ==
  ASSUME Timely, Placed
  PROVE  Spec => []TookInv
<1>1. Init => TookInv
  BY DEF Init, TookInv, IntrSteps, IntrAsks, IntrWaits, IntrBus, VectorOut, IntrAnswered, IntrOut
<1>2. MasterInv /\ TookInv /\ [Next]_masterVars => TookInv'
  BY TookStep
<1> QED
  BY <1>1, <1>2, MasterInvariant, PTL DEF Spec

-----------------------------------------------------------------------------
\* BusMaster!MasterTypeOK: the address, the words and what is left of them
\* stay in their types through any number of calls.
THEOREM MasterTypeCorrect ==
  ASSUME Timely, Placed
  PROVE  Spec => []MasterTypeOK
<1>1. MasterInv /\ TookInv => MasterTypeOK
  <2> SUFFICES ASSUME MasterInv, TookInv PROVE MasterTypeOK
    OBVIOUS
  <2>1. took \in Seq(Word)
    <3>1. Vector \in Word /\ <<Vector>> \in Seq(Word) /\ <<>> \in Seq(Word)
      BY MasterAssumption, EmptySeq
    <3> QED
      BY <3>1 DEF TookInv
  <2> QED
    BY <2>1, MasterAssumption DEF MasterInv, ArmInv, BusInv, TypeInv, MasterTypeOK
<1> QED
  BY <1>1, MasterInvariant, TookInvariant, PTL

\* BusMaster!OneMaster: the board takes BBSY only after it has found the bus
\* free with SACK asserted, so that at any time one of the board, the
\* processor and the other board at most is master, and the CPLD asserts
\* MSYN only while it is the board.
THEOREM OneMasterAlways ==
  ASSUME Timely, Placed
  PROVE  Spec => []OneMaster
<1>1. MasterInv => OneMaster
  <2> SUFFICES ASSUME MasterInv PROVE OneMaster
    OBVIOUS
  <2>1. "BBSY" \in assert_pin <=> pc \in Owner
    BY DEF MasterInv, ArmInv
  <2>2. msyn_assert => "BBSY" \in assert_pin
    <3>1. msyn_assert => pc \in Idle
      BY DEF MasterInv, MachineInv, Done, msyn_assert, MSin
    <3> QED
      BY <2>1, <3>1 DEF Idle, Owner, DmaBus, DmaOn
  <2> QED
    BY <2>1, <2>2 DEF MasterInv, BusInv, OneMaster
<1> QED
  BY <1>1, MasterInvariant, PTL

\* BusMaster!GrantNotForged: the grant chain is driven low before the
\* pass-through is disabled and until it is enabled again, so that the next
\* slot never sees a grant that the arbiter did not give.
THEOREM GrantNeverForged ==
  ASSUME Timely
  PROVE  Spec => []GrantNotForged
<1>1. Init => ArmInv /\ BusInv
  BY ArmInit
<1>2. ArmInv /\ BusInv /\ [Next]_masterVars => (ArmInv /\ BusInv)'
  <2> SUFFICES ASSUME ArmInv, BusInv, [Next]_masterVars PROVE ArmInv' /\ BusInv'
    OBVIOUS
  <2>1. CASE UNCHANGED masterVars
    BY <2>1 DEF masterVars, cpldVars, armVars, busVars, ArmInv, BusInv
  <2> QED
    BY <2>1, ArmMain, SensedArm, CallArm, OthersBus DEF Next, Sensed, Others
<1>3. ArmInv /\ BusInv => GrantNotForged
  <2> SUFFICES ASSUME ArmInv, BusInv PROVE GrantNotForged
    OBVIOUS
  <2>1. pc \in NpgCut => "NPG" \in assert_pin
    BY DEF ArmInv, NpgCut, DmaSteps, DmaAsks, DmaWaits, DmaBus, DmaOn
  <2>2. pc \in Bg5Cut => "BG5" \in assert_pin
    BY DEF ArmInv, Bg5Cut, IntrSteps, IntrAsks, IntrWaits, IntrBus, VectorOut
  <2> QED
    BY <2>1, <2>2 DEF ArmInv, GrantNotForged, NPG_OUT, BG5_OUT
<1> QED
  BY <1>1, <1>2, <1>3, PTL DEF Spec

\* BusMaster!BufferMoved: after the last word the buffer and memory agree
\* word for word, in either direction, with the bus asked for again for
\* every word.
THEOREM BufferAlwaysMoved ==
  ASSUME Timely, Placed
  PROVE  Spec => []BufferMoved
<1>1. MasterInv => BufferMoved
  <2> SUFFICES ASSUME MasterInv, pc = "npg_low"
               PROVE  words = [i \in 1 .. Words |-> memory[Start + 2 * (i - 1)]]
    BY DEF BufferMoved
  <2>1. data = <<>> /\ pc \in DmaSteps
    BY DEF MasterInv, BufferInv, DmaSteps
  <2>2. Words \in Nat /\ Moved = Words
    BY <2>1, EmptySeq, MasterAssumption DEF Moved
  <2>3. Len(words) = Words /\ words \in Seq(Word)
    BY <2>1, <2>2 DEF MasterInv, BufferInv, TypeInv
  <2>4. \A i \in 1 .. Words : words[i] = memory[Start + 2 * (i - 1)]
    BY <2>1, <2>2 DEF MasterInv, BufferInv
  <2>5. words \in [1 .. Words -> Word]
    BY <2>3, LenProperties
  <2> QED
    BY <2>4, <2>5
<1> QED
  BY <1>1, MasterInvariant, PTL

\* BusMaster!VectorTaken: unibus_interrupt gives the processor its vector,
\* once.  INTR comes after the vector is in the data register, the CPLD does
\* not change it under INTR, and the SSYN that the board waits for can be no
\* other than that of the processor taking it, because it waited for the SSYN
\* of the cycle before to go and nobody else is master.
THEOREM VectorAlwaysTaken ==
  ASSUME Timely, Placed
  PROVE  Spec => []VectorTaken
<1>1. TookInv => VectorTaken
  BY DEF TookInv, VectorTaken, IntrAnswered
<1> QED
  BY <1>1, TookInvariant, PTL

\* BusMaster!CleanAfter: a call returns with every pin dropped, every grant
\* passed on, and no master cycle running or armed, not even the one that
\* the last sample started.
THEOREM AlwaysCleanAfter ==
  ASSUME Timely, Placed
  PROVE  Spec => []CleanAfter
<1>1. MasterInv => CleanAfter
  <2> SUFFICES ASSUME MasterInv, pc = "off"
               PROVE  /\ assert_pin = {} /\ pass_thru = Grants
                      /\ ~dma_mode /\ ~pending_dma_write /\ ~pending_dma_read /\ MS0
    BY DEF CleanAfter
  <2> USE DEF DmaOn, DmaBus, DmaAsks, DmaWaits, DmaSteps, NpgCut, DmaSack, VectorOut, IntrBus,
      IntrAsks, IntrWaits, IntrSteps, Bg5Cut, IntrSack, Owner, Sack, Idle
  <2>1. \A p \in AssertPins : p \notin assert_pin
    BY DEF MasterInv, ArmInv, AssertPins
  <2>2. assert_pin = {}
    BY <2>1 DEF MasterInv, ArmInv
  <2>3. pass_thru = Grants
    <3>1. pass_thru \subseteq Grants
      BY DEF MasterInv, ArmInv
    <3>2. "BG4" \in pass_thru /\ "BG5" \in pass_thru /\ "NPG" \in pass_thru
      BY DEF MasterInv, ArmInv
    <3> QED
      BY <3>1, <3>2 DEF Grants
  <2>4. ~dma_mode /\ Done
    BY DEF MasterInv, ArmInv, MachineInv
  <2> QED
    BY <2>2, <2>3, <2>4 DEF Done, MS0
<1> QED
  BY <1>1, MasterInvariant, PTL

\* BusMaster!WordInPlace: a DMA changes memory only where the next word of
\* the buffer belongs, and to that word.
THEOREM WordAlwaysInPlace ==
  ASSUME Timely, Placed
  PROVE  Spec => WordInPlace
<1> DEFINE Put == memory' # memory =>
             /\ job = "write" /\ addr_out = Start + 2 * Moved
             /\ memory' = [memory EXCEPT ![addr_out] = words[Moved + 1]]
<1>1. MasterInv /\ [Next]_masterVars => [Put]_memory
  <2> SUFFICES ASSUME MasterInv, [Next]_masterVars, memory' # memory
               PROVE  /\ job = "write" /\ addr_out = Start + 2 * Moved
                      /\ memory' = [memory EXCEPT ![addr_out] = words[Moved + 1]]
    OBVIOUS
  <2>1. Slave
    <3>1. Main => Always
      BY RequestSteps, TakeBusSteps, PrimeSteps, MoveWordSteps, GiveBackSteps, IntrRequestSteps,
         IntrVectorSteps, IntrEndSteps DEF Main
    <3>2. ~Main /\ ~Tick /\ ~Serve /\ ~Call /\ ~UNCHANGED masterVars
      BY <3>1 DEF Always, busVars, Tick, Serve, Call, masterVars
    <3> QED
      BY <3>2 DEF Next, GrantNpg, GrantBg5, EndGrant, CpuStarts, CpuGoesOn, Cycle, DevAsks, DevGoesOn
  <2>2. /\ pc = "idle" /\ job = "write" /\ addr_out = addr
        /\ memory' = [memory EXCEPT ![addr] = words[Moved + 1]]
    BY <2>1, Taken
  <2>3. addr = Start + 2 * Moved
    BY <2>2 DEF MasterInv, BufferInv, DmaSteps, DmaBus, DmaOn
  <2> QED
    BY <2>2, <2>3
<1>2. MasterInv /\ [Next]_masterVars => [memory' # memory =>
             /\ job = "write" /\ addr_out = Start + 2 * Moved
             /\ memory' = [memory EXCEPT ![addr_out] = words[Moved + 1]]]_memory
  BY <1>1
<1> QED
  BY <1>2, MasterInvariant, PTL DEF Spec, WordInPlace
=============================================================================
