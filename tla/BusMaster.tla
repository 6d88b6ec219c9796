----------------------------- MODULE BusMaster -----------------------------
(***************************************************************************)
(* The board as a master of the UNIBUS: unibus_dma_buffer and              *)
(* unibus_interrupt (unibus.c), one access to the CPLD at a time, with the *)
(* CPLD (Cpld) at its clock, the arbiter of the PDP-11, its processor,     *)
(* memory, and one more board that takes its grants from the ones this     *)
(* board passes on.  cpld_isr serves a register cycle in one step          *)
(* (RegisterCycle has the whole of it) wherever interrupts are enabled.    *)
(***************************************************************************)
EXTENDS Cpld, Sequences

CONSTANTS
  Memory,           \* addresses of memory
  Base,             \* the processor polls the register at this address
  Start,            \* address of a buffer
  Words,            \* its length in words
  Buffers,          \* the contents of buffers to write
  Vector,           \* the interrupt vector
  ClocksPerAccess,  \* CPLD clocks between two accesses of the ARM, at least
  Prompt,           \* who reacts within one access of the ARM
  Nothing           \* no word

ASSUME MasterAssumption ==
  /\ Memory \subseteq Address /\ Base \in Address /\ Start \in Address
  /\ Words \in Nat \ {0} /\ Buffers \subseteq [1 .. Words -> Word]
  /\ Vector \in Word /\ ClocksPerAccess \in Nat
  /\ Prompt \subseteq {"device", "slave", "cpu"} /\ Nothing \notin Word

VARIABLES
  pc,          \* the next access of the ARM
  job,         \* the call: "write" or "read" (memory), or "intr"
  addr, data,  \* its arguments: what is left to move
  words,       \* history: the words to write; the words read so far
  lag,         \* CPLD clocks since the ARM's last access, up to the bound
  npg, bg5,    \* the grants the arbiter gives
  phase, target,  \* the processor's cycle, as in RegisterCycle, and its address
  slave_ssyn,  \* SSYN of memory, or of the processor that takes a vector
  memory,
  took,        \* history: the vectors the processor took in this call
  dev          \* the other board: "off", "asks", "sack" or "owns"

armVars == <<pc, job, addr, data, words, lag>>
busVars == <<npg, bg5, phase, target, slave_ssyn, memory, took, dev>>
masterVars == <<cpldVars, armVars, busVars>>

-----------------------------------------------------------------------------
(* The lines.                                                              *)
bus == [msyn |-> phase = "msyn", ssyn |-> slave_ssyn,
        bbsy |-> phase # "off" \/ dev = "owns", c1 |-> FALSE, addr |-> target,
        data |-> IF slave_ssyn /\ addr_assert THEN memory[addr_out] ELSE Zero]
SACK_IN == "SACK" \in assert_pin \/ dev = "sack"
NPR_IN  == "NPR" \in assert_pin \/ dev = "asks"
INTR_IN == "INTR" \in assert_pin

\* The grants on the next slot: the arbiter's, or, with the pass-through
\* disabled, the assert bit, which is inverted ("drive low").
NPG_OUT == IF "NPG" \in pass_thru THEN npg ELSE "NPG" \notin assert_pin
BG5_OUT == IF "BG5" \in pass_thru THEN bg5 ELSE "BG5" \notin assert_pin

-----------------------------------------------------------------------------
(* The ARM.                                                                *)
\* A section between disable_cpld_int and enable_cpld_int; the write that
\* sets the DMA mode enables interrupts again.
Masked == {"npr_off", "npg_off", "bbsy", "own", "hi", "lo", "mode",
           "br_off", "bg_off", "ibbsy", "iown", "vector", "data_dir", "issyn",
           "intr", "isack_off", "ack", "drop", "ipass_on", "bg_low"}

\* What the fast parties have done before the ARM's next access.
Settled ==
  /\ "device" \in Prompt => /\ ~(dev = "asks" /\ NPG_OUT)
                            /\ ~(SACK_IN /\ (npg \/ bg5))
  /\ "slave" \in Prompt => (slave_ssyn => MSYN_IN(bus) \/ INTR_IN)
  /\ "cpu" \in Prompt => (pc = "sack" => ~(target = Base /\ phase \in {"addr", "msyn"}))

Access(at, op, next) ==
  /\ pc = at /\ pc' = next /\ lag = ClocksPerAccess /\ lag' = 0
  /\ Settled /\ Clk(bus, op) /\ UNCHANGED busVars

Assert(at, pins, next)   == Access(at, Wr("ASSERT", assert_pin \cup pins), next)
Deassert(at, pins, next) == Access(at, Wr("ASSERT", assert_pin \ pins), next)
PassThru(at, pins, next) == Access(at, Wr("PASS_THRU", pins), next)
Wait(at, cond, next)     == cond /\ Access(at, Rd("STATUS"), next)
\* BUS_BBSY and BUS_SSYN are pins of the ARM.
WaitPin(at, cond, next) ==
  /\ pc = at /\ pc' = next /\ cond /\ Settled
  /\ UNCHANGED <<cpldVars, job, addr, data, words, lag, busVars>>
Same == UNCHANGED <<job, addr, data, words>>

Tick ==
  /\ Clk(bus, NoOp) /\ UNCHANGED <<pc, job, addr, data, words, busVars>>
  /\ lag' = IF lag < ClocksPerAccess THEN lag + 1 ELSE lag

\* cpld_isr, for a register cycle of the processor.
Serve ==
  /\ SS(1) /\ ~cpu_release /\ pc \notin Masked
  /\ lag = ClocksPerAccess /\ lag' = 0
  /\ Clk(bus, Wr("CPU_RELEASE", Zero))
  /\ UNCHANGED <<pc, job, addr, data, words, busVars>>

\* rl11_poll calls unibus_dma_buffer or unibus_interrupt.
Call ==
  /\ pc = "off" /\ addr' = Start
  /\ \/ /\ job' = "write" /\ data' \in Buffers /\ words' = data'
     \/ job' = "read" /\ data' = [i \in 1 .. Words |-> Nothing] /\ words' = <<>>
     \/ job' = "intr" /\ data' = <<>> /\ words' = <<>>
  /\ pc' = IF job' = "intr" THEN "bg_high" ELSE "npg_high"
  /\ took' = <<>>
  /\ UNCHANGED <<cpldVars, lag, npg, bg5, phase, target, slave_ssyn, memory, dev>>

\* Mutant: the pass-through is disabled before the grant is driven low.
RequestSwapped ==
  /\ \/ PassThru("npg_high", Grants \ {"NPG"}, "pass_off")
     \/ Assert("pass_off", {"NPG"}, "npr")
     \/ Assert("npr", {"NPR"}, "npg") \/ Wait("npg", npg, "sack")
     \/ Assert("sack", {"SACK"}, "npr_off")
  /\ Same

\* Ask for the bus, until the grant is answered.
Request ==
  /\ \/ Assert("npg_high", {"NPG"}, "pass_off")
     \/ PassThru("pass_off", Grants \ {"NPG"}, "npr")
     \/ Assert("npr", {"NPR"}, "npg")
     \/ Wait("npg", npg, "sack")
     \/ Assert("sack", {"SACK"}, "npr_off")
  /\ Same

\* Mutant: does not wait for BBSY.
TakeBusAtOnce ==
  /\ \/ Deassert("npr_off", {"NPR"}, "npg_off") \/ Wait("npg_off", ~npg, "own")
     \/ Assert("own", {"BBSY"}, "hi")
  /\ Same

TakeBus ==
  /\ \/ Deassert("npr_off", {"NPR"}, "npg_off")
     \/ Wait("npg_off", ~npg, "bbsy")
     \/ WaitPin("bbsy", ~BBSY_IN(bus), "own")
     \/ Assert("own", {"BBSY"}, "hi")
  /\ Same

\* Mutant: the word of the priming read is kept too.
PrimeSamples ==
  \/ /\ \/ Access("hi", Wr("WR_ADDR_HI", addr \div LoSpace), "lo")
        \/ Access("lo", Wr("WR_ADDR_LO", addr % LoSpace), "mode")
        \/ Access("mode", Wr("DMA_MODE", TRUE), IF job = "write" THEN "put" ELSE "prime")
     /\ Same
  \/ /\ Access("prime", Rd("DATA"), "idle")
     /\ words' = Append(words, bus_data_hold) /\ UNCHANGED <<job, addr, data>>

\* The address, and the mode in which the CPLD runs master cycles.
Prime ==
  /\ \/ Access("hi", Wr("WR_ADDR_HI", addr \div LoSpace), "lo")
     \/ Access("lo", Wr("WR_ADDR_LO", addr % LoSpace), "mode")
     \/ Access("mode", Wr("DMA_MODE", TRUE), IF job = "write" THEN "put" ELSE "prime")
     \/ Access("prime", Rd("DATA"), "idle")
  /\ Same

NextWord == addr' = addr + 2 /\ data' = Tail(data) /\ UNCHANGED job

\* Mutant: addr does not move on.
MoveSameAddress ==
  \/ /\ Access("put", Wr("DATA", Head(data)), "idle") /\ Same
  \/ /\ Wait("idle", MS0, IF job = "write" THEN "pass_on" ELSE "sample")
     /\ IF job = "write" THEN data' = Tail(data) /\ UNCHANGED <<addr, job, words>> ELSE Same
  \/ /\ Access("sample", Rd("DATA"), "idle2")
     /\ words' = Append(words, bus_data_hold)
     /\ data' = Tail(data) /\ UNCHANGED <<addr, job>>
  \/ Wait("idle2", MS0, "pass_on") /\ Same

\* Mutant: a read does not wait for the cycle its sample starts.
MoveNoLastWait ==
  \/ /\ Access("put", Wr("DATA", Head(data)), "idle") /\ Same
  \/ /\ Wait("idle", MS0, IF job = "write" THEN "pass_on" ELSE "sample")
     /\ IF job = "write" THEN NextWord /\ UNCHANGED words ELSE Same
  \/ /\ Access("sample", Rd("DATA"), "pass_on")
     /\ words' = Append(words, bus_data_hold) /\ NextWord

\* Move one word (burst_size is 1).  A write waits until it is out; a read
\* waits until it is in, and the access that samples it starts another one.
MoveWord ==
  \/ /\ Access("put", Wr("DATA", Head(data)), "idle") /\ Same
  \/ /\ Wait("idle", MS0, IF job = "write" THEN "pass_on" ELSE "sample")
     /\ IF job = "write" THEN NextWord /\ UNCHANGED words ELSE Same
  \/ /\ Access("sample", Rd("DATA"), "idle2")
     /\ words' = Append(words, bus_data_hold) /\ NextWord
  \/ Wait("idle2", MS0, "pass_on") /\ Same

\* Mutant: SACK is not dropped.
GiveBackKeepsSack ==
  /\ \/ PassThru("pass_on", Grants, "mode_off")
     \/ Access("mode_off", Wr("DMA_MODE", FALSE), "bbsy_off")
     \/ Deassert("bbsy_off", {"BBSY"}, IF data = <<>> THEN "npg_low" ELSE "pass_off")
     \/ Deassert("npg_low", {"NPG"}, "off")
  /\ Same

\* Give the bus back; the next word asks for it again.
GiveBack ==
  /\ \/ PassThru("pass_on", Grants, "mode_off")
     \/ Access("mode_off", Wr("DMA_MODE", FALSE), "sack_off")
     \/ Deassert("sack_off", {"SACK"}, "bbsy_off")
     \/ Deassert("bbsy_off", {"BBSY"}, IF data = <<>> THEN "npg_low" ELSE "pass_off")
     \/ Deassert("npg_low", {"NPG"}, "off")
  /\ Same

IntrRequest ==
  /\ \/ Assert("bg_high", {"BG5"}, "bg_pass_off")
     \/ PassThru("bg_pass_off", Grants \ {"BG5"}, "br")
     \/ Assert("br", {"BR5"}, "bg")
     \/ Wait("bg", bg5, "isack")
     \/ Assert("isack", {"SACK"}, "br_off")
     \/ Deassert("br_off", {"BR5"}, "bg_off")
     \/ Wait("bg_off", ~bg5, "ibbsy")
     \/ WaitPin("ibbsy", ~BBSY_IN(bus), "iown")
     \/ Assert("iown", {"BBSY"}, "vector")
  /\ Same

\* Mutant: does not wait for the processor's SSYN.
IntrVectorNoAck ==
  /\ \/ Access("vector", Wr("DATA", Vector), "data_dir")
     \/ Assert("data_dir", {"DATA_DIR"}, "issyn")
     \/ WaitPin("issyn", ~SSYN_IN(bus), "intr")
     \/ Assert("intr", {"INTR"}, "isack_off") \/ Deassert("isack_off", {"SACK"}, "drop")
  /\ Same

IntrVector ==
  /\ \/ Access("vector", Wr("DATA", Vector), "data_dir")
     \/ Assert("data_dir", {"DATA_DIR"}, "issyn")
     \/ WaitPin("issyn", ~SSYN_IN(bus), "intr")
     \/ Assert("intr", {"INTR"}, "isack_off")
     \/ Deassert("isack_off", {"SACK"}, "ack")
     \/ WaitPin("ack", SSYN_IN(bus), "drop")
  /\ Same

IntrEnd ==
  /\ \/ Deassert("drop", {"DATA_DIR", "INTR", "BBSY"}, "ipass_on")
     \/ PassThru("ipass_on", Grants, "bg_low")
     \/ Deassert("bg_low", {"BG5"}, "off")
  /\ Same

Main == \/ Request \/ TakeBus \/ Prime \/ MoveWord \/ GiveBack
        \/ IntrRequest \/ IntrVector \/ IntrEnd

-----------------------------------------------------------------------------
(* The arbiter.  It gives no grant while one is out or SACK is asserted,   *)
(* but may give one while the bus is in use; BG5 between two instructions. *)
BusOnly == UNCHANGED <<cpldVars, armVars>>
CanGrant == ~SACK_IN /\ ~npg /\ ~bg5

GrantNpg ==
  /\ NPR_IN /\ CanGrant /\ npg' = TRUE
  /\ UNCHANGED <<bg5, phase, target, slave_ssyn, memory, took, dev>> /\ BusOnly
GrantBg5 ==
  /\ "BR5" \in assert_pin /\ CanGrant /\ phase = "off" /\ bg5' = TRUE
  /\ UNCHANGED <<npg, phase, target, slave_ssyn, memory, took, dev>> /\ BusOnly
EndGrant ==
  /\ SACK_IN /\ (npg \/ bg5) /\ npg' = FALSE /\ bg5' = FALSE
  /\ UNCHANGED <<phase, target, slave_ssyn, memory, took, dev>> /\ BusOnly

(* The processor reads memory or our register; it leaves the bus alone     *)
(* while a grant is out or SACK asserted, and may drop BBSY before SSYN.   *)
Cycle == UNCHANGED <<npg, bg5, slave_ssyn, memory, took, dev>> /\ BusOnly
CpuStarts ==
  /\ phase = "off" /\ ~BBSY_IN(bus) /\ CanGrant
  /\ phase' = "addr" /\ target' \in {Base, Start} /\ Cycle
CpuGoesOn ==
  /\ \/ phase = "addr" /\ ~msyn /\ ~SSYN_IN(bus) /\ phase' = "msyn" /\ UNCHANGED target
     \/ phase = "msyn" /\ SSYN_IN(bus) /\ phase' = "drop" /\ UNCHANGED target
     \/ phase = "drop" /\ phase' = "off" /\ target' = Start
  /\ Cycle

(* Memory, and the processor that takes a vector.                          *)
Slave ==
  /\ \/ /\ MSYN_IN(bus) /\ ~slave_ssyn /\ BUS_ADDR(bus) \in Memory /\ slave_ssyn' = TRUE
        /\ memory' = IF C1_IN(bus) THEN [memory EXCEPT ![BUS_ADDR(bus)] = BUS_DATA(bus)]
                     ELSE memory
        /\ UNCHANGED took
     \/ /\ INTR_IN /\ ~slave_ssyn /\ slave_ssyn' = TRUE
        /\ took' = Append(took, BUS_DATA(bus)) /\ UNCHANGED memory
     \/ /\ slave_ssyn /\ ~MSYN_IN(bus) /\ ~INTR_IN /\ slave_ssyn' = FALSE
        /\ UNCHANGED <<memory, took>>
  /\ UNCHANGED <<npg, bg5, phase, target, dev>> /\ BusOnly

(* The other board.                                                        *)
DevAsks ==
  /\ dev = "off" /\ dev' = "asks"
  /\ UNCHANGED <<npg, bg5, phase, target, slave_ssyn, memory, took>> /\ BusOnly
DevGoesOn ==
  /\ \/ dev = "asks" /\ NPG_OUT /\ dev' = "sack"
     \/ dev = "sack" /\ ~NPG_OUT /\ ~BBSY_IN(bus) /\ ~SSYN_IN(bus) /\ dev' = "owns"
     \/ dev = "owns" /\ dev' = "off"
  /\ UNCHANGED <<npg, bg5, phase, target, slave_ssyn, memory, took>> /\ BusOnly

-----------------------------------------------------------------------------
Init ==
  /\ CpldStart(Base, Grants)
  /\ pc = "off" /\ job = "read" /\ addr = Start /\ data = <<>> /\ words = <<>>
  /\ lag = ClocksPerAccess /\ npg = FALSE /\ bg5 = FALSE
  /\ phase = "off" /\ target = Start /\ slave_ssyn = FALSE
  /\ memory = [a \in Memory |-> Zero] /\ took = <<>> /\ dev = "off"

Next == \/ Tick \/ Serve \/ Call \/ Main \/ GrantNpg \/ GrantBg5 \/ EndGrant
        \/ CpuStarts \/ CpuGoesOn \/ Slave \/ DevAsks \/ DevGoesOn

Fairness ==
  /\ WF_masterVars(Tick) /\ SF_masterVars(Serve) /\ SF_masterVars(Main)
  /\ WF_masterVars(GrantNpg \/ EndGrant) /\ SF_masterVars(GrantBg5)
  /\ WF_masterVars(CpuGoesOn) /\ WF_masterVars(Slave) /\ WF_masterVars(DevGoesOn)
Spec == Init /\ [][Next]_masterVars /\ Fairness

-----------------------------------------------------------------------------
Moved == Words - Len(data)

MasterTypeOK ==
  /\ job \in {"write", "read", "intr"} /\ addr \in Address /\ Len(data) \in 0 .. Words
  /\ Len(words) \in 0 .. Words /\ lag \in 0 .. ClocksPerAccess
  /\ {npg, bg5, slave_ssyn} \subseteq BOOLEAN
  /\ phase \in {"off", "addr", "msyn", "drop"} /\ target \in {Base, Start}
  /\ memory \in [Memory -> Word] /\ took \in Seq(Word)
  /\ dev \in {"off", "asks", "sack", "owns"}

\* One master at a time: this board, the processor, the other board; and the
\* CPLD runs a master cycle only while the board is it.
OneMaster ==
  LET owners == {m \in {"board", "cpu", "dev"} :
                   \/ m = "board" /\ "BBSY" \in assert_pin
                   \/ m = "cpu" /\ phase # "off"
                   \/ m = "dev" /\ dev = "owns"}
  IN /\ \A m, n \in owners : m = n
     /\ msyn_assert => "board" \in owners

\* The board never makes a grant of its own for the next slot.
GrantNotForged == (NPG_OUT => npg) /\ (BG5_OUT => bg5)

\* Memory changes only by the word of the buffer whose turn it is.
WordInPlace ==
  [][memory' # memory =>
       /\ job = "write" /\ addr_out = Start + 2 * Moved
       /\ memory' = [memory EXCEPT ![addr_out] = words[Moved + 1]]]_memory

\* After the last word the whole buffer has been moved, in order.
BufferMoved ==
  (pc = "npg_low") => words = [i \in 1 .. Words |-> memory[Start + 2 * (i - 1)]]

\* An interrupt gives the processor its vector once: never another word and
\* never twice, and by the time unibus_interrupt drops INTR, and so when it
\* has returned, the processor has it.  A DMA gives it none.
VectorTaken ==
  /\ took \in {<<>>, <<Vector>>} /\ (job # "intr" => took = <<>>)
  /\ job = "intr" /\ pc \in {"drop", "ipass_on", "bg_low", "off"} => took = <<Vector>>

\* A call leaves nothing asserted, passes every grant on and leaves no
\* master cycle behind.
CleanAfter ==
  (pc = "off") => /\ assert_pin = {} /\ pass_thru = Grants
                  /\ ~dma_mode /\ ~pending_dma_write /\ ~pending_dma_read /\ MS0

\* Every call returns.
CallsReturn == (pc # "off") ~> (pc = "off")

=============================================================================
