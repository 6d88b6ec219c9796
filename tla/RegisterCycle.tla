--------------------------- MODULE RegisterCycle ---------------------------
(***************************************************************************)
(* A bus cycle addressed to the board, from the master's MSYN to the       *)
(* board's SSYN: the CPLD latches the cycle and interrupts the ARM         *)
(* (Cpld), the pin change crosses the PIO and the AIC, cpld_isr (isr2.c)   *)
(* serves the cycle and writes CPU_RELEASE.  The master, the CPLD and the  *)
(* ARM advance on their own; one step of cpld_isr is one access to the     *)
(* CPLD, the PIO or the AIC.  The registers are abstract words; what they  *)
(* mean is the subject of Rl11.                                            *)
(***************************************************************************)
EXTENDS Cpld

CONSTANTS
  Decode,           \* addresses of the window that cpld_isr tells apart (2^4)
  Reg,              \* the registers, by their addresses among these
  CS,               \* the one that the short circuit serves
  Base,             \* first address of the window
  Targets,          \* addresses the masters use
  ClocksPerAccess,  \* CPLD clocks between two accesses of the ARM, at least
  PatientHost,      \* a master lets cpld_isr return, or reach its wait for the
                    \* second half of a DATIP, before its next MSYN to the board
  Nothing           \* no data

ASSUME CycleAssumption ==
  /\ Decode \in Nat \ {0} /\ Window % Decode = 0
  /\ Reg \subseteq 0 .. Decode - 1 /\ CS \in Reg
  /\ Base \in Address /\ Base % Window = 0
  /\ Base \div Window # 0     \* what an idle bus reads as is memory's
  /\ LoSpace % Window = 0
  /\ Targets \subseteq Address /\ ClocksPerAccess \in Nat
  /\ PatientHost \in BOOLEAN /\ Nothing \notin Word

VARIABLES
  phase,    \* of the master: "idle", "addr", "msyn" or "drop"
  cycle,    \* the cycle it runs
  mem_ssyn, \* the SSYN of another slave
  got,      \* what the last read of the board returned
  isr,      \* the next access of cpld_isr; "off" when it is not running
  sigs,     \* C0 and C1 as the ISR sampled them
  addr_lo,  \* its copy of the address
  regs,
  pio, aic, \* the PIO's change flag, and the AIC's edge latch
  main,     \* "run", "di" (interrupts disabled) or "cf" (CPU_A3 is high)
  lag,      \* CPLD clocks since the ARM's last access, up to the bound
  served, value  \* history: this cycle was served, and with what

hostVars  == <<phase, cycle, mem_ssyn, got>>
isrVars   == <<isr, sigs, addr_lo, regs>>
pinVars   == <<pio, aic>>
history   == <<served, value>>
cycleVars == <<cpldVars, hostVars, isrVars, pinVars, main, lag, history>>

-----------------------------------------------------------------------------
(* The bus, as the master and the other slaves drive it.                   *)
Quiet == [kind |-> "none", addr |-> 0, data |-> Zero]
Cycles ==
       [kind : {"DATI", "DATIP"}, addr : Targets, data : {Zero}]
  \cup [kind : {"DATO"}, addr : Targets, data : Word]

ours == phase # "idle" /\ cycle.addr \div Window = Base \div Window
bus  == [msyn |-> phase = "msyn", ssyn |-> mem_ssyn, bbsy |-> phase # "idle",
         c1 |-> cycle.kind = "DATO", addr |-> cycle.addr, data |-> cycle.data]

-----------------------------------------------------------------------------
(* The interrupt pin.  The PIO flags any change of CPU_INT; the AIC, which *)
(* is edge triggered, latches the flag as it rises.                        *)
CPU_INT == cpu_int_internal /\ main # "cf"

Pin ==
  IF CPU_INT' # CPU_INT
    THEN pio' = TRUE /\ aic' = (aic \/ ~pio)
    ELSE UNCHANGED pinVars

Tick ==
  /\ Clk(bus, NoOp) /\ UNCHANGED <<hostVars, isrVars, main, history>> /\ Pin
  /\ lag' = IF lag < ClocksPerAccess THEN lag + 1 ELSE lag

(* One access of cpld_isr to the CPLD.                                     *)
Access(at, op, next) ==
  /\ isr = at /\ isr' = next /\ lag = ClocksPerAccess /\ lag' = 0
  /\ Clk(bus, op) /\ UNCHANGED <<hostVars, main>> /\ Pin

-----------------------------------------------------------------------------
(* cpld_isr.                                                               *)
IsrEnter ==
  /\ isr = "off" /\ aic /\ main = "run"
  /\ isr' = "ack" /\ aic' = FALSE
  /\ UNCHANGED <<cpldVars, hostVars, sigs, addr_lo, regs, pio, main, lag,
                 history>>

\* *AT91C_AIC_ICCR = 0xffffffff
ClearAic(at, next) ==
  /\ isr = at /\ isr' = next /\ lag = ClocksPerAccess /\ aic' = FALSE
  /\ UNCHANGED <<cpldVars, hostVars, sigs, addr_lo, regs, pio, main, lag,
                 history>>

\* v = *AT91C_PIOA_ISR
ClearPio(at, next) ==
  /\ isr = at /\ isr' = next /\ pio' = FALSE
  /\ UNCHANGED <<cpldVars, hostVars, sigs, addr_lo, regs, aic, main, lag,
                 history>>

IsrAck ==
  \/ /\ Access("ack", Wr("INT_RESET", Zero), "iccr1")
     /\ UNCHANGED <<sigs, addr_lo, regs, history>>
  \/ ClearAic("iccr1", "pio1")
  \/ ClearPio("pio1", "status")

Sample == sigs' = [c0 |-> cycle.kind = "DATIP", c1 |-> C1_IN(bus)]

IsrStatus ==
  /\ Access("status", Rd("STATUS"), "addr_lo") /\ Sample
  /\ UNCHANGED <<addr_lo, regs, history>>

\* Mutant: keeps the bits above CPLD_REG_RD_ADDR_LO.
IsrAddrLoWide ==
  /\ Access("addr_lo", Rd("ADDR_LO"), "ack2") /\ addr_lo' = addr_out
  /\ UNCHANGED <<sigs, regs, history>>

IsrAddrLo ==
  /\ Access("addr_lo", Rd("ADDR_LO"),
            IF ~sigs.c1 /\ ~sigs.c0 /\ addr_out % Window = CS
              THEN "cs" ELSE "ack2")
  /\ addr_lo' = addr_out % LoSpace
  /\ UNCHANGED <<sigs, regs, history>>

\* The short circuit: a DATI of the control and status register.
IsrShortCs ==
  /\ Access("cs", Wr("DATA", regs[CS]), "cs_release")
  /\ served' = TRUE /\ value' = regs[CS]
  /\ UNCHANGED <<sigs, addr_lo, regs>>

IsrShortRelease ==
  /\ \/ Access("cs_release", Wr("CPU_RELEASE", Zero), "cs_ack")
     \/ Access("cs_ack", Wr("INT_RESET", Zero), "iccr")
  /\ UNCHANGED <<sigs, addr_lo, regs, history>>

IsrLong ==
  /\ \/ Access("ack2", Wr("INT_RESET", Zero), "addr_hi")
     \/ Access("addr_hi", Rd("ADDR_HI"),
          IF addr_out \div LoSpace # Base \div LoSpace THEN "iccr"
          ELSE IF sigs.c1 THEN "write" ELSE "read")
  /\ UNCHANGED <<sigs, addr_lo, regs, history>>

\* The switches look at the low bits of the address: each register is there
\* again in the rest of the window.  (The one for writes looks at bit 0 too; a
\* byte written to an odd address is nobody's.  Byte cycles are left out.)
register == addr_lo % Decode

\* A register that the switch does not name leaves data uninitialised.
IsrRead ==
  /\ \E v \in IF register \in Reg THEN {regs[register]} ELSE Word :
       /\ Access("read", Wr("DATA", v), IF sigs.c0 THEN "half" ELSE "release")
       /\ value' = v
  /\ served' = TRUE
  /\ UNCHANGED <<sigs, addr_lo, regs>>

\* DATIP: release the read, then wait for the write half of the cycle.
IsrHalf ==
  \/ /\ Access("half", Wr("CPU_RELEASE", Zero), "cycled")
     /\ UNCHANGED <<sigs, addr_lo, regs, history>>
  \/ /\ Access("cycled", Rd("STATUS"), IF SS(1) THEN "cycled" ELSE "again")
     /\ Sample /\ UNCHANGED <<addr_lo, regs, history>>
  \/ /\ Access("again", Rd("STATUS"),
               IF ~SS(1) THEN "again" ELSE IF C1_IN(bus) THEN "write" ELSE "release")
     /\ Sample /\ UNCHANGED <<addr_lo, regs, history>>

IsrWrite ==
  /\ Access("write", Rd("DATA"), "release")
  /\ regs' = [r \in Reg |-> IF r = register THEN bus_data_hold ELSE regs[r]]
  /\ served' = TRUE
  /\ UNCHANGED <<sigs, addr_lo, value>>

IsrRelease ==
  /\ Access("release", Wr("CPU_RELEASE", Zero), "iccr")
  /\ UNCHANGED <<sigs, addr_lo, regs, history>>

IsrDoneKeepsFlag == ClearAic("iccr", "off") \* mutant: PIOA_ISR is not read
IsrDone == ClearAic("iccr", "pio") \/ ClearPio("pio", "off")

Isr == \/ IsrEnter \/ IsrAck \/ IsrStatus \/ IsrAddrLo \/ IsrShortCs
       \/ IsrShortRelease \/ IsrLong \/ IsrRead \/ IsrHalf \/ IsrWrite
       \/ IsrRelease \/ IsrDone

-----------------------------------------------------------------------------
(* The rest of the firmware, as far as a bus cycle can tell: it disables   *)
(* interrupts, and reaches the IDE port with CPU_A3 high.                  *)
MainMasks ==
  /\ isr = "off" /\ main = "run" /\ main' = "di"
  /\ UNCHANGED <<cpldVars, hostVars, isrVars, pinVars, lag, history>>

MainGoesOn ==
  /\ isr = "off"
  /\ \/ main = "di" /\ main' \in {"run", "cf"}
     \/ main = "cf" /\ main' = "run"
  /\ UNCHANGED <<cpldVars, hostVars, isrVars, lag, history>> /\ Pin

-----------------------------------------------------------------------------
(* The masters of the bus: the PDP-11 and the other boards.                *)
HostOnly == UNCHANGED <<cpldVars, isrVars, pinVars, main, lag>>

\* The UNIBUS keeps 75 to 150 ns, four to seven clocks, between two changes of
\* its address and MSYN lines: at least the one that samples MSYN.
Deskew == msyn = (phase = "msyn")

HostAsks ==
  /\ phase = "idle" /\ phase' = "addr" /\ cycle' \in Cycles
  /\ Deskew
  /\ served' = FALSE /\ value' = Nothing
  /\ UNCHANGED <<mem_ssyn, got>> /\ HostOnly

HostMsyn ==
  /\ phase = "addr" /\ Deskew /\ phase' = "msyn"
  /\ (PatientHost /\ ours) => isr \in {"off", "again"}
  /\ UNCHANGED <<cycle, mem_ssyn, got, history>> /\ HostOnly

MemoryAnswers ==
  /\ ~ours /\ mem_ssyn # (phase = "msyn") /\ mem_ssyn' = (phase = "msyn")
  /\ UNCHANGED <<phase, cycle, got, history>> /\ HostOnly

HostTakes ==
  /\ phase = "msyn" /\ SSYN_IN(bus) /\ phase' = "drop"
  /\ got' = IF ~ours THEN got
            ELSE IF cycle.kind = "DATO" THEN Nothing ELSE BUS_DATA(bus)
  /\ UNCHANGED <<cycle, mem_ssyn, history>> /\ HostOnly

\* A DATIP is followed by a DATO to the same address, the bus being held.
HostEnds ==
  /\ phase = "drop" /\ ~SSYN_IN(bus)
  /\ IF cycle.kind = "DATIP"
       THEN phase' = "addr" /\ \E v \in Word :
              cycle' = [cycle EXCEPT !.kind = "DATO", !.data = v]
       ELSE phase' = "idle" /\ cycle' = Quiet
  /\ served' = FALSE /\ value' = Nothing
  /\ UNCHANGED <<mem_ssyn, got>> /\ HostOnly

HostGoesOn == HostMsyn \/ MemoryAnswers \/ HostTakes \/ HostEnds

-----------------------------------------------------------------------------
Init ==
  /\ CpldStart(Base, Grants)
  /\ phase = "idle" /\ cycle = Quiet /\ mem_ssyn = FALSE /\ got = Nothing
  /\ isr = "off" /\ sigs = [c0 |-> FALSE, c1 |-> FALSE] /\ addr_lo = 0
  /\ regs \in [Reg -> Word]
  /\ pio = FALSE /\ aic = FALSE /\ main = "run" /\ lag = ClocksPerAccess
  /\ served = FALSE /\ value = Nothing

Next == Tick \/ Isr \/ MainMasks \/ MainGoesOn \/ HostAsks \/ HostGoesOn

\* The clock runs, cpld_isr and every section that disables interrupts are
\* finite, a pending interrupt is taken when they are enabled, and a master
\* finishes the cycle it began.
Fairness ==
  /\ WF_cycleVars(Tick) /\ WF_cycleVars(Isr) /\ SF_cycleVars(IsrEnter)
  /\ WF_cycleVars(MainGoesOn) /\ WF_cycleVars(HostGoesOn)
Spec == Init /\ [][Next]_cycleVars /\ Fairness

-----------------------------------------------------------------------------
CycleTypeOK ==
  /\ phase \in {"idle", "addr", "msyn", "drop"} /\ cycle \in Cycles \cup {Quiet}
  /\ got \in Word \cup {Nothing} /\ value \in Word \cup {Nothing}
  /\ isr \in {"off", "ack", "iccr1", "pio1", "status", "addr_lo", "cs",
              "cs_release", "cs_ack", "ack2", "addr_hi", "read", "half",
              "cycled", "again", "write", "release", "iccr", "pio"}
  /\ sigs \in [c0 : BOOLEAN, c1 : BOOLEAN] /\ addr_lo \in 0 .. LoSpace - 1
  /\ regs \in [Reg -> Word] /\ main \in {"run", "di", "cf"}
  /\ {pio, aic, served, mem_ssyn} \subseteq BOOLEAN
  /\ lag \in 0 .. ClocksPerAccess

\* The board answers only a cycle addressed to it, and only once cpld_isr
\* has served this very cycle: SSYN is never left over from an earlier one.
SsynOnlyWhenServed ==
  ssyn_assert => /\ ours /\ phase \in {"msyn", "drop"} /\ served

\* No master is left waiting with its interrupt lost: when the state machine
\* waits for CPU_RELEASE and no ISR runs, an interrupt is latched or the edge
\* that will latch it has still to come.
InterruptNotLost ==
  (SS(1) /\ cpu_int_internal /\ isr = "off" /\ main # "cf") => aic

\* A master that asserts MSYN at one of our registers gets its answer.
EveryCycleAnswered == (ours /\ phase = "msyn") ~> (phase = "drop")

\* A cycle in progress: read, write, or the two halves of a DATIP, as the
\* abstract interface sees it.
abstractPhase ==
  IF ~ours \/ phase = "drop" THEN "idle" ELSE IF served THEN "served" ELSE "asked"

HA == INSTANCE HostAccess WITH
  Slot <- {a % Decode : a \in {t \in Targets : t \div Window = Base \div Window}},
  phase <- abstractPhase,
  req <- IF abstractPhase = "idle" THEN [kind |-> "none", slot |-> Nothing, data |-> Nothing]
         ELSE [kind |-> IF cycle.kind = "DATO" THEN "write" ELSE "read",
               slot |-> cycle.addr % Decode,
               data |-> IF cycle.kind = "DATO" THEN cycle.data ELSE Nothing],
  value <- IF abstractPhase = "idle" THEN Nothing ELSE value

\* Every cycle addressed to the board is served exactly once, between its
\* MSYN and its SSYN, returns the register of that instant, and is answered.
ServesExactlyOnce == HA!Spec

=============================================================================
