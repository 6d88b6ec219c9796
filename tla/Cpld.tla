-------------------------------- MODULE Cpld --------------------------------
(***************************************************************************)
(* The CPLD between the ARM and the UNIBUS (src/cpld/udisk_cpld.v), at the *)
(* level of its clock.  Each VARIABLE is a register of the Verilog, each   *)
(* operator of two arguments b (the levels other boards drive on the bus)  *)
(* and op (what the ARM strobes in this clock) is a wire or the next value *)
(* of a register, and Clk(b, op) is one positive edge of CLK.              *)
(*                                                                         *)
(* The one-hot registers ustate_s[2:0] and ustate_m[5:0] are the sets of   *)
(* their bits: {} is SS0/MS0, {2} is SS2/MS2.  Nothing below assumes that  *)
(* they hold at most one bit.                                              *)
(***************************************************************************)
EXTENDS Integers

CONSTANTS
  Word,       \* the values of a data word
  AddrSpace,  \* number of UNIBUS addresses (2^18)
  LoSpace,    \* addresses spanned by CPLD_REG_WR_ADDR_LO (2^16)
  Window,     \* addresses spanned by the address matcher (2^6)
  Zero        \* the word the data register holds after a reset

Address == 0 .. AddrSpace - 1

ASSUME AddrAssumption ==
  /\ AddrSpace \in Nat \ {0} /\ LoSpace \in Nat \ {0} /\ Window \in Nat \ {0}
  /\ LoSpace <= AddrSpace
ASSUME ZeroAssumption == Zero \in Word

VARIABLES
  ustate_s, ustate_m,                  \* slave and master state machines
  ssyn, msyn, bbsy,                    \* synchronised bus signals
  dma_mode, cpu_release, cpu_int_internal,
  pending_dma_write, pending_dma_read,
  addr_out, bus_data_hold,
  assert_pin, pass_thru, addr_match_1, \* written by the ARM only
  cpu_edge                             \* strobe whose edge the last clock saw

cpldVars == <<ustate_s, ustate_m, ssyn, msyn, bbsy, dma_mode, cpu_release,
              cpu_int_internal, pending_dma_write, pending_dma_read, addr_out,
              bus_data_hold, assert_pin, pass_thru, addr_match_1, cpu_edge>>

AssertPins == {"INTR", "BR5", "NPR", "BG5", "NPG", "BBSY", "SACK", "DATA_DIR"}
Grants     == {"BG4", "BG5", "NPG"}

(***************************************************************************)
(* What the ARM may strobe in one clock.                                   *)
(***************************************************************************)
NoOp         == [kind |-> "none", reg |-> "none", val |-> Zero]
Rd(r)        == [kind |-> "rd", reg |-> r, val |-> Zero]
Wr(r, v)     == [kind |-> "wr", reg |-> r, val |-> v]
Wrote(op, r) == op.kind = "wr" /\ op.reg = r

\* Everything the ARM can strobe: the registers and sub-registers of cpld.h.
Ops ==
       {NoOp} \cup {Rd("DATA")}
  \cup {Wr("PASS_THRU", v)   : v \in SUBSET Grants}
  \cup {Wr("ASSERT", v)      : v \in SUBSET AssertPins}
  \cup {Wr("MADDR1", v)      : v \in Address}
  \cup {Wr("WR_ADDR_HI", v)  : v \in Address}
  \cup {Wr("WR_ADDR_LO", v)  : v \in 0 .. LoSpace - 1}
  \cup {Wr("DATA", v)        : v \in Word}
  \cup {Wr("INT_RESET", Zero), Wr("CPU_RELEASE", Zero)}
  \cup {Wr("DMA_MODE", v)    : v \in BOOLEAN}

(***************************************************************************)
(* Wires.                                                                  *)
(***************************************************************************)
SS0     == ustate_s = {}
SS(i)   == i \in ustate_s
MS0     == ustate_m = {}
MS(i)   == i \in ustate_m
MSin(S) == ustate_m \cap S # {}

pending_dma == dma_mode /\ (pending_dma_write \/ pending_dma_read)

ssyn_assert == SS(3)
msyn_assert == MSin({3, 4})
addr_assert == MSin(1 .. 5)
c1_assert   == MSin(1 .. 4) /\ pending_dma_write

\* The wired-or lines, as this board sees them.
C1_IN(b)   == b.c1 \/ c1_assert
MSYN_IN(b) == b.msyn \/ msyn_assert
SSYN_IN(b) == b.ssyn \/ ssyn_assert
BBSY_IN(b) == b.bbsy \/ "BBSY" \in assert_pin

data_assert(b)  == (~C1_IN(b) /\ (SS(2) \/ SS(3))) \/ c1_assert
BUS_DATA_DIR(b) == "DATA_DIR" \in assert_pin \/ data_assert(b)
BUS_ADDR(b) == IF addr_assert THEN addr_out ELSE b.addr
BUS_DATA(b) == IF BUS_DATA_DIR(b) THEN bus_data_hold ELSE b.data

addr_match(b)     == BUS_ADDR(b) \div Window = addr_match_1 \div Window
unibus_master(b)  == bbsy /\ msyn /\ addr_match(b)
ustate_s_start(b) == unibus_master(b) /\ SS0 /\ MS0 /\ ~dma_mode
ustate_m_start_free(b) == pending_dma /\ MS0 \* mutant
ustate_m_start(b) == ~unibus_master(b) /\ pending_dma /\ SS0 /\ MS0

data_strobe(b) == (C1_IN(b) /\ SS(1)) \/ (MS(4) /\ pending_dma_read)
addr_strobe_any == msyn \* mutant: not gated by SS1
addr_strobe    == SS(1) /\ msyn
addr_incr      == MS(6)

(***************************************************************************)
(* Next values of the registers.                                           *)
(***************************************************************************)
\* Mutant: a slave register one bit too wide.
ShiftWide(reg, width, start) ==
  ({i + 1 : i \in reg} \cap (1 .. width + 1)) \cup {i \in {1} : start}
Shift(reg, width, start) ==
  ({i + 1 : i \in reg} \cap (1 .. width)) \cup {i \in {1} : start}

\* Mutant: SS3 does not wait for the master to drop MSYN.
SlaveNextNoWait(b) ==
  IF SS(1) /\ ~cpu_release
    THEN ustate_s ELSE Shift(ustate_s, 3, ustate_s_start(b))
SlaveNext(b) ==
  IF (SS(1) /\ ~cpu_release) \/ (SS(3) /\ unibus_master(b))
    THEN ustate_s ELSE Shift(ustate_s, 3, ustate_s_start(b))

MasterNext(b) ==
  IF ~dma_mode THEN {}
  ELSE IF (MS(4) /\ ~ssyn) \/ (MS(5) /\ ssyn) THEN ustate_m
  ELSE Shift(ustate_m, 6, ustate_m_start(b))

PendingNext(pending, kind, op) ==
  IF op.kind = kind /\ op.reg = "DATA" THEN dma_mode
  ELSE pending /\ ~MS(6)

AddrNext(b, op) ==
  IF addr_strobe THEN BUS_ADDR(b)
  ELSE IF op.kind = "wr"
    THEN CASE op.reg = "WR_ADDR_HI" -> (op.val * LoSpace + (addr_out % LoSpace)) % AddrSpace
           [] op.reg = "WR_ADDR_LO" -> ((addr_out \div LoSpace) * LoSpace + op.val) % AddrSpace
           [] OTHER -> addr_out
  ELSE IF addr_incr THEN (addr_out + 2) % AddrSpace
  ELSE addr_out

DataNext(b, op) ==
  IF data_strobe(b) THEN BUS_DATA(b)
  ELSE IF Wrote(op, "DATA") THEN op.val ELSE bus_data_hold

\* Mutant: cleared in SS2 only.
ReleaseNextLate(op) ==
  IF op.kind = "wr" THEN cpu_release \/ op.reg = "CPU_RELEASE"
  ELSE cpu_release /\ ~SS(2)

\* Mutant: never cleared.
ReleaseNextSticky(op) == cpu_release \/ Wrote(op, "CPU_RELEASE")

\* Written by the ARM; cleared when no strobe is seen outside SS1.
ReleaseNext(op) ==
  IF op.kind = "wr" THEN cpu_release \/ op.reg = "CPU_RELEASE"
  ELSE cpu_release /\ ~(SS0 \/ SS(2) \/ SS(3))

RegNext(reg, old, op) == IF Wrote(op, reg) THEN op.val ELSE old

\* The sub-register write clears the flip-flop asynchronously, so that the
\* clock that ends the strobe leaves it clear; the next one follows SS1.
IntNext(op) == SS(1) /\ ~Wrote(op, "INT_RESET")

-----------------------------------------------------------------------------
\* Out of reset; match and pass are what the ARM has set up since.
CpldStart(match, pass) ==
  /\ ustate_s = {} /\ ustate_m = {}
  /\ ssyn = FALSE /\ msyn = FALSE /\ bbsy = FALSE
  /\ dma_mode = FALSE /\ cpu_release = FALSE /\ cpu_int_internal = FALSE
  /\ pending_dma_write = FALSE /\ pending_dma_read = FALSE
  /\ addr_out = 0 /\ bus_data_hold = Zero
  /\ assert_pin = {} /\ pass_thru = pass /\ addr_match_1 = match
  /\ cpu_edge = "none"
CpldInit == CpldStart(0, {})

\* One clock edge.  A strobe is seen by its rising edge, so the same strobe
\* cannot be seen in two consecutive clocks.
Clk(b, op) ==
  /\ op.kind = "none" \/ op.kind # cpu_edge
  /\ ustate_s' = SlaveNext(b)
  /\ ustate_m' = MasterNext(b)
  /\ ssyn' = SSYN_IN(b) /\ msyn' = MSYN_IN(b) /\ bbsy' = BBSY_IN(b)
  /\ dma_mode' = RegNext("DMA_MODE", dma_mode, op)
  /\ cpu_release' = ReleaseNext(op)
  /\ cpu_int_internal' = IntNext(op)
  /\ pending_dma_write' = PendingNext(pending_dma_write, "wr", op)
  /\ pending_dma_read' = PendingNext(pending_dma_read, "rd", op)
  /\ addr_out' = AddrNext(b, op)
  /\ bus_data_hold' = DataNext(b, op)
  /\ assert_pin' = RegNext("ASSERT", assert_pin, op)
  /\ pass_thru' = RegNext("PASS_THRU", pass_thru, op)
  /\ addr_match_1' = RegNext("MADDR1", addr_match_1, op)
  /\ cpu_edge' = op.kind

\* cpld_reset (bus.c): RD and WR strobed together.
Reset ==
  /\ ustate_s' = {} /\ ustate_m' = {}
  /\ ssyn' = FALSE /\ msyn' = FALSE /\ bbsy' = FALSE
  /\ dma_mode' = FALSE /\ cpu_release' = FALSE /\ cpu_int_internal' = FALSE
  /\ pending_dma_write' = FALSE /\ pending_dma_read' = FALSE
  /\ addr_out' = 0 /\ bus_data_hold' = Zero
  /\ assert_pin' = {} /\ pass_thru' = {} /\ addr_match_1' = 0
  /\ cpu_edge' = "none"

=============================================================================
