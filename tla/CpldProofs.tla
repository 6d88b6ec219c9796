----------------------------- MODULE CpldProofs -----------------------------
(***************************************************************************)
(* Proofs about the CPLD in an arbitrary environment (CpldFree).           *)
(***************************************************************************)
EXTENDS CpldFree, TLAPS

\* The strobes and bus levels of a clock have the types of their sets.
LEMMA OpType ==
  ASSUME NEW op \in Strobes
  PROVE  /\ op \in Ops
         /\ op.kind \in {"none", "rd", "wr"}
         /\ Wrote(op, "DMA_MODE") => op.val \in BOOLEAN
         /\ Wrote(op, "DATA") => op.val \in Word
         /\ Wrote(op, "ASSERT") => op.val \subseteq AssertPins
         /\ Wrote(op, "PASS_THRU") => op.val \subseteq Grants
         /\ Wrote(op, "MADDR1") => op.val \in Address
         /\ Wrote(op, "WR_ADDR_HI") => op.val \in Nat
         /\ Wrote(op, "WR_ADDR_LO") => op.val \in Nat
<1>1. op \in Ops
  BY FreeAssumption
<1>2. LoSpace \in Nat /\ AddrSpace \in Nat
  BY AddrAssumption
<1> QED
  BY <1>1, <1>2 DEF Ops, NoOp, Rd, Wr, Wrote, Address

\* Shifting a register of a given width keeps its bits within the width.
LEMMA ShiftWidth ==
  ASSUME NEW reg, NEW width \in Nat, 1 <= width, NEW start
  PROVE  Shift(reg, width, start) \subseteq 1 .. width
BY DEF Shift

\* Shifting at most one bit, and starting only from none, gives at most one.
LEMMA ShiftOneHot ==
  ASSUME NEW reg, NEW width \in Nat, NEW start,
         \A i, j \in reg : i = j, start => reg = {}
  PROVE  \A i, j \in Shift(reg, width, start) : i = j
<1> SUFFICES ASSUME NEW i \in Shift(reg, width, start),
                    NEW j \in Shift(reg, width, start)
             PROVE  i = j
  OBVIOUS
<1>1. CASE start
  BY <1>1 DEF Shift
<1>2. CASE ~start
  <2>1. PICK p \in reg : i = p + 1
    BY <1>2 DEF Shift
  <2>2. PICK q \in reg : j = q + 1
    BY <1>2 DEF Shift
  <2> QED
    BY <2>1, <2>2
<1> QED
  BY <1>1, <1>2

\* An idle machine that does not start stays idle.
LEMMA ShiftIdle ==
  ASSUME NEW width, NEW start, ~start
  PROVE  Shift({}, width, start) = {}
BY DEF Shift

\* An 18-bit register stays one: every next value of addr_out is an address.
LEMMA AddrRange ==
  ASSUME NEW b \in BusLevels, NEW op \in Strobes, addr_out \in Address
  PROVE  AddrNext(b, op) \in Address
<1> USE AddrAssumption DEF Address
<1>1. BUS_ADDR(b) \in Address
  BY FreeAssumption DEF BUS_ADDR, Levels
<1>2. \A n \in Nat : n % AddrSpace \in Address
  OBVIOUS
<1>3. (addr_out + 2) % AddrSpace \in Address
  BY <1>2
<1>4. ASSUME op.kind = "wr", op.reg = "WR_ADDR_HI"
      PROVE  (op.val * LoSpace + (addr_out % LoSpace)) % AddrSpace \in Address
  <2>1. op.val \in Nat
    BY <1>4, OpType DEF Wrote
  <2>2. addr_out % LoSpace \in Nat
    OBVIOUS
  <2>3. op.val * LoSpace \in Nat
    BY <2>1
  <2>4. op.val * LoSpace + (addr_out % LoSpace) \in Nat
    BY <2>2, <2>3
  <2> QED
    BY <2>4, <1>2
<1>5. ASSUME op.kind = "wr", op.reg = "WR_ADDR_LO"
      PROVE  ((addr_out \div LoSpace) * LoSpace + op.val) % AddrSpace \in Address
  <2>1. op.val \in Nat
    BY <1>5, OpType DEF Wrote
  <2>2. addr_out \div LoSpace \in Nat
    OBVIOUS
  <2>3. (addr_out \div LoSpace) * LoSpace \in Nat
    BY <2>2
  <2>4. (addr_out \div LoSpace) * LoSpace + op.val \in Nat
    BY <2>1, <2>3
  <2> QED
    BY <2>4, <1>2
<1> QED
  BY <1>1, <1>3, <1>4, <1>5 DEF AddrNext

\* CpldFree!TypeOK: no register of the CPLD ever leaves its range, for any
\* bus and any firmware.
THEOREM TypeCorrect == Spec => []TypeOK
<1>1. Init => TypeOK
  <2>1. 0 \in Address
    BY AddrAssumption DEF Address
  <2> QED
    BY <2>1, ZeroAssumption DEF Init, CpldInit, CpldStart, TypeOK
<1>2. TypeOK /\ [Next]_cpldVars => TypeOK'
  <2> SUFFICES ASSUME TypeOK, [Next]_cpldVars PROVE TypeOK'
    OBVIOUS
  <2>1. CASE Reset
    <3>1. 0 \in Address
      BY AddrAssumption DEF Address
    <3> QED
      BY <2>1, <3>1, ZeroAssumption DEF Reset, TypeOK
  <2>2. ASSUME NEW b \in BusLevels, NEW op \in Strobes, Clk(b, op)
        PROVE  TypeOK'
    <3>b. b \in Levels
      BY FreeAssumption
    <3>1. ustate_s' \subseteq 1 .. 3
      <4>1. Shift(ustate_s, 3, ustate_s_start(b)) \subseteq 1 .. 3
        BY ShiftWidth
      <4> QED
        BY <2>2, <4>1 DEF Clk, TypeOK, SlaveNext
    <3>2. ustate_m' \subseteq 1 .. 6
      <4>1. Shift(ustate_m, 6, ustate_m_start(b)) \subseteq 1 .. 6
        BY ShiftWidth
      <4> QED
        BY <2>2, <4>1 DEF Clk, TypeOK, MasterNext
    <3>3. ssyn' \in BOOLEAN /\ msyn' \in BOOLEAN /\ bbsy' \in BOOLEAN
      BY <2>2, <3>b DEF Clk, Levels, SSYN_IN, MSYN_IN, BBSY_IN, ssyn_assert,
           msyn_assert, SS, MSin
    <3>4. dma_mode' \in BOOLEAN
      BY <2>2, OpType DEF Clk, RegNext, TypeOK
    <3>5. cpu_release' \in BOOLEAN
      BY <2>2 DEF Clk, ReleaseNext, TypeOK
    <3>6. cpu_int_internal' \in BOOLEAN
      BY <2>2 DEF Clk, IntNext, SS
    <3>7. pending_dma_write' \in BOOLEAN /\ pending_dma_read' \in BOOLEAN
      BY <2>2 DEF Clk, PendingNext, TypeOK, MS
    <3>8. addr_out' \in Address
      BY <2>2, AddrRange DEF Clk, TypeOK
    <3>9. bus_data_hold' \in Word
      BY <2>2, <3>b, OpType DEF Clk, DataNext, BUS_DATA, Levels, TypeOK
    <3>10. assert_pin' \subseteq AssertPins /\ pass_thru' \subseteq Grants
           /\ addr_match_1' \in Address
      BY <2>2, OpType DEF Clk, RegNext, TypeOK
    <3>11. cpu_edge' \in {"none", "rd", "wr"}
      BY <2>2, OpType DEF Clk
    <3> QED
      BY <3>1, <3>2, <3>3, <3>4, <3>5, <3>6, <3>7, <3>8, <3>9, <3>10, <3>11
      DEF TypeOK
  <2>3. CASE UNCHANGED cpldVars
    BY <2>3 DEF cpldVars, TypeOK
  <2> QED
    BY <2>1, <2>2, <2>3 DEF Next
<1> QED
  BY <1>1, <1>2, PTL DEF Spec

-----------------------------------------------------------------------------
\* One clock keeps the slave machine one-hot.
LEMMA SlaveOneHot ==
  ASSUME NEW b, OneMachine
  PROVE  \A i, j \in SlaveNext(b) : i = j
<1>1. \A i, j \in ustate_s : i = j
  BY DEF OneMachine
<1>2. ustate_s_start(b) => ustate_s = {}
  BY DEF ustate_s_start, SS0
<1>3. \A i, j \in Shift(ustate_s, 3, ustate_s_start(b)) : i = j
  BY <1>1, <1>2, ShiftOneHot
<1> QED
  BY <1>1, <1>3 DEF SlaveNext

\* One clock keeps the master machine one-hot.
LEMMA MasterOneHot ==
  ASSUME NEW b, OneMachine
  PROVE  \A i, j \in MasterNext(b) : i = j
<1>1. \A i, j \in ustate_m : i = j
  BY DEF OneMachine
<1>2. ustate_m_start(b) => ustate_m = {}
  BY DEF ustate_m_start, MS0
<1>3. \A i, j \in Shift(ustate_m, 6, ustate_m_start(b)) : i = j
  BY <1>1, <1>2, ShiftOneHot
<1> QED
  BY <1>1, <1>3 DEF MasterNext

\* The two machines do not start together: one starts on a matching cycle of
\* another master, the other only without one, and each only from idle.
LEMMA OneStarts ==
  ASSUME NEW b, OneMachine
  PROVE  SlaveNext(b) = {} \/ MasterNext(b) = {}
<1>1. CASE ustate_s # {}
  <2>1. ustate_m = {} /\ ~ustate_m_start(b)
    BY <1>1 DEF OneMachine, ustate_m_start, SS0
  <2> QED
    BY <2>1, ShiftIdle DEF MasterNext
<1>2. CASE ustate_m # {}
  <2>1. ustate_s = {} /\ ~ustate_s_start(b)
    BY <1>2 DEF OneMachine, ustate_s_start, MS0
  <2> QED
    BY <2>1, ShiftIdle DEF SlaveNext, SS
<1>3. CASE ustate_s = {} /\ ustate_m = {}
  <2>1. ~ustate_s_start(b) \/ ~ustate_m_start(b)
    BY DEF ustate_s_start, ustate_m_start
  <2> QED
    BY <1>3, <2>1, ShiftIdle DEF SlaveNext, MasterNext, SS, MS
<1> QED
  BY <1>1, <1>2, <1>3

\* CpldFree!OneMachine: whatever the bus and the firmware do, the board is
\* never slave and master at once and each machine is in one state.
THEOREM OneMachineAlways == Spec => []OneMachine
<1>1. Init => OneMachine
  BY DEF Init, CpldInit, CpldStart, OneMachine
<1>2. OneMachine /\ [Next]_cpldVars => OneMachine'
  <2> SUFFICES ASSUME OneMachine, [Next]_cpldVars PROVE OneMachine'
    OBVIOUS
  <2>1. CASE Reset
    BY <2>1 DEF Reset, OneMachine
  <2>2. ASSUME NEW b \in BusLevels, NEW op \in Strobes, Clk(b, op)
        PROVE  OneMachine'
    <3>1. ustate_s' = SlaveNext(b) /\ ustate_m' = MasterNext(b)
      BY <2>2 DEF Clk
    <3>3. \A i, j \in SlaveNext(b) : i = j
      BY SlaveOneHot
    <3>4. \A i, j \in MasterNext(b) : i = j
      BY MasterOneHot
    <3>5. SlaveNext(b) = {} \/ MasterNext(b) = {}
      BY OneStarts
    <3> QED
      BY <3>1, <3>3, <3>4, <3>5 DEF OneMachine
  <2>3. CASE UNCHANGED cpldVars
    BY <2>3 DEF cpldVars, OneMachine
  <2> QED
    BY <2>1, <2>2, <2>3 DEF Next
<1> QED
  BY <1>1, <1>2, PTL DEF Spec

-----------------------------------------------------------------------------
\* With neither SS1 nor SS2 set, a release survives only the one clock in
\* which a write strobe was seen.
ReleaseShortLived ==
  (cpu_release /\ ustate_s \cap {1, 2} = {}) => cpu_edge = "wr"

LEMMA ReleaseAlwaysShortLived == Spec => []ReleaseShortLived
<1>1. Init => ReleaseShortLived
  BY DEF Init, CpldInit, CpldStart, ReleaseShortLived
<1>2. TypeOK /\ ReleaseShortLived /\ [Next]_cpldVars => ReleaseShortLived'
  <2> SUFFICES ASSUME TypeOK, ReleaseShortLived, [Next]_cpldVars
               PROVE  ReleaseShortLived'
    OBVIOUS
  <2>1. CASE Reset
    BY <2>1 DEF Reset, ReleaseShortLived
  <2>2. ASSUME NEW b \in BusLevels, NEW op \in Strobes, Clk(b, op)
        PROVE  ReleaseShortLived'
    <3>1. CASE op.kind = "wr"
      BY <2>2, <3>1 DEF Clk, ReleaseShortLived
    <3>2. CASE op.kind # "wr" /\ 1 \notin ustate_s
      <4>1. cpu_release' => ~(SS0 \/ SS(2) \/ SS(3)) /\ cpu_release
        BY <2>2, <3>2 DEF Clk, ReleaseNext
      <4>2. ~cpu_release'
        BY <4>1, <3>2 DEF SS0, SS, TypeOK
      <4> QED
        BY <4>2 DEF ReleaseShortLived
    <3>3. CASE op.kind # "wr" /\ 1 \in ustate_s
      <4>1. 1 \in SlaveNext(b) \/ 2 \in SlaveNext(b)
        BY <3>3 DEF SlaveNext, Shift
      <4> QED
        BY <2>2, <4>1 DEF Clk, ReleaseShortLived
    <3> QED
      BY <3>1, <3>2, <3>3
  <2>3. CASE UNCHANGED cpldVars
    BY <2>3 DEF cpldVars, ReleaseShortLived
  <2> QED
    BY <2>1, <2>2, <2>3 DEF Next
<1> QED
  BY <1>1, <1>2, TypeCorrect, PTL DEF Spec

\* CpldFree!ReleaseNotInherited: for any bus and any firmware, a release that
\* a cycle finds in SS1 was written in the clock that began it.  SS1 is entered
\* from idle, so a release of before has a strobe behind it, and the next
\* clock sees no second one: it clears the release.
THEOREM ReleaseNeverInherited == Spec => ReleaseNotInherited
<1> DEFINE Enters == 1 \notin ustate_s /\ 1 \in ustate_s' /\ cpu_release'
<1>1. TypeOK /\ ReleaseShortLived /\ [Next]_cpldVars
      => [Enters => ~cpu_release /\ cpu_edge' = "wr"]_cpldVars
  <2> SUFFICES ASSUME TypeOK, ReleaseShortLived, Next, Enters
               PROVE  ~cpu_release /\ cpu_edge' = "wr"
    OBVIOUS
  <2>1. ~Reset
    BY DEF Reset
  <2>2. PICK b \in BusLevels, op \in Strobes : Clk(b, op)
    BY <2>1 DEF Next
  <2>3. 1 \in SlaveNext(b)
    BY <2>2 DEF Clk
  <2>4. ustate_s = {}
    <3>1. CASE (SS(1) /\ ~cpu_release) \/ (SS(3) /\ unibus_master(b))
      BY <2>3, <3>1 DEF SlaveNext
    <3>2. CASE ~((SS(1) /\ ~cpu_release) \/ (SS(3) /\ unibus_master(b)))
      <4>1. 1 \in Shift(ustate_s, 3, ustate_s_start(b))
        BY <2>3, <3>2 DEF SlaveNext
      <4>2. CASE ustate_s_start(b)
        BY <4>2 DEF ustate_s_start, SS0
      <4>3. CASE ~ustate_s_start(b)
        <5>1. PICK i \in ustate_s : i + 1 = 1
          BY <4>1, <4>3 DEF Shift
        <5>2. i \in 1 .. 3
          BY DEF TypeOK
        <5> QED
          BY <5>1, <5>2
      <4> QED
        BY <4>2, <4>3
    <3> QED
      BY <3>1, <3>2
  <2>5. op.kind = "wr"
    <3> SUFFICES ASSUME op.kind # "wr" PROVE FALSE
      OBVIOUS
    <3>1. cpu_release' = (cpu_release /\ ~(SS0 \/ SS(2) \/ SS(3)))
      BY <2>2 DEF Clk, ReleaseNext
    <3> QED
      BY <3>1, <2>4 DEF SS0
  <2>6. cpu_edge # "wr"
    BY <2>2, <2>5 DEF Clk
  <2>7. ~cpu_release
    BY <2>4, <2>6 DEF ReleaseShortLived
  <2> QED
    BY <2>2, <2>5, <2>7 DEF Clk
<1> QED
  BY <1>1, TypeCorrect, ReleaseAlwaysShortLived, PTL DEF Spec, ReleaseNotInherited
-----------------------------------------------------------------------------
\* CpldFree!DrivenStable: while MSYN or SSYN is held over a clock, nothing but
\* a write strobe of the firmware moves the address and the data the board
\* drives (a DMA read moves the data only).  The two machines being one-hot
\* and exclusive is what keeps the other actor's strobe away: SS1 loads the
\* address, MS6 increments it, and neither can be set with MSYN or SSYN.
THEOREM DrivenAlwaysStable == Spec => DrivenStable
<1> DEFINE Held == (msyn_assert /\ msyn_assert') \/ (ssyn_assert /\ ssyn_assert')
           Kept == /\ addr_out' = addr_out
                   /\ ~pending_dma_read => bus_data_hold' = bus_data_hold
<1>1. OneMachine /\ [Next]_cpldVars => [Held /\ cpu_edge' # "wr" => Kept]_cpldVars
  <2> SUFFICES ASSUME OneMachine, Next, Held, cpu_edge' # "wr" PROVE Kept
    OBVIOUS
  <2>1. ~Reset
    BY DEF Reset, msyn_assert, ssyn_assert, MSin, SS
  <2>2. PICK b \in BusLevels, op \in Strobes : Clk(b, op)
    BY <2>1 DEF Next
  <2>3. op.kind # "wr"
    BY <2>2 DEF Clk
  <2>4. ~SS(1) /\ ~MS(6)
    BY DEF OneMachine, msyn_assert, ssyn_assert, MSin, SS, MS
  <2>5. addr_out' = addr_out
    BY <2>2, <2>3, <2>4 DEF Clk, AddrNext, addr_strobe, addr_incr
  <2>6. ASSUME ~pending_dma_read PROVE bus_data_hold' = bus_data_hold
    BY <2>2, <2>3, <2>4, <2>6 DEF Clk, DataNext, data_strobe, Wrote
  <2> QED
    BY <2>5, <2>6
<1> QED
  BY <1>1, OneMachineAlways, PTL DEF Spec, DrivenStable
=============================================================================
