------------------------------ MODULE CpldFree ------------------------------
(***************************************************************************)
(* The CPLD alone, between a bus and an ARM that may do anything: in each  *)
(* clock the other boards drive any levels of BusLevels and the ARM        *)
(* strobes anything of Strobes.  What holds here holds whatever the        *)
(* firmware and the host do, and needs no assumption about their timing.   *)
(***************************************************************************)
EXTENDS Cpld

CONSTANTS
  BusLevels,  \* the levels the other boards may drive
  Strobes     \* what the ARM may strobe

Levels == [msyn : BOOLEAN, ssyn : BOOLEAN, bbsy : BOOLEAN, c1 : BOOLEAN,
           addr : Address, data : Word]

ASSUME FreeAssumption == BusLevels \subseteq Levels /\ Strobes \subseteq Ops

Init == CpldInit
Next == Reset \/ \E b \in BusLevels, op \in Strobes : Clk(b, op)
Spec == Init /\ [][Next]_cpldVars

-----------------------------------------------------------------------------
\* The registers hold what their width allows.
TypeOK ==
  /\ ustate_s \subseteq 1 .. 3 /\ ustate_m \subseteq 1 .. 6
  /\ ssyn \in BOOLEAN /\ msyn \in BOOLEAN /\ bbsy \in BOOLEAN
  /\ dma_mode \in BOOLEAN /\ cpu_release \in BOOLEAN
  /\ cpu_int_internal \in BOOLEAN
  /\ pending_dma_write \in BOOLEAN /\ pending_dma_read \in BOOLEAN
  /\ addr_out \in Address /\ bus_data_hold \in Word
  /\ assert_pin \subseteq AssertPins /\ pass_thru \subseteq Grants
  /\ addr_match_1 \in Address
  /\ cpu_edge \in {"none", "rd", "wr"}

\* The two shift registers are one state machine: together they never hold
\* two bits, so the board is never slave and master in the same clock and
\* never drives MSYN and SSYN of its own accord at once (L326, L379).
OneMachine ==
  /\ \A i, j \in ustate_s : i = j
  /\ \A i, j \in ustate_m : i = j
  /\ ustate_s = {} \/ ustate_m = {}

\* No cycle inherits a release.  A slave cycle that enters SS1 finds
\* cpu_release set only if the ARM's write was seen in that very clock: a
\* release left by an earlier cycle, written too late or twice, is gone, since
\* SS0, SS2 and SS3 clear it (L564) unless a write strobe is seen, and two are
\* never seen in consecutive clocks (L427).  That one clock remains: a release
\* seen in it answers the new cycle before it is served.  The CPLD has nothing
\* against it; RegisterCycle!SsynOnlyWhenServed shows when cpld_isr has.
ReleaseNotInherited ==
  [][(1 \notin ustate_s /\ 1 \in ustate_s' /\ cpu_release')
     => ~cpu_release /\ cpu_edge' = "wr"]_cpldVars

\* While the board holds MSYN as master, or SSYN as slave, over a clock, the
\* address and the data it drives change only if the ARM strobes a write:
\* nothing the bus does can disturb them.  A DMA read is the exception for
\* the data register, which then follows the bus.
DrivenStable ==
  [][(/\ (msyn_assert /\ msyn_assert') \/ (ssyn_assert /\ ssyn_assert')
      /\ cpu_edge' # "wr")
     => /\ addr_out' = addr_out
        /\ ~pending_dma_read => bus_data_hold' = bus_data_hold]_cpldVars

=============================================================================
