----------------------------- MODULE Controller -----------------------------
(***************************************************************************)
(* The RL11 as a PDP-11 driver sees it through the ready bit (CRDY) and    *)
(* the interrupt: a command written to a ready controller is executed once *)
(* on the drive it names, then the controller is ready again, and          *)
(* interrupts once if the command asked for it.  A seek moves the heads of *)
(* its drive and of no other.                                              *)
(***************************************************************************)
EXTENDS Integers

CONSTANTS
  Drives,   \* unit numbers
  Funcs,    \* function codes
  Seek,     \* the function that moves the heads
  Endless,  \* functions that never complete
  Cyls,     \* cylinders of a drive
  Da,       \* values of the disk address register
  Target(_, _)  \* where a seek by a disk address ends, from a cylinder

VARIABLES
  phase,    \* "ready", "busy" or "finished" (executed, CRDY still clear)
  cmd,      \* the function, unit and interrupt enable of CS
  da,       \* the disk address register
  pos,      \* the cylinder of each drive
  pend      \* an interrupt is owed to the host

controllerVars == <<phase, cmd, da, pos, pend>>
Commands == [func : Funcs, ds : Drives, ie : BOOLEAN]

Init ==
  /\ phase = "ready" /\ pend = FALSE
  /\ cmd \in Commands /\ da \in Da /\ pos \in [Drives -> 0 .. Cyls - 1]

\* The host writes CS with CRDY clear, or, without a command, with CRDY set.
Issue ==
  /\ phase = "ready" /\ ~pend
  /\ cmd' \in Commands /\ phase' \in {"ready", "busy"}
  /\ UNCHANGED <<da, pos, pend>>

SetDa ==
  /\ phase = "ready" /\ ~pend /\ da' \in Da
  /\ UNCHANGED <<phase, cmd, pos, pend>>

\* A transfer advances the disk address.
Progress ==
  /\ phase = "busy" /\ cmd.func # Seek /\ da' \in Da
  /\ UNCHANGED <<phase, cmd, pos, pend>>

Execute ==
  /\ phase = "busy" /\ cmd.func \notin Endless /\ phase' = "finished"
  /\ pos' = IF cmd.func = Seek
              THEN [pos EXCEPT ![cmd.ds] = Target(pos[cmd.ds], da)] ELSE pos
  /\ UNCHANGED <<cmd, da, pend>>

Complete ==
  /\ phase = "finished" /\ phase' = "ready" /\ pend' = cmd.ie
  /\ UNCHANGED <<cmd, da, pos>>

Interrupt == pend /\ pend' = FALSE /\ UNCHANGED <<phase, cmd, da, pos>>

Next == Issue \/ SetDa \/ Progress \/ Execute \/ Complete \/ Interrupt
Fairness ==
  WF_controllerVars(Execute) /\ WF_controllerVars(Complete) /\ WF_controllerVars(Interrupt)
Spec == Init /\ [][Next]_controllerVars /\ Fairness

=============================================================================
