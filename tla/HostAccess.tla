----------------------------- MODULE HostAccess -----------------------------
(***************************************************************************)
(* What the board promises to the masters of the UNIBUS: a bus cycle that  *)
(* addresses one of its registers is served exactly once, at one instant   *)
(* between the moment the master asks and the moment it gets its answer,   *)
(* and it does get one.  A read returns the value of the register at that  *)
(* instant, and only a service changes one: what the firmware's main loop  *)
(* stores is the subject of Rl11.                                          *)
(***************************************************************************)
EXTENDS Integers

CONSTANTS
  Word,     \* values of a register
  Reg,      \* the registers
  Slot,     \* the addresses the board answers, registers and holes alike
  Nothing   \* the answer of a write, and of no cycle

VARIABLES
  regs,     \* the registers
  phase,    \* "idle", "asked" or "served"
  req,      \* the cycle in progress: what, where, and the data of a write
  value,    \* what the service of this cycle returned
  got       \* what the master took from the last cycle

accessVars == <<regs, phase, req, value, got>>

Idle     == [kind |-> "none", slot |-> Nothing, data |-> Nothing]
Requests == [kind : {"read"}, slot : Slot, data : {Nothing}]
       \cup [kind : {"write"}, slot : Slot, data : Word]

Init ==
  /\ regs \in [Reg -> Word]
  /\ phase = "idle" /\ req = Idle /\ value = Nothing /\ got = Nothing

Ask ==
  /\ phase = "idle" /\ phase' = "asked"
  /\ req' \in Requests /\ value' = Nothing
  /\ UNCHANGED <<regs, got>>

\* A slot with no register behind it is answered too, with any word.
ServeRead ==
  /\ phase = "asked" /\ req.kind = "read" /\ phase' = "served"
  /\ value' \in IF req.slot \in Reg THEN {regs[req.slot]} ELSE Word
  /\ UNCHANGED <<regs, req, got>>

ServeWrite ==
  /\ phase = "asked" /\ req.kind = "write" /\ phase' = "served"
  /\ regs' = [r \in Reg |-> IF r = req.slot THEN req.data ELSE regs[r]]
  /\ UNCHANGED <<req, value, got>>

Answer ==
  /\ phase = "served" /\ phase' = "idle"
  /\ got' = value /\ req' = Idle /\ value' = Nothing
  /\ UNCHANGED regs

Next == Ask \/ ServeRead \/ ServeWrite \/ Answer

Fairness == WF_accessVars(ServeRead \/ ServeWrite) /\ WF_accessVars(Answer)
Spec     == Init /\ [][Next]_accessVars /\ Fairness

=============================================================================
