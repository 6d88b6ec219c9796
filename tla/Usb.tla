-------------------------------- MODULE Usb --------------------------------
(***************************************************************************)
(* The loader's USB driver (loader/usb.c) on the device port of the chip,  *)
(* and its main loop.  The port has two banks for packets from the PC,     *)
(* which it fills in turn, and one packet to the PC at a time; a bus reset *)
(* is an event the driver polls for, in every loop it waits in.  Commands  *)
(* fit in one packet that is not full, so usb_read ends with the first.    *)
(* The driver's update of the control register of an endpoint is one step. *)
(***************************************************************************)
EXTENDS Samba

VARIABLES
  port,            \* the PC's side: "gone", "reset" or "up"
  event,           \* of UDP_ISR: "none", "reset" or "configure"
  bank,            \* the bank that the port fills next
  rx,              \* the packets in the banks
  tx, txcomp,      \* the packet to the PC; it has been taken
  configured,      \* currentConfiguration
  currentRcvBank,
  buf,             \* the command that was read
  out,             \* what usb_write has still to put out
  pc               \* where the firmware is

udpVars == <<event, bank, rx, tx, txcomp, configured>>
usbVars == <<port, udpVars, currentRcvBank, buf, out, pc>>

NoPackets == [b \in {0, 1} |-> None]

\* Of the requests to endpoint 0, SET_CONFIGURATION is the one that changes what
\* the driver goes by; the others are answered there and forgotten.
usb_enumerate ==
  /\ event = "configure" /\ event' = "none" /\ configured' = TRUE
  /\ rx' = NoPackets /\ UNCHANGED <<bank, tx, txcomp>>

\* The bus was reset: all endpoints are, and the port goes back to bank 0.
ResetEndpoints ==
  /\ event = "reset" /\ event' = "none" /\ configured' = FALSE
  /\ rx' = NoPackets /\ bank' = 0 /\ tx' = None /\ txcomp' = FALSE

usb_isconfigured ==
  ResetEndpoints \/ usb_enumerate \/ (event = "none" /\ UNCHANGED udpVars)

usb_poll ==
  /\ pc = "poll" /\ usb_isconfigured /\ pc' = IF configured' THEN "read" ELSE "poll"
  /\ UNCHANGED <<port, currentRcvBank, buf, out>>

\* Mutant: the bank is not changed.
FetchSame ==
  /\ rx[currentRcvBank] # None /\ buf' = rx[currentRcvBank]
  /\ rx' = [rx EXCEPT ![currentRcvBank] = None]
  /\ currentRcvBank' = currentRcvBank /\ pc' = "samba"

\* The packet in the current bank, which is then free; the other is next.
Fetch ==
  /\ rx[currentRcvBank] # None /\ buf' = rx[currentRcvBank]
  /\ rx' = [rx EXCEPT ![currentRcvBank] = None]
  /\ currentRcvBank' = 1 - currentRcvBank /\ pc' = "samba"

usb_read ==
  /\ pc = "read" /\ UNCHANGED <<port, out>>
  /\ \/ event = "none" /\ Fetch /\ UNCHANGED <<event, bank, tx, txcomp, configured>>
     \/ /\ event # "none" /\ usb_isconfigured /\ pc' = IF configured' THEN "read" ELSE "poll"
        /\ UNCHANGED <<currentRcvBank, buf>>

\* usb_write of the answer to a command, if there is one.
Respond(packets) ==
  IF packets = <<>> THEN pc' = "poll" /\ UNCHANGED <<tx, out>>
  ELSE pc' = "write" /\ tx' = Head(packets) /\ out' = Tail(packets)

\* Mutant: the line is not looked at after usb_read.
ExecuteUnchecked ==
  /\ pc = "samba" /\ (chip.slow \/ chip.busy = NoPage) /\ buf' = None
  /\ samba(buf) /\ Respond(Answer(buf))
  /\ UNCHANGED <<port, event, bank, rx, txcomp, configured, currentRcvBank>>

\* The end of usb_poll: the command is dropped if the line is gone.  A flash
\* that is not slow is ready before the monitor goes on, which then runs from
\* it.
Execute ==
  /\ pc = "samba" /\ (chip.slow \/ chip.busy = NoPage) /\ buf' = None
  /\ \/ /\ event = "none" /\ samba(buf) /\ Respond(Answer(buf))
        /\ UNCHANGED <<event, bank, rx, txcomp, configured>>
     \/ /\ event # "none" /\ usb_isconfigured /\ pc' = "poll" /\ out' = out
        /\ UNCHANGED <<chip, interactive>>
  /\ UNCHANGED <<port, currentRcvBank>>

usb_write ==
  /\ pc = "write" /\ UNCHANGED <<port, currentRcvBank, buf>>
  /\ \/ /\ txcomp /\ txcomp' = FALSE /\ Respond(out)
        /\ (out = <<>> => UNCHANGED out)
        /\ UNCHANGED <<event, bank, rx, configured>>
     \/ /\ ~txcomp /\ event # "none" /\ usb_isconfigured
        /\ pc' = IF configured' THEN "write" ELSE "poll"
        /\ out' = IF configured' THEN out ELSE <<>>

Firmware ==
  \/ (usb_poll \/ usb_read \/ usb_write) /\ UNCHANGED <<chip, interactive>>
  \/ Execute

-----------------------------------------------------------------------------
(* The PC's side.                                                          *)
\* The port holds a packet off while the bank that is next is full.
Send(c) ==
  /\ port = "up" /\ event = "none" /\ rx[bank] = None
  /\ rx' = [rx EXCEPT ![bank] = c] /\ bank' = 1 - bank

Receive == port = "up" /\ tx # None /\ tx' = None /\ txcomp' = TRUE

\* A bus reset: the port is found, or plugged in again.
BusReset == event' = "reset" /\ port' = "reset"

\* The requests that follow a reset come milliseconds apart.
SetConfiguration ==
  /\ port = "reset" /\ event = "none" /\ pc = "poll" /\ ~configured
  /\ event' = "configure" /\ port' = "up"

\* A place for one packet, as a sequence.
Held(c) == IF c = None THEN <<>> ELSE <<c>>

\* The commands that are yet to be executed, in their order: what usb_read has
\* returned, and the banks.
Taken    == IF pc = "samba" THEN buf ELSE None
InFlight == Held(Taken) \o Held(rx[currentRcvBank]) \o Held(rx[1 - currentRcvBank])

PoweredUp ==
  /\ port = "gone" /\ event = "none" /\ bank = 0 /\ rx = NoPackets /\ tx = None
  /\ txcomp = FALSE /\ configured = FALSE /\ currentRcvBank = 0 /\ buf = None /\ out = <<>>
  /\ interactive = TRUE

PowerUp ==
  /\ port' = "gone" /\ event' = "none" /\ bank' = 0 /\ rx' = NoPackets /\ tx' = None
  /\ txcomp' = FALSE /\ configured' = FALSE /\ currentRcvBank' = 0 /\ buf' = None /\ out' = <<>>
  /\ interactive' = TRUE
=============================================================================
