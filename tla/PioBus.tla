------------------------------- MODULE PioBus -------------------------------
(***************************************************************************)
(* The "bus" of PIO pins between the ARM and the CPLD (bus.h), one store   *)
(* to the PIO at a time.  The main loop and cpld_isr use the same pins;    *)
(* what keeps an access of one out of an access of the other is the        *)
(* interrupt mask, which the wrappers of cpld.h set and clear, and the     *)
(* UNIBUS itself: while the board holds BBSY nobody can address it, so no  *)
(* interrupt comes.                                                        *)
(*                                                                         *)
(* Addresses and data are sets of bits, because PIO_SODR and PIO_CODR set  *)
(* and clear the bits they name and keep the others.                       *)
(***************************************************************************)
EXTENDS Sequences, Naturals

CONSTANTS
  RegBits,      \* P_A0 .. P_A3
  DataBits,     \* P_D0 .. P_D15
  ASSERT, SUBREG, DATA, PORT,  \* addresses: three registers, an IDE port
  BBSY,         \* bit of ASSERT: the board is master of the bus
  LINE,         \* another bit of ASSERT
  IsrAccesses,  \* accesses of one run of cpld_isr, at most
  Unprotected   \* unibus_dma_buffer ends with an access that no mask protects

ASSUME PioAssumption ==
  /\ {ASSERT, SUBREG, DATA, PORT} \subseteq SUBSET RegBits
  /\ ASSERT \notin {SUBREG, DATA, PORT}
  /\ RegBits \cap DataBits = {} /\ {BBSY, LINE} \subseteq DataBits /\ BBSY # LINE
  /\ IsrAccesses \in Nat /\ Unprotected \in BOOLEAN

VARIABLES
  odsr,            \* the address and data bits the PIO drives
  drive,           \* the data pins are outputs
  rd, wr,          \* the strobes
  masked,          \* interrupts are disabled
  stack,           \* what the ARM executes: the main loop, then the ISR
  cpld_asserting,  \* the ARM's copy of CPLD_REG_ASSERT
  assert_pin,      \* the register itself
  strobe           \* the access the CPLD last saw begin

pioVars == <<odsr, drive, rd, wr, masked, stack, cpld_asserting, assert_pin, strobe>>

-----------------------------------------------------------------------------
(* Accesses, and the stores each is made of.                               *)
Write(reg, data) == [kind |-> "write", reg |-> reg, data |-> data]
Read(reg)        == [kind |-> "read", reg |-> reg, data |-> {}]
WriteLong(reg, data) == [kind |-> "write_long", reg |-> reg, data |-> data]
ReadLong(reg)    == [kind |-> "read_long", reg |-> reg, data |-> {}]
Assert(bits)     == [kind |-> "assert", reg |-> ASSERT, data |-> bits]
Deassert(bits)   == [kind |-> "deassert", reg |-> ASSERT, data |-> bits]
DI == [kind |-> "di", reg |-> {}, data |-> {}]
EI == [kind |-> "ei", reg |-> {}, data |-> {}]

bus_read == <<"address", "rd", "sample", "rd_off", "clear">>
bus_write == <<"put", "drive", "wr", "wr_off", "passive", "clear">>

Stores(kind) ==
  CASE kind = "read"       -> bus_read
    [] kind = "write"      -> bus_write
    [] kind = "read_long"  -> <<"di">> \o bus_read \o <<"ei">>
    [] kind = "write_long" -> <<"di">> \o bus_write \o <<"ei">>
    [] kind = "assert"     -> <<"set">> \o bus_write
    [] kind = "deassert"   -> <<"reset">> \o bus_write
    [] OTHER               -> <<kind>>

\* Mutant: safe_cpld_read does not disable interrupts.
SafeUnmasked(call) == IF call.kind = "read" THEN <<call>> ELSE <<DI, call, EI>>
Safe(call) == <<DI, call, EI>>

\* Mutant: BBSY is dropped before SACK.
SectionSwapped(bits) ==
  <<DI, Assert({BBSY}), Write(DATA, bits), WriteLong(SUBREG, bits),
    Deassert({BBSY}), Deassert({LINE}), EI>>

\* A section of unibus_dma_buffer: the write to the sub-register enables
\* interrupts before the section ends.
Section(bits) ==
  <<DI, Assert({BBSY}), Write(DATA, bits), WriteLong(SUBREG, bits),
    Deassert({LINE}), Deassert({BBSY}), EI>>

\* The calls of the main loop.
Calls ==
  UNION {{Safe(Assert({LINE})), Safe(Read(ASSERT)), Safe(WriteLong(SUBREG, bits)),
          <<WriteLong(SUBREG, bits)>>, <<ReadLong(PORT)>>, <<WriteLong(PORT, bits)>>,
          Section(bits)} : bits \in SUBSET {LINE}}
  \cup IF Unprotected THEN {<<Deassert({LINE})>>} ELSE {}

\* Mutant: cpld_isr writes sub-registers as the main loop does.
IsrCallsLong ==
  {<<WriteLong(SUBREG, {LINE})>>} \cup {<<Read(ASSERT)>>, <<Read(DATA)>>, <<Write(DATA, {LINE})>>}

\* cpld_isr, one access at a time.
IsrCalls ==
  {<<Write(SUBREG, {LINE})>>, <<Read(ASSERT)>>, <<Read(DATA)>>, <<Write(DATA, {LINE})>>}

-----------------------------------------------------------------------------
Frame(accesses, left) == [todo |-> accesses, at |-> 1, left |-> left]
top    == stack[Len(stack)]
access == top.todo[1]
step   == IF top.todo = <<>> THEN "none" ELSE Stores(access.kind)[top.at]
Top(f) == [stack EXCEPT ![Len(stack)] = f]

Advance ==
  stack' = Top(IF top.at < Len(Stores(access.kind))
                 THEN [top EXCEPT !.at = @ + 1]
                 ELSE [top EXCEPT !.at = 1, !.todo = Tail(@)])

Does(name) == step = name /\ Advance

\* What the access puts on the pins: cpld_assert writes the ARM's copy.
word == IF access.kind \in {"assert", "deassert"} THEN cpld_asserting ELSE access.data
Pins == UNCHANGED <<odsr, drive, rd, wr>>
Rest == UNCHANGED <<masked, cpld_asserting, assert_pin>>

Mask ==
  /\ \/ Does("di") /\ masked' = TRUE
     \/ Does("ei") /\ masked' = FALSE
  /\ Pins /\ UNCHANGED <<cpld_asserting, assert_pin, strobe>>

Shadow ==
  /\ \/ Does("set") /\ cpld_asserting' = cpld_asserting \cup access.data
     \/ Does("reset") /\ cpld_asserting' = cpld_asserting \ access.data
  /\ Pins /\ UNCHANGED <<masked, assert_pin, strobe>>

Put ==
  /\ \/ Does("address") /\ odsr' = odsr \cup access.reg
     \/ Does("put") /\ odsr' = odsr \cup access.reg \cup word
  /\ UNCHANGED <<drive, rd, wr, strobe>> /\ Rest

Drive ==
  /\ \/ Does("drive") /\ drive' = TRUE
     \/ Does("passive") /\ drive' = FALSE
  /\ UNCHANGED <<odsr, rd, wr, strobe>> /\ Rest

\* The CPLD sees the edge of a strobe, with the pins as they are then.
Strobe ==
  \/ /\ Does("rd") /\ rd' = TRUE
     /\ strobe' = IF rd THEN strobe
                  ELSE [kind |-> "read", reg |-> odsr \cap RegBits, data |-> {}]
     /\ UNCHANGED <<odsr, drive, wr>> /\ Rest
  \/ /\ Does("wr") /\ wr' = TRUE
     /\ strobe' = IF wr THEN strobe
                  ELSE [kind |-> "write", reg |-> odsr \cap RegBits,
                        data |-> IF drive THEN odsr \cap DataBits ELSE {}]
     /\ assert_pin' = IF ~wr /\ strobe'.reg = ASSERT THEN strobe'.data ELSE assert_pin
     /\ UNCHANGED <<odsr, drive, rd, masked, cpld_asserting>>

Sample == Does("sample") /\ Pins /\ Rest /\ UNCHANGED strobe

StrobeOff ==
  /\ \/ Does("rd_off") /\ rd' = FALSE /\ UNCHANGED wr
     \/ Does("wr_off") /\ wr' = FALSE /\ UNCHANGED rd
  /\ UNCHANGED <<odsr, drive, strobe>> /\ Rest

Clear ==
  /\ Does("clear") /\ odsr' = {}
  /\ UNCHANGED <<drive, rd, wr, strobe>> /\ Rest

-----------------------------------------------------------------------------
Quiet == Pins /\ Rest /\ UNCHANGED strobe

Call ==
  /\ Len(stack) = 1 /\ top.todo = <<>>
  /\ \E c \in Calls : stack' = <<Frame(c, 0)>>
  /\ Quiet

\* A bus cycle to the board interrupts the ARM.  No cycle is addressed to it
\* while it holds BBSY; and after it drops BBSY the PDP-11 needs longer than
\* the end of that bus_write to take the bus and get its interrupt here.
Interrupt ==
  /\ ~masked /\ Len(stack) < 3
  /\ BBSY \notin assert_pin
  /\ ~(step # "none" /\ access = Deassert({BBSY}))
  /\ masked' = TRUE
  /\ stack' = Append(stack, Frame(<<Write(SUBREG, {LINE})>>, IsrAccesses))
  /\ Pins /\ UNCHANGED <<cpld_asserting, assert_pin, strobe>>

IsrAccess ==
  /\ Len(stack) > 1 /\ top.todo = <<>> /\ top.left > 0
  /\ \E c \in IsrCalls : stack' = Top(Frame(c, top.left - 1))
  /\ Quiet

\* The return restores the mask of the interrupted code.
IsrReturn ==
  /\ Len(stack) > 1 /\ top.todo = <<>>
  /\ stack' = SubSeq(stack, 1, Len(stack) - 1) /\ masked' = FALSE
  /\ Pins /\ UNCHANGED <<cpld_asserting, assert_pin, strobe>>

-----------------------------------------------------------------------------
Init ==
  /\ odsr = {} /\ drive = FALSE /\ rd = FALSE /\ wr = FALSE
  /\ masked = FALSE /\ stack = <<Frame(<<>>, 0)>>
  /\ cpld_asserting = {} /\ assert_pin = {} /\ strobe = Read({})

Next == \/ Mask \/ Shadow \/ Put \/ Drive \/ Strobe \/ Sample \/ StrobeOff \/ Clear
        \/ Call \/ Interrupt \/ IsrAccess \/ IsrReturn
Spec == Init /\ [][Next]_pioVars

-----------------------------------------------------------------------------
PioTypeOK ==
  /\ odsr \subseteq RegBits \cup DataBits /\ {drive, rd, wr, masked} \subseteq BOOLEAN
  /\ Len(stack) \in 1 .. 2  \* cpld_isr is not interrupted
  /\ cpld_asserting \subseteq DataBits /\ assert_pin \subseteq DataBits
  /\ strobe.kind \in {"read", "write"} /\ strobe.reg \subseteq RegBits

\* The CPLD sees every access whole: when the code holds a strobe, the CPLD
\* saw it begin with the register and the data of that access, whatever
\* interrupted the code before it got there.
StrobesIntact ==
  step \in {"sample", "rd_off", "wr_off"} =>
    /\ strobe.reg = access.reg
    /\ strobe.kind = "write" => strobe.data = word
    /\ (step = "wr_off") = (strobe.kind = "write")

\* Two half-done accesses never meet: RD and WR together reset the CPLD, and
\* during a read the ARM's pins must not be driven against the CPLD's.
NoCollision == rd => ~wr /\ ~drive

\* cpld_asserting is what CPLD_REG_ASSERT holds whenever the main loop is not
\* in the middle of writing it: the next cpld_assert keeps the other lines.
ShadowAgrees == (Len(stack) = 1 /\ top.todo = <<>>) => assert_pin = cpld_asserting

=============================================================================
