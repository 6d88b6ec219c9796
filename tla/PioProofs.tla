----------------------------- MODULE PioProofs -----------------------------
(***************************************************************************)
(* Proofs about the bus of PIO pins (PioBus), for any addresses and data   *)
(* bits and any number of accesses of cpld_isr: the mask and BBSY keep an  *)
(* access of the main loop and one of cpld_isr apart.                      *)
(***************************************************************************)
EXTENDS PioBus, TLAPS, SequenceTheorems

(* What is left of a call of the main loop.                                *)
Bits    == SUBSET {LINE}
Guarded == {Assert({LINE}), Read(ASSERT)} \cup {WriteLong(SUBREG, b) : b \in Bits}
Longs   == {ReadLong(PORT)} \cup {WriteLong(r, b) : r \in {SUBREG, PORT}, b \in Bits}

Tail1(b) == <<Assert({BBSY}), Write(DATA, b), WriteLong(SUBREG, b),
              Deassert({LINE}), Deassert({BBSY}), EI>>
Tail2(b) == <<Write(DATA, b), WriteLong(SUBREG, b), Deassert({LINE}), Deassert({BBSY}), EI>>
Tail3(b) == <<WriteLong(SUBREG, b), Deassert({LINE}), Deassert({BBSY}), EI>>
Tail4    == <<Deassert({LINE}), Deassert({BBSY}), EI>>
Tail5    == <<Deassert({BBSY}), EI>>

\* Interrupts are disabled before the first access of it, or enabled; before
\* the last EI they may be either.
Closed(t) ==
  \/ \E a \in Guarded : t = <<a, EI>>
  \/ \E b \in Bits : t \in {Tail1(b), Tail2(b), Tail3(b)}
Open(t) ==
  \/ t = <<>> \/ t = Tail4 \/ t = Tail5
  \/ \E a \in Guarded : t = <<DI, a, EI>>
  \/ \E b \in Bits : t = Section(b)
  \/ \E a \in Longs : t = <<a>>

\* The board is master of the bus.
Owns(t) == t = Tail4 \/ \E b \in Bits : t \in {Tail2(b), Tail3(b)}

Long == {"read_long", "write_long"}
Kinds == {"read", "write", "assert", "deassert", "di", "ei"} \cup Long
Accesses == [kind : Kinds, reg : SUBSET RegBits, data : SUBSET DataBits]
Frames   == [todo : Seq(Accesses), at : Nat, left : Nat]
StepOf(f) == IF f.todo = <<>> THEN "none" ELSE Stores(f.todo[1].kind)[f.at]

\* Only cpld_assert and cpld_deassert write ASSERT.
Own(a) == /\ a.kind \in {"assert", "deassert"} => a.reg = ASSERT
          /\ a.kind \in {"write", "write_long"} => a.reg # ASSERT

Placed(f) ==
  f.todo # <<>> => f.at \in 1 .. Len(Stores(f.todo[1].kind)) /\ Own(f.todo[1])

StackType ==
  /\ stack \in Seq(Frames) /\ Len(stack) \in {1, 2}
  /\ \A n \in 1 .. Len(stack) : Placed(stack[n])

\* The main loop, and how the mask goes with where it is.
InLong(f) == f.todo # <<>> /\ f.todo[1].kind \in Long /\ StepOf(f) # "di"
MainInv ==
  LET f == stack[1] IN
  /\ Closed(f.todo) \/ Open(f.todo) \/ f.todo = <<EI>>
  /\ Len(stack) = 1 =>
       /\ Closed(f.todo) \/ InLong(f) => masked = TRUE
       /\ Open(f.todo) /\ ~InLong(f) => masked = FALSE
  /\ Owns(f.todo) => BBSY \in assert_pin /\ BBSY \in cpld_asserting
  /\ (f.todo # <<>> /\ f.todo[1] = Assert({BBSY}) /\ StepOf(f) # "set") => BBSY \in cpld_asserting

\* cpld_isr interrupts between two accesses, and is not interrupted.
IsrInv ==
  Len(stack) = 2 =>
    /\ masked = TRUE /\ ~Closed(stack[1].todo) /\ ~InLong(stack[1])
    /\ StepOf(stack[1]) \in {"none", "di", "ei"}
    /\ stack[2].todo # <<>> => stack[2].todo[1].kind \in {"read", "write"}
                               /\ Len(stack[2].todo) = 1

\* What the pins are before each store of an access.
PinInv ==
  /\ odsr \subseteq RegBits \cup DataBits
  /\ step \in {"drive", "wr", "wr_off", "passive"} => odsr = access.reg \cup word
  /\ step \in {"rd", "sample", "rd_off"} => odsr = access.reg
  /\ step \in {"none", "di", "ei", "set", "reset", "put", "address"} => odsr = {}
  /\ drive \in BOOLEAN /\ rd \in BOOLEAN /\ wr \in BOOLEAN /\ masked \in BOOLEAN
  /\ drive <=> step \in {"wr", "wr_off", "passive"}
  /\ rd <=> step \in {"sample", "rd_off"}
  /\ wr <=> step = "wr_off"

\* The ARM's copy of ASSERT is written to it.
CopyInv ==
  /\ cpld_asserting \subseteq DataBits /\ assert_pin \subseteq DataBits
  /\ \/ cpld_asserting = assert_pin
     \/ Len(stack) = 1 /\ step \in {"put", "drive", "wr"} /\ access.kind \in {"assert", "deassert"}

StrobeInv ==
  strobe.kind \in {"read", "write"} /\ strobe.reg \subseteq RegBits /\ StrobesIntact

PioInv == StackType /\ MainInv /\ IsrInv /\ PinInv /\ CopyInv /\ StrobeInv

-----------------------------------------------------------------------------
(* The stores of the accesses, one after another.                          *)
First == {"none", "di", "ei", "set", "reset", "put", "address"}
Steps == First \cup {"drive", "wr", "wr_off", "passive", "clear", "rd", "sample", "rd_off"}

\* What follows a store in an access of that kind.
Follows(k, s, n) ==
  \/ <<s, n>> \in {<<"drive", "wr">>, <<"wr", "wr_off">>, <<"wr_off", "passive">>,
                   <<"passive", "clear">>, <<"rd", "sample">>, <<"sample", "rd_off">>,
                   <<"rd_off", "clear">>, <<"put", "drive">>, <<"address", "rd">>}
  \/ s \in {"set", "reset"} /\ n = "put"
  \/ k = "read_long" /\ s = "di" /\ n = "address"
  \/ k = "write_long" /\ s = "di" /\ n = "put"
  \/ k \in Long /\ s = "clear" /\ n = "ei"

\* The stores an access of a kind has.
Has(k, s) ==
  /\ s \in Steps \ {"none"}
  /\ s = "di" => k \in Long \cup {"di"}
  /\ s = "ei" => k \in Long \cup {"ei"}
  /\ s \in {"address", "rd", "sample", "rd_off"} => k \in {"read", "read_long"}
  /\ s \in {"put", "drive", "wr", "wr_off", "passive"} =>
       k \in {"write", "write_long", "assert", "deassert"}
  /\ s = "set" => k = "assert"
  /\ s = "reset" => k = "deassert"

LEMMA StoresAre ==
  /\ Len(Stores("read")) = 5 /\ Stores("read")[1] = "address" /\ Stores("read")[2] = "rd"
     /\ Stores("read")[3] = "sample" /\ Stores("read")[4] = "rd_off" /\ Stores("read")[5] = "clear"
  /\ Len(Stores("write")) = 6 /\ Stores("write")[1] = "put" /\ Stores("write")[2] = "drive"
     /\ Stores("write")[3] = "wr" /\ Stores("write")[4] = "wr_off" /\ Stores("write")[5] = "passive"
     /\ Stores("write")[6] = "clear"
  /\ Len(Stores("read_long")) = 7 /\ Stores("read_long")[1] = "di"
     /\ Stores("read_long")[2] = "address" /\ Stores("read_long")[3] = "rd"
     /\ Stores("read_long")[4] = "sample" /\ Stores("read_long")[5] = "rd_off"
     /\ Stores("read_long")[6] = "clear" /\ Stores("read_long")[7] = "ei"
  /\ Len(Stores("write_long")) = 8 /\ Stores("write_long")[1] = "di"
     /\ Stores("write_long")[2] = "put" /\ Stores("write_long")[3] = "drive"
     /\ Stores("write_long")[4] = "wr" /\ Stores("write_long")[5] = "wr_off"
     /\ Stores("write_long")[6] = "passive" /\ Stores("write_long")[7] = "clear"
     /\ Stores("write_long")[8] = "ei"
  /\ Len(Stores("assert")) = 7 /\ Stores("assert")[1] = "set" /\ Stores("assert")[2] = "put"
     /\ Stores("assert")[3] = "drive" /\ Stores("assert")[4] = "wr"
     /\ Stores("assert")[5] = "wr_off" /\ Stores("assert")[6] = "passive"
     /\ Stores("assert")[7] = "clear"
  /\ Len(Stores("deassert")) = 7 /\ Stores("deassert")[1] = "reset" /\ Stores("deassert")[2] = "put"
     /\ Stores("deassert")[3] = "drive" /\ Stores("deassert")[4] = "wr"
     /\ Stores("deassert")[5] = "wr_off" /\ Stores("deassert")[6] = "passive"
     /\ Stores("deassert")[7] = "clear"
  /\ Stores("di") = <<"di">> /\ Stores("ei") = <<"ei">>
BY DEF Stores, bus_read, bus_write

LEMMA StoresFollow ==
  ASSUME NEW k \in Kinds, NEW i \in 1 .. Len(Stores(k))
  PROVE  /\ Has(k, Stores(k)[i]) /\ Len(Stores(k)) \in Nat /\ Len(Stores(k)) >= 1
         /\ i < Len(Stores(k)) => Follows(k, Stores(k)[i], Stores(k)[i + 1])
         /\ i = Len(Stores(k)) => Stores(k)[i] = IF k = "di" THEN "di"
                                                 ELSE IF k \in Long \cup {"ei"} THEN "ei"
                                                 ELSE "clear"
         /\ Stores(k)[1] \in First \ {"none"} /\ (k \in Long => Stores(k)[1] = "di")
         /\ (k = "assert" => Stores(k)[1] = "set")
         /\ (k \in {"read", "write"} => Stores(k)[1] \in {"put", "address"})
<1>1. CASE k = "read"
  <2> DEFINE s == Stores(k)
  <2>1. Len(s) = 5 /\ s[1] = "address" /\ s[2] = "rd" /\ s[3] = "sample" /\ s[4] = "rd_off"
        /\ s[5] = "clear"
    BY <1>1, StoresAre
  <2> HIDE DEF s
  <2>2. i \in 1 .. 5
    BY <2>1 DEF s
  <2>3. i = 1 \/ i = 2 \/ i = 3 \/ i = 4 \/ i = 5
    BY <2>2
  <2> QED
    BY <1>1, <2>1, <2>3 DEF s, Has, Follows, First, Steps, Long
<1>2. CASE k = "write"
  <2> DEFINE s == Stores(k)
  <2>1. Len(s) = 6 /\ s[1] = "put" /\ s[2] = "drive" /\ s[3] = "wr" /\ s[4] = "wr_off"
        /\ s[5] = "passive" /\ s[6] = "clear"
    BY <1>2, StoresAre
  <2> HIDE DEF s
  <2>2. i \in 1 .. 6
    BY <2>1 DEF s
  <2>3. i = 1 \/ i = 2 \/ i = 3 \/ i = 4 \/ i = 5 \/ i = 6
    BY <2>2
  <2> QED
    BY <1>2, <2>1, <2>3 DEF s, Has, Follows, First, Steps, Long
<1>3. CASE k = "read_long"
  <2> DEFINE s == Stores(k)
  <2>1. Len(s) = 7 /\ s[1] = "di" /\ s[2] = "address" /\ s[3] = "rd" /\ s[4] = "sample"
        /\ s[5] = "rd_off" /\ s[6] = "clear" /\ s[7] = "ei"
    BY <1>3, StoresAre
  <2> HIDE DEF s
  <2>2. i \in 1 .. 7
    BY <2>1 DEF s
  <2>3. i = 1 \/ i = 2 \/ i = 3 \/ i = 4 \/ i = 5 \/ i = 6 \/ i = 7
    BY <2>2
  <2> QED
    BY <1>3, <2>1, <2>3 DEF s, Has, Follows, First, Steps, Long
<1>4. CASE k = "write_long"
  <2> DEFINE s == Stores(k)
  <2>1. Len(s) = 8 /\ s[1] = "di" /\ s[2] = "put" /\ s[3] = "drive" /\ s[4] = "wr"
        /\ s[5] = "wr_off" /\ s[6] = "passive" /\ s[7] = "clear" /\ s[8] = "ei"
    BY <1>4, StoresAre
  <2> HIDE DEF s
  <2>2. i \in 1 .. 8
    BY <2>1 DEF s
  <2>3. i = 1 \/ i = 2 \/ i = 3 \/ i = 4 \/ i = 5 \/ i = 6 \/ i = 7 \/ i = 8
    BY <2>2
  <2> QED
    BY <1>4, <2>1, <2>3 DEF s, Has, Follows, First, Steps, Long
<1>5. CASE k = "assert"
  <2> DEFINE s == Stores(k)
  <2>1. Len(s) = 7 /\ s[1] = "set" /\ s[2] = "put" /\ s[3] = "drive" /\ s[4] = "wr"
        /\ s[5] = "wr_off" /\ s[6] = "passive" /\ s[7] = "clear"
    BY <1>5, StoresAre
  <2> HIDE DEF s
  <2>2. i \in 1 .. 7
    BY <2>1 DEF s
  <2>3. i = 1 \/ i = 2 \/ i = 3 \/ i = 4 \/ i = 5 \/ i = 6 \/ i = 7
    BY <2>2
  <2> QED
    BY <1>5, <2>1, <2>3 DEF s, Has, Follows, First, Steps, Long
<1>6. CASE k = "deassert"
  <2> DEFINE s == Stores(k)
  <2>1. Len(s) = 7 /\ s[1] = "reset" /\ s[2] = "put" /\ s[3] = "drive" /\ s[4] = "wr"
        /\ s[5] = "wr_off" /\ s[6] = "passive" /\ s[7] = "clear"
    BY <1>6, StoresAre
  <2> HIDE DEF s
  <2>2. i \in 1 .. 7
    BY <2>1 DEF s
  <2>3. i = 1 \/ i = 2 \/ i = 3 \/ i = 4 \/ i = 5 \/ i = 6 \/ i = 7
    BY <2>2
  <2> QED
    BY <1>6, <2>1, <2>3 DEF s, Has, Follows, First, Steps, Long
<1>7. CASE k \in {"di", "ei"}
  <2>1. Stores(k) = <<k>>
    BY <1>7, StoresAre
  <2>2. Len(Stores(k)) = 1 /\ Stores(k)[1] = k /\ i = 1
    BY <2>1
  <2> QED
    BY <1>7, <2>2 DEF Has, Follows, First, Steps, Long
<1> QED
  BY <1>1, <1>2, <1>3, <1>4, <1>5, <1>6, <1>7 DEF Kinds, Long

-----------------------------------------------------------------------------
(* What is left of a call after an access.                                 *)
LEMMA AccessTypes ==
  /\ DI \in Accesses /\ EI \in Accesses /\ Own(DI) /\ Own(EI)
  /\ \A a \in Guarded \cup Longs : a \in Accesses /\ Own(a)
  /\ \A b \in Bits : Write(DATA, b) \in Accesses /\ Own(Write(DATA, b))
                     /\ WriteLong(SUBREG, b) \in Accesses /\ Own(WriteLong(SUBREG, b))
  /\ Assert({BBSY}) \in Accesses /\ Own(Assert({BBSY}))
  /\ Deassert({LINE}) \in Accesses /\ Own(Deassert({LINE}))
  /\ Deassert({BBSY}) \in Accesses /\ Own(Deassert({BBSY}))
<1>1. /\ ASSERT \in SUBSET RegBits /\ SUBREG \in SUBSET RegBits /\ DATA \in SUBSET RegBits
      /\ PORT \in SUBSET RegBits /\ ASSERT # SUBREG /\ ASSERT # DATA /\ ASSERT # PORT
      /\ {BBSY} \in SUBSET DataBits /\ {LINE} \in SUBSET DataBits
      /\ {} \in SUBSET DataBits /\ {} \in SUBSET RegBits
      /\ \A b \in Bits : b \in SUBSET DataBits
  BY PioAssumption DEF Bits
<1> QED
  BY <1>1 DEF DI, EI, Guarded, Longs, Write, WriteLong, Read, ReadLong, Assert, Deassert,
              Accesses, Kinds, Long, Own

LEMMA OwnsLength == \A t : Owns(t) => Len(t) \in {3, 4, 5} /\ t[1].kind \in {"write", "write_long", "deassert"}
BY DEF Owns, Tail2, Tail3, Tail4, Write, WriteLong, Deassert

LEMMA NotOwns == \A a, b : ~Owns(<<a, b>>) /\ ~Owns(<<a>>) /\ ~Owns(<<>>)
<1>1. \A a, b : Len(<<a, b>>) = 2 /\ Len(<<a>>) = 1 /\ Len(<<>>) = 0
  OBVIOUS
<1> QED
  BY <1>1 DEF Owns, Tail2, Tail3, Tail4

LEMMA TailOfCall ==
  /\ \A a : Tail(<<a>>) = <<>> /\ Tail(<<a, EI>>) = <<EI>> /\ Tail(<<DI, a, EI>>) = <<a, EI>>
  /\ \A b : /\ Tail(Section(b)) = Tail1(b) /\ Tail(Tail1(b)) = Tail2(b)
            /\ Tail(Tail2(b)) = Tail3(b) /\ Tail(Tail3(b)) = Tail4
  /\ Tail(Tail4) = Tail5 /\ Tail(Tail5) = <<EI>>
BY DEF Section, Tail1, Tail2, Tail3, Tail4, Tail5

LEMMA SeqTypes ==
  /\ <<>> \in Seq(Accesses) /\ <<EI>> \in Seq(Accesses)
  /\ \A a \in Guarded : <<a, EI>> \in Seq(Accesses) /\ <<DI, a, EI>> \in Seq(Accesses)
  /\ \A a \in Longs : <<a>> \in Seq(Accesses)
  /\ \A b \in Bits : /\ Section(b) \in Seq(Accesses) /\ Tail1(b) \in Seq(Accesses)
                     /\ Tail2(b) \in Seq(Accesses) /\ Tail3(b) \in Seq(Accesses)
  /\ Tail4 \in Seq(Accesses) /\ Tail5 \in Seq(Accesses)
BY AccessTypes DEF Section, Tail1, Tail2, Tail3, Tail4, Tail5

\* The next access while interrupts are disabled.
LEMMA ClosedNext ==
  ASSUME NEW t, Closed(t)
  PROVE  /\ t \in Seq(Accesses) /\ t # <<>> /\ Own(t[1]) /\ t[1].kind \notin {"di", "ei"}
         /\ IF t[1].kind \in Long THEN Tail(t) \in {Tail4, <<EI>>}
            ELSE Closed(Tail(t)) \/ Tail(t) = <<EI>>
         /\ Owns(Tail(t)) => (Owns(t) \/ t[1] = Assert({BBSY}))
<1>1. ASSUME NEW a \in Guarded, t = <<a, EI>>
      PROVE  /\ t \in Seq(Accesses) /\ t # <<>> /\ Own(t[1]) /\ t[1].kind \notin {"di", "ei"}
             /\ Tail(t) = <<EI>> /\ ~Owns(Tail(t))
  <2>1. t[1] = a /\ t # <<>> /\ Tail(t) = <<EI>>
    BY <1>1, TailOfCall
  <2>2. a.kind \notin {"di", "ei"}
    BY DEF Guarded, Assert, Read, WriteLong
  <2>3. ~Owns(<<EI>>)
    BY OwnsLength
  <2> QED
    BY <1>1, <2>1, <2>2, <2>3, AccessTypes, SeqTypes
<1>2. ASSUME NEW b \in Bits, t = Tail1(b)
      PROVE  /\ t \in Seq(Accesses) /\ t # <<>> /\ Own(t[1]) /\ t[1].kind \notin Long \cup {"di", "ei"}
             /\ Tail(t) = Tail2(b) /\ t[1] = Assert({BBSY})
  BY <1>2, AccessTypes, SeqTypes, TailOfCall DEF Tail1, Assert, Long
<1>3. ASSUME NEW b \in Bits, t = Tail2(b)
      PROVE  /\ t \in Seq(Accesses) /\ t # <<>> /\ Own(t[1]) /\ t[1].kind \notin Long \cup {"di", "ei"}
             /\ Tail(t) = Tail3(b) /\ Owns(t)
  BY <1>3, AccessTypes, SeqTypes, TailOfCall DEF Tail2, Write, Long, Owns
<1>4. ASSUME NEW b \in Bits, t = Tail3(b)
      PROVE  /\ t \in Seq(Accesses) /\ t # <<>> /\ Own(t[1]) /\ t[1].kind \in Long
             /\ Tail(t) = Tail4 /\ Owns(t)
  BY <1>4, AccessTypes, SeqTypes, TailOfCall DEF Tail3, WriteLong, Long, Owns
<1> QED
  BY <1>1, <1>2, <1>3, <1>4 DEF Closed, Long

\* The next access while they are enabled.
LEMMA OpenNext ==
  ASSUME NEW t, Open(t), t # <<>>
  PROVE  /\ t \in Seq(Accesses) /\ Own(t[1])
         /\ \/ t[1] = DI /\ Closed(Tail(t)) /\ t # Tail4 /\ t # Tail5
            \/ t[1].kind \in Long /\ Tail(t) = <<>> /\ t # Tail4 /\ t # Tail5
            \/ t = Tail4 /\ t[1] = Deassert({LINE}) /\ Tail(t) = Tail5
            \/ t = Tail5 /\ t[1] = Deassert({BBSY}) /\ Tail(t) = <<EI>>
         /\ ~Owns(Tail(t)) /\ (t[1].kind = "di" => t[1] = DI)
         /\ t[1].kind \notin {"ei", "assert"}
<1>0. DI.kind = "di" /\ EI.kind = "ei" /\ \A d : Deassert(d).kind = "deassert"
  BY DEF DI, EI, Deassert
<1>1. ASSUME NEW a \in Guarded, t = <<DI, a, EI>>
      PROVE  /\ t \in Seq(Accesses) /\ Own(t[1]) /\ t[1] = DI /\ Closed(Tail(t)) /\ ~Owns(Tail(t))
  <2>1. t[1] = DI /\ Tail(t) = <<a, EI>>
    BY <1>1, TailOfCall
  <2>2. ~Owns(<<a, EI>>)
    BY NotOwns
  <2> QED
    BY <1>1, <2>1, <2>2, AccessTypes, SeqTypes DEF Closed
<1>2. ASSUME NEW b \in Bits, t = Section(b)
      PROVE  /\ t \in Seq(Accesses) /\ Own(t[1]) /\ t[1] = DI /\ Closed(Tail(t)) /\ ~Owns(Tail(t))
  <2>1. t[1] = DI /\ Tail(t) = Tail1(b)
    BY <1>2, TailOfCall DEF Section
  <2>3. ~Owns(Tail1(b))
    <3>1. Tail1(b)[1].kind = "assert"
      BY DEF Tail1, Assert
    <3> QED
      BY <3>1, OwnsLength
  <2> QED
    BY <1>2, <2>1, <2>3, AccessTypes, SeqTypes DEF Closed
<1>3. ASSUME NEW a \in Longs, t = <<a>>
      PROVE  /\ t \in Seq(Accesses) /\ Own(t[1]) /\ t[1].kind \in Long /\ Tail(t) = <<>>
  BY <1>3, AccessTypes, SeqTypes, TailOfCall DEF Longs, Long, ReadLong, WriteLong
<1>4. t = Tail4 => /\ t \in Seq(Accesses) /\ Own(t[1]) /\ t[1] = Deassert({LINE})
                   /\ Tail(t) = Tail5 /\ ~Owns(Tail5)
  <2>1. Tail4[1] = Deassert({LINE})
    BY DEF Tail4
  <2>2. ~Owns(Tail5)
    BY NotOwns DEF Tail5
  <2> QED
    BY <2>1, <2>2, AccessTypes, SeqTypes, TailOfCall
<1>5. t = Tail5 => /\ t \in Seq(Accesses) /\ Own(t[1]) /\ t[1] = Deassert({BBSY})
                   /\ Tail(t) = <<EI>> /\ ~Owns(<<EI>>)
  BY AccessTypes, SeqTypes, TailOfCall, OwnsLength DEF Tail5
<1>6. Tail4[1] = Deassert({LINE}) /\ Tail5[1] = Deassert({BBSY}) /\ ~Owns(<<>>)
  BY OwnsLength DEF Tail4, Tail5
<1> QED
  BY <1>0, <1>1, <1>2, <1>3, <1>4, <1>5, <1>6 DEF Open, Long

LEMMA EiNext == /\ <<EI>> \in Seq(Accesses) /\ <<EI>>[1] = EI /\ EI.kind = "ei" /\ Own(EI)
                /\ Tail(<<EI>>) = <<>> /\ <<EI>> # <<>> /\ ~Owns(<<>>) /\ ~Owns(<<EI>>)
BY AccessTypes, SeqTypes, TailOfCall, OwnsLength DEF EI

\* A frame is at one of the three.
LEMMA Exclusive ==
  /\ \A t : Closed(t) => ~Open(t) /\ t # <<EI>>
  /\ \A t : Open(t) => t # <<EI>>
  /\ Open(<<>>) /\ Open(Tail4) /\ Open(Tail5)
<1>1. \A t : Closed(t) => Len(t) \in {2, 4, 5, 6} /\ t[1].kind # "deassert"
  BY DEF Closed, Tail1, Tail2, Tail3, Guarded, Assert, Read, Write, WriteLong
<1>2. \A t : Open(t) => t = Tail5 \/ Len(t) \in {0, 1, 3, 7}
  BY DEF Open, Tail4, Section
<1>3. Tail5[1].kind = "deassert" /\ Len(Tail5) = 2 /\ Len(<<EI>>) = 1 /\ <<EI>>[1].kind = "ei"
  BY DEF Tail5, Deassert, EI
<1>4. ASSUME NEW t, Open(t) PROVE t # <<EI>>
  <2>1. t # <<>> => t[1].kind # "ei"
    BY <1>4, OpenNext
  <2> QED
    BY <1>3, <2>1
<1>5. ASSUME NEW t, Closed(t) PROVE ~Open(t)
  <2>1. Len(t) \in {2, 4, 5, 6} /\ t[1].kind # "deassert"
    BY <1>1, <1>5
  <2>2. ASSUME Open(t) PROVE FALSE
    <3>1. t = Tail5 \/ Len(t) \in {0, 1, 3, 7}
      BY <1>2, <2>2
    <3>2. t # Tail5
      BY <1>3, <2>1
    <3>3. Len(t) \in {0, 1, 3, 7}
      BY <3>1, <3>2
    <3>4. Len(t) = 2 \/ Len(t) = 4 \/ Len(t) = 5 \/ Len(t) = 6
      BY <2>1
    <3>5. \A n : (n = 2 \/ n = 4 \/ n = 5 \/ n = 6) => n \notin {0, 1, 3, 7}
      OBVIOUS
    <3> QED
      BY <3>3, <3>4, <3>5
  <2> QED
    BY <2>2
<1>6. ASSUME NEW t, Closed(t) PROVE t # <<EI>>
  <2>1. Len(t) \in {2, 4, 5, 6}
    BY <1>1, <1>6
  <2> QED
    BY <1>3, <2>1
<1> QED
  BY <1>4, <1>5, <1>6 DEF Open

-----------------------------------------------------------------------------
(* A store.                                                                *)
Store == Mask \/ Shadow \/ Put \/ Drive \/ Strobe \/ Sample \/ StrobeOff \/ Clear

\* The access goes on, or it was its last store.
GoesOn ==
  /\ top'.todo = top.todo /\ Follows(access.kind, step, step')
  /\ access' = access /\ step' # "none"
IsOver ==
  /\ top'.todo = Tail(top.todo) /\ step' \in First
  /\ top'.todo # <<>> => access'.kind \in Kinds /\ step' = Stores(access'.kind)[1]
  /\ step = IF access.kind = "di" THEN "di"
            ELSE IF access.kind \in Long \cup {"ei"} THEN "ei" ELSE "clear"

LEMMA TopIs ==
  ASSUME StackType
  PROVE  /\ top \in Frames /\ Placed(top) /\ step = StepOf(top)
         /\ top.todo # <<>> => /\ access \in Accesses /\ Own(access) /\ Has(access.kind, step)
                               /\ step \in Steps \ {"none"} /\ step = Stores(access.kind)[top.at]
                               /\ access.kind \in Kinds /\ top.at \in 1 .. Len(Stores(access.kind))
         /\ top.todo = <<>> <=> step = "none"
<1>1. Len(stack) \in 1 .. Len(stack) /\ Len(stack) \in Nat
  BY DEF StackType
<1>2. top \in Frames /\ Placed(top)
  BY <1>1 DEF StackType, top
<1>3. step = StepOf(top)
  BY DEF step, StepOf, access
<1>4. ASSUME top.todo # <<>>
      PROVE  /\ access \in Accesses /\ Own(access) /\ Has(access.kind, step)
             /\ step \in Steps \ {"none"} /\ step = Stores(access.kind)[top.at]
             /\ access.kind \in Kinds /\ top.at \in 1 .. Len(Stores(access.kind))
  <2>1. top.todo \in Seq(Accesses)
    BY <1>2 DEF Frames
  <2>2. access \in Accesses
    BY <1>4, <2>1 DEF access
  <2>3. access.kind \in Kinds
    BY <2>2 DEF Accesses
  <2>4. Own(access) /\ top.at \in 1 .. Len(Stores(access.kind))
    BY <1>2, <1>4 DEF Placed, access
  <2>5. step = Stores(access.kind)[top.at]
    BY <1>4 DEF step
  <2>6. Has(access.kind, step)
    BY <2>3, <2>4, <2>5, StoresFollow
  <2> QED
    BY <2>2, <2>3, <2>4, <2>5, <2>6 DEF Has
<1> QED
  BY <1>2, <1>3, <1>4 DEF step, Steps

LEMMA FrameNext ==
  ASSUME NEW f \in Frames
  PROVE  /\ [f EXCEPT !.at = @ + 1] \in Frames
         /\ [f EXCEPT !.at = @ + 1].todo = f.todo /\ [f EXCEPT !.at = @ + 1].at = f.at + 1
         /\ f.todo # <<>> =>
              /\ [f EXCEPT !.at = 1, !.todo = Tail(@)] \in Frames
              /\ [f EXCEPT !.at = 1, !.todo = Tail(@)].todo = Tail(f.todo)
              /\ [f EXCEPT !.at = 1, !.todo = Tail(@)].at = 1
<1> DEFINE t == f.todo
           g == [f EXCEPT !.at = 1, !.todo = Tail(@)]
<1>1. t \in Seq(Accesses) /\ f.at \in Nat /\ f.left \in Nat
      /\ f = [todo |-> t, at |-> f.at, left |-> f.left]
  BY DEF Frames
<1>2. t # <<>> => Tail(t) \in Seq(Accesses)
  BY <1>1
<1>3. \A a \in Nat, u \in Seq(Accesses) : [todo |-> u, at |-> a, left |-> f.left] \in Frames
  BY <1>1 DEF Frames
<1>4. [f EXCEPT !.at = @ + 1] = [todo |-> t, at |-> f.at + 1, left |-> f.left]
  BY <1>1
<1>5. t # <<>> => g \in Frames /\ g.todo = Tail(t) /\ g.at = 1
  <2>1. g = [f EXCEPT !.at = 1, !.todo = Tail(f.todo)]
    BY <1>1
  <2>2. \A u \in Seq(Accesses) : [f EXCEPT !.at = 1, !.todo = u] \in Frames
    BY DEF Frames
  <2>3. \A u : /\ [f EXCEPT !.at = 1, !.todo = u].todo = u
               /\ [f EXCEPT !.at = 1, !.todo = u].at = 1
    BY DEF Frames
  <2> QED
    BY <1>2, <2>1, <2>2, <2>3
<1>6. f.at + 1 \in Nat /\ 1 \in Nat
  BY <1>1
<1> HIDE DEF t, g
<1> QED
  BY <1>1, <1>2, <1>3, <1>4, <1>5, <1>6 DEF t, g

\* What a store does to the stack.
LEMMA AdvanceStep ==
  ASSUME StackType, Advance, step # "none",
         Len(top.todo) > 1 => Own(top.todo[2])
  PROVE  /\ StackType' /\ Len(stack') = Len(stack)
         /\ Len(stack) = 2 => stack'[1] = stack[1]
         /\ GoesOn \/ IsOver
<1> DEFINE n == Len(stack)
           f == top
           g == IF f.at < Len(Stores(access.kind)) THEN [f EXCEPT !.at = @ + 1]
                ELSE [f EXCEPT !.at = 1, !.todo = Tail(@)]
<1>1. /\ f \in Frames /\ f.todo # <<>> /\ access \in Accesses /\ Own(access)
      /\ step = Stores(access.kind)[f.at] /\ access.kind \in Kinds
      /\ f.at \in 1 .. Len(Stores(access.kind)) /\ Placed(f)
  BY TopIs
<1>0. \A i \in {1, 2} : i \in Nat /\ i \in 1 .. i
  OBVIOUS
<1>2. n \in Nat /\ n \in 1 .. n /\ stack \in Seq(Frames) /\ n \in {1, 2}
  BY <1>0 DEF StackType
<1>3. stack' = [stack EXCEPT ![n] = g]
  BY DEF Advance, Top
<1>4. Len(Stores(access.kind)) \in Nat /\ Len(Stores(access.kind)) >= 1
  BY <1>1, StoresFollow
<1>5. f.todo \in Seq(Accesses) /\ f.at \in Nat /\ f.left \in Nat /\ access = f.todo[1]
  BY <1>1 DEF Frames, access
<1>6. CASE f.at < Len(Stores(access.kind))
  <2>1. g = [f EXCEPT !.at = @ + 1]
    BY <1>6
  <2>2. /\ g \in Frames /\ g.todo = f.todo /\ g.at = f.at + 1
    BY <1>1, <2>1, FrameNext
  <2> HIDE DEF g
  <2>3. /\ stack' \in Seq(Frames) /\ Len(stack') = n /\ stack'[n] = g
        /\ \A i \in 1 .. n : i # n => stack'[i] = stack[i]
    BY <1>2, <1>3, <2>2, ExceptSeq
  <2>4. Placed(g)
    BY <1>1, <1>4, <1>5, <1>6, <2>2 DEF Placed
  <2>5. StackType'
    BY <1>2, <2>3, <2>4 DEF StackType
  <2>6. top' = g
    BY <2>3 DEF top
  <2>7. access' = access /\ step' = Stores(access.kind)[f.at + 1]
    BY <1>1, <1>5, <2>2, <2>6 DEF access, step
  <2>8. Follows(access.kind, step, step')
    BY <1>1, <1>6, <2>7, StoresFollow
  <2>9. Has(access.kind, step')
    <3>1. f.at + 1 \in 1 .. Len(Stores(access.kind))
      BY <1>1, <1>4, <1>5, <1>6
    <3> QED
      BY <1>1, <2>7, <3>1, StoresFollow
  <2> QED
    BY <1>2, <2>2, <2>3, <2>5, <2>6, <2>7, <2>8, <2>9 DEF GoesOn, Has
<1>7. CASE ~(f.at < Len(Stores(access.kind)))
  <2>1. g = [f EXCEPT !.at = 1, !.todo = Tail(@)]
    BY <1>7
  <2>2. Tail(f.todo) \in Seq(Accesses) /\ Len(Tail(f.todo)) = Len(f.todo) - 1
        /\ \A i \in 1 .. Len(f.todo) - 1 : Tail(f.todo)[i] = f.todo[i + 1]
    BY <1>1, <1>5
  <2>3. /\ g \in Frames /\ g.todo = Tail(f.todo) /\ g.at = 1
    BY <1>1, <2>1, FrameNext
  <2> HIDE DEF g
  <2>4. /\ stack' \in Seq(Frames) /\ Len(stack') = n /\ stack'[n] = g
        /\ \A i \in 1 .. n : i # n => stack'[i] = stack[i]
    BY <1>2, <1>3, <2>3, ExceptSeq
  <2>5. f.at = Len(Stores(access.kind))
    BY <1>1, <1>4, <1>5, <1>7
  <2>6. ASSUME g.todo # <<>>
        PROVE  /\ Own(g.todo[1]) /\ g.todo[1].kind \in Kinds /\ Stores(g.todo[1].kind)[1] \in First \ {"none"}
               /\ 1 \in 1 .. Len(Stores(g.todo[1].kind))
    <3>1. Len(f.todo) > 1 /\ Len(f.todo) \in Nat
      BY <1>1, <1>5, <2>2, <2>3, <2>6
    <3>2. g.todo[1] = f.todo[2] /\ f.todo[2] \in Accesses /\ Own(f.todo[2])
      BY <1>5, <2>2, <2>3, <3>1
    <3>3. g.todo[1].kind \in Kinds
      BY <3>2 DEF Accesses
    <3>4. Len(Stores(g.todo[1].kind)) \in Nat /\ Len(Stores(g.todo[1].kind)) >= 1
      BY <3>3, StoresAre DEF Kinds, Long
    <3>5. 1 \in 1 .. Len(Stores(g.todo[1].kind))
      BY <3>4
    <3> QED
      BY <3>2, <3>3, <3>5, StoresFollow
  <2>7. Placed(g)
    BY <2>3, <2>6 DEF Placed
  <2>8. StackType'
    BY <1>2, <2>4, <2>7 DEF StackType
  <2>9. top' = g
    BY <2>4 DEF top
  <2>10. step' = IF g.todo = <<>> THEN "none" ELSE Stores(g.todo[1].kind)[1]
    BY <2>3, <2>9 DEF access, step
  <2>11. step' \in First
    BY <2>6, <2>10 DEF First
  <2>13. g.todo # <<>> => access'.kind \in Kinds /\ step' = Stores(access'.kind)[1]
    <3>1. access' = g.todo[1]
      BY <2>9 DEF access
    <3> QED
      BY <2>6, <2>10, <3>1
  <2>12. step = IF access.kind = "di" THEN "di"
                ELSE IF access.kind \in Long \cup {"ei"} THEN "ei" ELSE "clear"
    BY <1>1, <2>5, StoresFollow
  <2>14. IsOver
    BY <2>3, <2>9, <2>11, <2>12, <2>13 DEF IsOver
  <2> QED
    BY <1>2, <2>4, <2>8, <2>14
<1> QED
  BY <1>6, <1>7

\* What the stores do to the rest.
Effect ==
  /\ masked' = IF step = "di" THEN TRUE ELSE IF step = "ei" THEN FALSE ELSE masked
  /\ cpld_asserting' = IF step = "set" THEN cpld_asserting \cup access.data
                       ELSE IF step = "reset" THEN cpld_asserting \ access.data
                       ELSE cpld_asserting
  /\ assert_pin' = IF step = "wr" /\ access.kind \in {"assert", "deassert"}
                   THEN cpld_asserting ELSE assert_pin
  /\ odsr' = IF step = "address" THEN odsr \cup access.reg
             ELSE IF step = "put" THEN odsr \cup access.reg \cup word
             ELSE IF step = "clear" THEN {} ELSE odsr
  /\ drive' = IF step = "drive" THEN TRUE ELSE IF step = "passive" THEN FALSE ELSE drive
  /\ rd' = IF step = "rd" THEN TRUE ELSE IF step = "rd_off" THEN FALSE ELSE rd
  /\ wr' = IF step = "wr" THEN TRUE ELSE IF step = "wr_off" THEN FALSE ELSE wr
  /\ strobe' = IF step = "rd" THEN [kind |-> "read", reg |-> access.reg, data |-> {}]
               ELSE IF step = "wr" THEN [kind |-> "write", reg |-> access.reg, data |-> word]
               ELSE strobe

LEMMA WordBits ==
  ASSUME StackType, CopyInv, top.todo # <<>>
  PROVE  word \subseteq DataBits /\ access.reg \subseteq RegBits
<1>1. access.data \subseteq DataBits /\ access.reg \subseteq RegBits
  BY TopIs DEF Accesses
<1> QED
  BY <1>1 DEF word, CopyInv

LEMMA StoreEffect ==
  ASSUME PioInv, Store
  PROVE  Advance /\ step # "none" /\ top.todo # <<>> /\ Effect
<1>0. step = "none" => \A name : name # "none" => ~Does(name)
  BY DEF Does
<1>1. step # "none"
  BY <1>0 DEF Store, Mask, Shadow, Put, Drive, Strobe, Sample, StrobeOff, Clear
<1>2. top.todo # <<>> /\ Has(access.kind, step) /\ access.kind \in Kinds /\ Own(access)
  BY <1>1, TopIs DEF PioInv
<1>3. word \subseteq DataBits /\ access.reg \subseteq RegBits /\ RegBits \cap DataBits = {}
  BY <1>2, WordBits, PioAssumption DEF PioInv
<1>4. CASE Mask
  BY <1>1, <1>2, <1>4 DEF Mask, Does, Effect, Pins
<1>5. CASE Shadow
  BY <1>1, <1>2, <1>5 DEF Shadow, Does, Effect, Pins
<1>6. CASE Put
  BY <1>1, <1>2, <1>6 DEF Put, Does, Effect, Rest
<1>7. CASE Drive
  BY <1>1, <1>2, <1>7 DEF Drive, Does, Effect, Rest
<1>8. CASE Does("rd") /\ Strobe
  <2>0. step = "rd"
    BY <1>8 DEF Does
  <2>1. odsr = access.reg /\ ~rd
    BY <2>0 DEF PioInv, PinInv
  <2>2. odsr \cap RegBits = access.reg
    BY <1>3, <2>1
  <2>3. strobe' = [kind |-> "read", reg |-> access.reg, data |-> {}]
    BY <1>8, <2>1, <2>2 DEF Strobe, Does
  <2> QED
    BY <1>1, <1>2, <1>8, <2>3 DEF Strobe, Does, Effect, Rest
<1>9. CASE Does("wr") /\ Strobe
  <2>1. odsr = access.reg \cup word /\ ~wr /\ drive
    BY <1>9 DEF PioInv, PinInv, Does
  <2>2. odsr \cap RegBits = access.reg /\ odsr \cap DataBits = word
    BY <1>3, <2>1
  <2>3. strobe' = [kind |-> "write", reg |-> access.reg, data |-> word]
    BY <1>9, <2>1, <2>2 DEF Strobe, Does
  <2>4. strobe'.reg = access.reg /\ strobe'.data = word
    BY <2>3
  <2>5. assert_pin' = IF access.reg = ASSERT THEN word ELSE assert_pin
    BY <1>9, <2>1, <2>4 DEF Strobe, Does
  <2>6. access.kind \in {"write", "write_long", "assert", "deassert"}
    BY <1>2, <1>9 DEF Has, Does
  <2>7. assert_pin' = IF access.kind \in {"assert", "deassert"} THEN cpld_asserting ELSE assert_pin
    BY <1>2, <2>5, <2>6 DEF Own, word
  <2> QED
    BY <1>1, <1>2, <1>9, <2>3, <2>7 DEF Strobe, Does, Effect
<1>10. CASE Sample
  BY <1>1, <1>2, <1>10 DEF Sample, Does, Effect, Pins, Rest
<1>11. CASE StrobeOff
  BY <1>1, <1>2, <1>11 DEF StrobeOff, Does, Effect, Rest
<1>12. CASE Clear
  BY <1>1, <1>2, <1>12 DEF Clear, Does, Effect, Rest
<1>13. Strobe => Does("rd") \/ Does("wr")
  BY DEF Strobe
<1> QED
  BY <1>4, <1>5, <1>6, <1>7, <1>8, <1>9, <1>10, <1>11, <1>12, <1>13 DEF Store

LEMMA NextIs ==
  ASSUME NEW t, Closed(t) \/ Open(t) \/ t = <<EI>>, t # <<>>
  PROVE  /\ Closed(Tail(t)) \/ Open(Tail(t)) \/ Tail(t) = <<EI>>
         /\ t \in Seq(Accesses) /\ (Len(t) > 1 => Own(t[2]))
<1>1. Closed(Tail(t)) \/ Open(Tail(t)) \/ Tail(t) = <<EI>>
  BY ClosedNext, OpenNext, EiNext, Exclusive
<1>2. t \in Seq(Accesses)
  BY ClosedNext, OpenNext, EiNext
<1>3. ASSUME Len(t) > 1 PROVE Own(t[2])
  <2>1. Len(Tail(t)) = Len(t) - 1 /\ \A i \in 1 .. Len(Tail(t)) : Tail(t)[i] = t[i + 1]
    BY <1>2, HeadTailProperties
  <2>2. Len(t) \in Nat /\ 1 \in 1 .. Len(Tail(t)) /\ 1 + 1 = 2
    BY <1>2, <1>3, <2>1
  <2>3. Tail(t)[1] = t[2] /\ Tail(t) # <<>>
    <3>1. Tail(t)[1] = t[1 + 1]
      BY <2>1, <2>2
    <3>2. Tail(t) # <<>>
      BY <2>2
    <3> QED
      BY <3>1, <3>2
  <2> QED
    BY <1>1, <2>3, ClosedNext, OpenNext, EiNext
<1> QED
  BY <1>1, <1>2, <1>3

\* The two of the stack, while the top one has a store to do.
LEMMA StoreStep ==
  ASSUME PioInv, Advance, step # "none"
  PROVE  /\ StackType' /\ Len(stack') = Len(stack)
         /\ Len(stack) = 1 => top = stack[1] /\ top' = stack'[1]
         /\ Len(stack) = 2 => stack'[1] = stack[1] /\ top = stack[2] /\ top' = stack'[2]
         /\ GoesOn \/ IsOver
<1>1. top.todo # <<>>
  BY TopIs DEF PioInv
<1>2. Len(stack) = 1 => Closed(top.todo) \/ Open(top.todo) \/ top.todo = <<EI>>
  BY DEF PioInv, MainInv, top
<1>3. Len(stack) = 2 => Len(top.todo) = 1
  BY <1>1 DEF PioInv, IsrInv, top
<1>4. Len(top.todo) > 1 => Own(top.todo[2])
  <2>1. Len(stack) = 1 \/ Len(stack) = 2
    BY DEF PioInv, StackType
  <2>2. CASE Len(stack) = 1
    BY <1>1, <1>2, <2>2, NextIs
  <2>3. CASE Len(stack) = 2
    BY <1>3, <2>3
  <2> QED
    BY <2>1, <2>2, <2>3
<1>5. StackType' /\ Len(stack') = Len(stack) /\ (Len(stack) = 2 => stack'[1] = stack[1])
      /\ (GoesOn \/ IsOver)
  BY <1>4, AdvanceStep DEF PioInv
<1> QED
  BY <1>5 DEF top

\* While cpld_isr runs nothing of what the main loop keeps changes.
LEMMA IsrKeeps ==
  ASSUME PioInv, Effect, step # "none", Len(stack) = 2
  PROVE  /\ access.kind \in {"read", "write"} /\ Len(top.todo) = 1 /\ top.todo \in Seq(Accesses)
         /\ masked' = masked /\ masked = TRUE
         /\ cpld_asserting' = cpld_asserting /\ assert_pin' = assert_pin
<1>1. top.todo # <<>> /\ Has(access.kind, step) /\ top.todo \in Seq(Accesses)
  BY TopIs DEF PioInv, Frames
<1>2. access.kind \in {"read", "write"} /\ Len(top.todo) = 1 /\ masked = TRUE
  BY <1>1 DEF PioInv, IsrInv, top, access
<1>3. step \notin {"di", "ei", "set", "reset"}
  BY <1>1, <1>2 DEF Has, Long
<1> QED
  BY <1>1, <1>2, <1>3 DEF Effect

-----------------------------------------------------------------------------
\* The pins before the next store.
LEMMA StorePins ==
  ASSUME PioInv, Effect, Advance, step # "none"
  PROVE  PinInv' /\ StrobeInv'
<1>1. /\ top.todo # <<>> /\ Has(access.kind, step) /\ step \in Steps \ {"none"}
      /\ access.kind \in Kinds
  BY TopIs DEF PioInv
<1>2. word \subseteq DataBits /\ access.reg \subseteq RegBits
  BY <1>1, WordBits DEF PioInv
<1>3. CASE GoesOn
  <2>1. access' = access /\ Follows(access.kind, step, step')
    BY <1>3 DEF GoesOn
  <2>2. step' # "put" /\ step # "set" /\ step # "reset" => word' = word
    BY <2>1 DEF Effect, word
  <2>3. odsr' \subseteq RegBits \cup DataBits
    BY <1>2 DEF PioInv, PinInv, Effect
  <2>4. /\ step' \in {"drive", "wr", "wr_off", "passive"} => odsr' = access'.reg \cup word'
        /\ step' \in {"rd", "sample", "rd_off"} => odsr' = access'.reg
        /\ step' \in First => odsr' = {}
    BY <1>1, <2>1, <2>2 DEF PioInv, PinInv, Effect, Follows, First, Has
  <2>5. /\ drive' \in BOOLEAN /\ rd' \in BOOLEAN /\ wr' \in BOOLEAN /\ masked' \in BOOLEAN
        /\ drive' <=> step' \in {"wr", "wr_off", "passive"}
        /\ rd' <=> step' \in {"sample", "rd_off"}
        /\ wr' <=> step' = "wr_off"
    BY <2>1 DEF PioInv, PinInv, Effect, Follows
  <2>6. StrobeInv'
    BY <1>1, <1>2, <2>1, <2>2 DEF PioInv, StrobeInv, StrobesIntact, Effect, Follows
  <2> QED
    BY <2>3, <2>4, <2>5, <2>6 DEF PinInv, First
<1>4. CASE IsOver
  <2>1. step' \in First /\ step \in {"di", "ei", "clear"}
    BY <1>4 DEF IsOver
  <2>2. odsr' = {}
    BY <2>1 DEF PioInv, PinInv, Effect
  <2>3. /\ drive' \in BOOLEAN /\ rd' \in BOOLEAN /\ wr' \in BOOLEAN /\ masked' \in BOOLEAN
        /\ drive' <=> step' \in {"wr", "wr_off", "passive"}
        /\ rd' <=> step' \in {"sample", "rd_off"}
        /\ wr' <=> step' = "wr_off"
    BY <2>1 DEF PioInv, PinInv, Effect, First
  <2>4. StrobeInv'
    BY <2>1 DEF PioInv, StrobeInv, StrobesIntact, Effect, First
  <2> QED
    BY <2>1, <2>2, <2>3, <2>4 DEF PinInv, First
<1> QED
  BY <1>3, <1>4, StoreStep

\* ... and the ARM's copy of ASSERT.
LEMMA StoreCopy ==
  ASSUME PioInv, Effect, Advance, step # "none"
  PROVE  CopyInv'
<1>1. /\ top.todo # <<>> /\ Has(access.kind, step) /\ step \in Steps \ {"none"}
      /\ access.kind \in Kinds /\ access \in Accesses
  BY TopIs DEF PioInv
<1>2. cpld_asserting' \subseteq DataBits /\ assert_pin' \subseteq DataBits
  BY <1>1 DEF PioInv, CopyInv, Effect, Accesses
<1>3. Len(stack') = Len(stack) /\ Len(stack) \in {1, 2} /\ (GoesOn \/ IsOver)
  BY StoreStep DEF PioInv, StackType
<1>4. CASE Len(stack) = 2
  <2>1. cpld_asserting = assert_pin
    BY <1>4 DEF PioInv, CopyInv
  <2> QED
    BY <1>2, <1>4, <2>1, IsrKeeps DEF CopyInv
<1>5. CASE Len(stack) = 1 /\ GoesOn
  <2>1. access' = access /\ Follows(access.kind, step, step')
    BY <1>5 DEF GoesOn
  <2>2. step \in {"set", "reset"} => access'.kind \in {"assert", "deassert"} /\ step' = "put"
    BY <1>1, <2>1 DEF Has, Follows
  <2>3. CASE step \in {"set", "reset"}
    BY <1>2, <1>3, <1>5, <2>2, <2>3 DEF CopyInv
  <2>4. CASE step \notin {"set", "reset"}
    <3>1. cpld_asserting' = cpld_asserting
      BY <2>4 DEF Effect
    <3>2. step = "wr" /\ access.kind \in {"assert", "deassert"} => assert_pin' = cpld_asserting
      BY DEF Effect
    <3>3. ~(step = "wr" /\ access.kind \in {"assert", "deassert"}) => assert_pin' = assert_pin
      BY DEF Effect
    <3>4. step \in {"put", "drive"} => step' \in {"put", "drive", "wr"}
      BY <2>1 DEF Follows
    <3> QED
      BY <1>2, <1>3, <1>5, <2>1, <3>1, <3>2, <3>3, <3>4 DEF PioInv, CopyInv
  <2> QED
    BY <2>3, <2>4
<1>6. CASE Len(stack) = 1 /\ IsOver
  <2>1. step \in {"di", "ei", "clear"}
    BY <1>6 DEF IsOver
  <2> QED
    BY <1>2, <2>1 DEF PioInv, CopyInv, Effect
<1> QED
  BY <1>3, <1>4, <1>5, <1>6

-----------------------------------------------------------------------------
\* The main loop after one of its stores.
Loop == Closed(top.todo) \/ Open(top.todo) \/ top.todo = <<EI>>
Masks == /\ Closed(top.todo) \/ InLong(top) => masked = TRUE
         /\ Open(top.todo) /\ ~InLong(top) => masked = FALSE
Masters == /\ Owns(top.todo) => BBSY \in assert_pin /\ BBSY \in cpld_asserting
           /\ (top.todo # <<>> /\ access = Assert({BBSY}) /\ step # "set")
                => BBSY \in cpld_asserting

LEMMA MainIs ==
  ASSUME Len(stack) = 1
  PROVE  MainInv <=> Loop /\ Masks /\ Masters
BY DEF MainInv, Loop, Masks, Masters, top, access, step, StepOf

LEMMA InLongIs == InLong(top) <=> (top.todo # <<>> /\ access.kind \in Long /\ step # "di")
BY DEF InLong, StepOf, step, access

\* No bit is taken out of ASSERT by the access that goes on, but those of a
\* cpld_deassert: only the last of a section's names BBSY.
LEMMA LineIsAnother ==
  /\ Deassert({LINE}).data = {LINE} /\ Deassert({LINE}).kind = "deassert"
  /\ Assert({BBSY}).data = {BBSY} /\ Assert({BBSY}).kind = "assert"
  /\ BBSY \notin {LINE}
BY PioAssumption DEF Deassert, Assert

LEMMA OwnsNext ==
  ASSUME NEW t, Owns(t)
  PROVE  t[1].kind \in {"write", "write_long"} \/ t[1] = Deassert({LINE})
BY DEF Owns, Tail2, Tail3, Tail4, Write, WriteLong

LEMMA GoesOnMain ==
  ASSUME PioInv, Effect, Advance, step # "none", Len(stack) = 1, GoesOn
  PROVE  Loop' /\ Masks' /\ Masters'
<1>1. /\ top.todo # <<>> /\ Has(access.kind, step) /\ access.kind \in Kinds
  BY TopIs DEF PioInv
<1>2. Loop /\ Masks /\ Masters
  BY MainIs DEF PioInv
<1>3. /\ top'.todo = top.todo /\ access' = access /\ Follows(access.kind, step, step')
  BY DEF GoesOn
<1>4. Loop'
  BY <1>2, <1>3 DEF Loop
<1>5. step' # "di" /\ step # "ei"
  BY <1>3 DEF Follows
<1>6. InLong(top)' <=> access.kind \in Long
  <2>1. InLong(top)' <=> (top'.todo # <<>> /\ access'.kind \in Long /\ step' # "di")
    BY DEF InLong, StepOf, step, access
  <2> QED
    BY <1>1, <1>3, <1>5, <2>1
<1>7. Masks'
  <2>1. CASE step = "di"
    <3>1. masked' = TRUE /\ access.kind \in Long
      <4>1. access.kind \in Long
        BY <1>1, <1>3, <2>1 DEF Follows, Long
      <4> QED
        BY <2>1, <4>1 DEF Effect
    <3> QED
      BY <1>6, <3>1 DEF Masks
  <2>2. CASE step # "di"
    <3>1. masked' = masked
      BY <1>5, <2>2 DEF Effect
    <3>2. InLong(top) <=> access.kind \in Long
      BY <1>1, <2>2, InLongIs
    <3> QED
      BY <1>2, <1>3, <1>6, <3>1, <3>2 DEF Masks
  <2> QED
    BY <2>1, <2>2
<1>8. ASSUME Owns(top.todo) PROVE BBSY \in assert_pin' /\ BBSY \in cpld_asserting'
  <2>1. BBSY \in assert_pin /\ BBSY \in cpld_asserting
    BY <1>2, <1>8 DEF Masters
  <2>2. access.kind \in {"write", "write_long"} \/ access = Deassert({LINE})
    BY <1>8, OwnsNext DEF access
  <2>3. step = "reset" => access.data = {LINE}
    BY <1>1, <2>2, LineIsAnother DEF Has
  <2>4. BBSY \in cpld_asserting'
    BY <2>1, <2>3, LineIsAnother DEF Effect
  <2>5. BBSY \in assert_pin'
    BY <2>1 DEF Effect
  <2> QED
    BY <2>4, <2>5
<1>9. ASSUME access = Assert({BBSY}) PROVE BBSY \in cpld_asserting'
  <2>1. step # "reset"
    BY <1>1, <1>9, LineIsAnother DEF Has
  <2>2. CASE step = "set"
    BY <1>9, <2>2, LineIsAnother DEF Effect
  <2>3. CASE step # "set"
    BY <1>1, <1>2, <1>9, <2>1, <2>3 DEF Effect, Masters
  <2> QED
    BY <2>2, <2>3
<1> QED
  BY <1>3, <1>4, <1>7, <1>8, <1>9 DEF Masters

LEMMA IsOverMain ==
  ASSUME PioInv, Effect, Advance, step # "none", Len(stack) = 1, IsOver, StackType'
  PROVE  Loop' /\ Masks' /\ Masters'
<1> DEFINE t == top.todo
           u == top'.todo
<1>1. /\ t # <<>> /\ Has(access.kind, step) /\ access.kind \in Kinds /\ access = t[1]
  BY TopIs DEF PioInv, access
<1>2. Loop /\ Masks /\ Masters
  BY MainIs DEF PioInv
<1>3. /\ u = Tail(t) /\ step' \in First
      /\ step = IF access.kind = "di" THEN "di"
                ELSE IF access.kind \in Long \cup {"ei"} THEN "ei" ELSE "clear"
  BY DEF IsOver
<1>4. Loop'
  BY <1>1, <1>2, <1>3, NextIs DEF Loop
<1>5. /\ cpld_asserting' = cpld_asserting /\ assert_pin' = assert_pin
      /\ cpld_asserting = assert_pin
  BY <1>3 DEF Effect, PioInv, CopyInv
<1>6. u # <<>> => access' = u[1]
  BY DEF access
<1>7. InLong(top)' <=> (u # <<>> /\ access'.kind \in Long /\ step' # "di")
  BY DEF InLong, StepOf, step, access
<1>8. ~InLong(top)'
  <2>1. u # <<>> => access'.kind \in Kinds /\ step' = Stores(access'.kind)[1]
    BY DEF IsOver
  <2>2. "read_long" \in Kinds /\ Stores("read_long")[1] = "di" /\ Stores("write_long")[1] = "di"
    BY StoresAre DEF Kinds, Long
  <2> QED
    BY <1>7, <2>1, <2>2 DEF Long
<1>10. (u # <<>> /\ access' = Assert({BBSY})) => step' = "set"
  <2>1. u # <<>> => step' = Stores(access'.kind)[1]
    BY DEF IsOver
  <2>2. Stores("assert")[1] = "set"
    BY StoresAre
  <2> QED
    BY <2>1, <2>2, LineIsAnother
<1>9. CASE Closed(t)
  <2>1. /\ access.kind \notin {"di", "ei"}
        /\ IF access.kind \in Long THEN u \in {Tail4, <<EI>>} ELSE Closed(u) \/ u = <<EI>>
        /\ Owns(u) => (Owns(t) \/ access = Assert({BBSY}))
    BY <1>1, <1>3, <1>9, ClosedNext
  <2>2. masked = TRUE
    BY <1>2, <1>9 DEF Masks
  <2>3. Masks'
    <3>1. CASE access.kind \in Long
      <4>1. masked' = FALSE
        BY <1>3, <2>1, <3>1 DEF Effect
      <4>2. ~Closed(u)
        BY <2>1, <3>1, Exclusive
      <4> QED
        BY <1>8, <4>1, <4>2 DEF Masks
    <3>2. CASE access.kind \notin Long
      <4>1. masked' = TRUE
        BY <1>3, <2>1, <2>2, <3>2 DEF Effect
      <4>2. ~Open(u)
        BY <2>1, <3>2, Exclusive
      <4> QED
        BY <1>8, <4>1, <4>2 DEF Masks
    <3> QED
      BY <3>1, <3>2
  <2>4. Owns(u) => BBSY \in assert_pin' /\ BBSY \in cpld_asserting'
    <3>1. access = Assert({BBSY}) => step # "set"
      BY <1>3, LineIsAnother DEF Long
    <3> QED
      BY <1>1, <1>2, <1>5, <2>1, <3>1 DEF Masters
  <2> QED
    BY <1>4, <1>10, <2>3, <2>4 DEF Masters
<1>11. CASE Open(t)
  <2>1. /\ \/ access = DI /\ Closed(u)
           \/ access.kind \in Long /\ u = <<>>
           \/ access.kind = "deassert" /\ u \in {Tail5, <<EI>>}
        /\ ~Owns(u)
    BY <1>1, <1>3, <1>11, OpenNext, LineIsAnother, Exclusive DEF Deassert
  <2>2. Masks'
    <3>1. CASE access = DI /\ Closed(u)
      <4>1. masked' = TRUE
        BY <1>3, <3>1 DEF Effect, DI
      <4> QED
        BY <3>1, <4>1, Exclusive DEF Masks
    <3>2. CASE access.kind \in Long /\ u = <<>>
      <4>1. masked' = FALSE
        BY <1>3, <3>2 DEF Effect, Long
      <4> QED
        BY <1>8, <3>2, <4>1, Exclusive DEF Masks
    <3>3. CASE access.kind = "deassert" /\ u \in {Tail5, <<EI>>}
      <4>1. masked' = masked /\ ~InLong(top)
        BY <1>3, <3>3, InLongIs DEF Effect, Long
      <4>2. masked' = FALSE
        BY <1>2, <1>11, <4>1 DEF Masks
      <4>3. ~Closed(u)
        BY <3>3, Exclusive
      <4> QED
        BY <1>8, <4>2, <4>3 DEF Masks
    <3> QED
      BY <2>1, <3>1, <3>2, <3>3
  <2> QED
    BY <1>4, <1>10, <2>1, <2>2 DEF Masters
<1>12. CASE t = <<EI>>
  <2>1. u = <<>> /\ access.kind = "ei"
    BY <1>1, <1>3, <1>12, EiNext
  <2>2. masked' = FALSE
    BY <1>3, <2>1 DEF Effect
  <2> QED
    BY <1>4, <1>8, <2>1, <2>2, Exclusive, EiNext DEF Masks, Masters
<1> QED
  BY <1>2, <1>9, <1>11, <1>12 DEF Loop

LEMMA StoreKeeps ==
  ASSUME PioInv, Store
  PROVE  PioInv'
<1>1. Advance /\ step # "none" /\ top.todo # <<>> /\ Effect
  BY StoreEffect
<1>2. /\ StackType' /\ Len(stack') = Len(stack) /\ (GoesOn \/ IsOver)
      /\ Len(stack) = 1 => top = stack[1] /\ top' = stack'[1]
      /\ Len(stack) = 2 => stack'[1] = stack[1] /\ top = stack[2] /\ top' = stack'[2]
  BY <1>1, StoreStep
<1>3. PinInv' /\ StrobeInv' /\ CopyInv'
  BY <1>1, StorePins, StoreCopy
<1>4. CASE Len(stack) = 1
  <2>1. Loop' /\ Masks' /\ Masters'
    BY <1>1, <1>2, <1>4, GoesOnMain, IsOverMain
  <2>2. MainInv'
    BY <1>2, <1>4, <2>1 DEF MainInv, Loop, Masks, Masters, top, access, step, StepOf
  <2>3. IsrInv'
    BY <1>2, <1>4 DEF IsrInv
  <2> QED
    BY <1>2, <1>3, <2>2, <2>3 DEF PioInv
<1>5. CASE Len(stack) = 2
  <2>1. /\ access.kind \in {"read", "write"} /\ Len(top.todo) = 1 /\ top.todo \in Seq(Accesses)
        /\ masked' = masked /\ masked = TRUE
        /\ cpld_asserting' = cpld_asserting /\ assert_pin' = assert_pin
    BY <1>1, <1>5, IsrKeeps
  <2>2. MainInv'
    <3>1. stack'[1] = stack[1] /\ Len(stack') # 1
      BY <1>2, <1>5
    <3> QED
      BY <2>1, <3>1 DEF PioInv, MainInv, InLong, StepOf
  <2>3. top'.todo = <<>> \/ top'.todo = top.todo
    <3>1. Tail(top.todo) = <<>>
      <4>1. Tail(top.todo) \in Seq(Accesses) /\ Len(Tail(top.todo)) = 0
        BY <1>1, <2>1, HeadTailProperties
      <4> QED
        BY <4>1, EmptySeq
    <3> QED
      BY <1>2, <3>1 DEF GoesOn, IsOver
  <2>4. IsrInv'
    <3>1. stack'[1] = stack[1] /\ (stack'[2].todo = <<>> \/ stack'[2].todo = stack[2].todo)
      BY <1>2, <1>5, <2>3
    <3> QED
      BY <1>2, <1>5, <2>1, <2>3 DEF PioInv, IsrInv, InLong, StepOf
  <2> QED
    BY <1>2, <1>3, <2>2, <2>4 DEF PioInv
<1> QED
  BY <1>4, <1>5 DEF PioInv, StackType

-----------------------------------------------------------------------------
(* The other steps: nothing is on the pins when one of them is taken.      *)
LEMMA PinsIdle ==
  ASSUME PinInv, CopyInv, StrobeInv, step \in {"none", "di", "ei"}, Pins,
         UNCHANGED <<cpld_asserting, assert_pin, strobe>>,
         step' \in First, masked' \in BOOLEAN
  PROVE  PinInv' /\ CopyInv' /\ StrobeInv'
<1>1. PinInv'
  BY DEF PinInv, First, Pins
<1>2. CopyInv'
  BY DEF CopyInv, First
<1>3. StrobeInv'
  BY DEF StrobeInv, StrobesIntact, First
<1> QED
  BY <1>1, <1>2, <1>3

LEMMA NewFrame ==
  ASSUME NEW c \in Seq(Accesses), NEW left \in Nat, c # <<>> => Own(c[1])
  PROVE  /\ Frame(c, left) \in Frames /\ Placed(Frame(c, left)) /\ Frame(c, left).todo = c
         /\ StepOf(Frame(c, left)) \in First
         /\ c # <<>> => StepOf(Frame(c, left)) = Stores(c[1].kind)[1]
<1> DEFINE g == Frame(c, left)
<1>1. g.todo = c /\ g.at = 1 /\ g \in Frames
  BY DEF Frame, Frames
<1>2. ASSUME c # <<>>
      PROVE  /\ Stores(c[1].kind)[1] \in First /\ 1 \in 1 .. Len(Stores(c[1].kind))
  <2>1. c[1].kind \in Kinds
    <3>1. c[1] \in Accesses
      BY <1>2
    <3> QED
      BY <3>1 DEF Accesses
  <2>2. Len(Stores(c[1].kind)) \in Nat /\ Len(Stores(c[1].kind)) >= 1
    BY <2>1, StoresAre DEF Kinds, Long
  <2>3. 1 \in 1 .. Len(Stores(c[1].kind))
    BY <2>2
  <2> QED
    BY <2>1, <2>3, StoresFollow
<1> HIDE DEF g
<1>3. Placed(g) /\ StepOf(g) = IF c = <<>> THEN "none" ELSE Stores(c[1].kind)[1]
  BY <1>1, <1>2 DEF Placed, StepOf
<1> QED
  BY <1>1, <1>2, <1>3 DEF g, First

\* Every call begins with interrupts enabled.
LEMMA CallIsOpen ==
  ASSUME Unprotected = FALSE, NEW c \in Calls
  PROVE  Open(c) /\ c # <<>> /\ ~Owns(c) /\ c[1] # Assert({BBSY})
<1>1. \/ \E a \in Guarded : c = <<DI, a, EI>>
      \/ \E b \in Bits : c = Section(b)
      \/ \E a \in Longs : c = <<a>>
  BY DEF Calls, Safe, Guarded, Longs, Bits
<1>2. Open(c)
  BY <1>1 DEF Open
<1>3. c # <<>> /\ c[1].kind # "assert"
  BY <1>1 DEF Section, DI, Longs, ReadLong, WriteLong
<1>4. ~Owns(c)
  <2>1. \A a \in Guarded : <<DI, a, EI>>[1].kind = "di"
    BY DEF DI
  <2>2. \A b : Section(b)[1].kind = "di"
    BY DEF Section, DI
  <2>3. Owns(c) => c[1].kind \in {"write", "write_long", "deassert"} /\ Len(c) \in {3, 4, 5}
    BY OwnsLength
  <2>4. \A a : ~Owns(<<a>>)
    BY NotOwns
  <2> QED
    BY <1>1, <2>1, <2>2, <2>3, <2>4
<1> QED
  BY <1>2, <1>3, <1>4, LineIsAnother

LEMMA IsrCallIs ==
  ASSUME NEW c \in IsrCalls \cup {<<Write(SUBREG, {LINE})>>}
  PROVE  c \in Seq(Accesses) /\ c # <<>> /\ Own(c[1]) /\ c[1].kind \in {"read", "write"} /\ Len(c) = 1
<1>1. {LINE} \in Bits
  BY DEF Bits
<1>2. /\ Write(DATA, {LINE}) \in Accesses /\ Own(Write(DATA, {LINE}))
      /\ Read(ASSERT) \in Accesses /\ Own(Read(ASSERT))
  BY <1>1, AccessTypes DEF Guarded
<1>3. /\ ASSERT \in SUBSET RegBits /\ SUBREG \in SUBSET RegBits /\ DATA \in SUBSET RegBits
      /\ ASSERT # SUBREG /\ {LINE} \in SUBSET DataBits /\ {} \in SUBSET DataBits
  BY PioAssumption
<1>4. /\ Write(SUBREG, {LINE}) \in Accesses /\ Own(Write(SUBREG, {LINE}))
      /\ Read(DATA) \in Accesses /\ Own(Read(DATA))
  BY <1>3 DEF Write, Read, Accesses, Kinds, Own
<1>5. \E a : c = <<a>> /\ a \in {Write(SUBREG, {LINE}), Read(ASSERT), Read(DATA), Write(DATA, {LINE})}
  BY DEF IsrCalls
<1>6. PICK a : c = <<a>> /\ a \in {Write(SUBREG, {LINE}), Read(ASSERT), Read(DATA), Write(DATA, {LINE})}
  BY <1>5
<1>7. a \in Accesses /\ Own(a) /\ a.kind \in {"read", "write"}
  BY <1>2, <1>4, <1>6 DEF Write, Read
<1> QED
  BY <1>6, <1>7

LEMMA CallKeeps ==
  ASSUME PioInv, Unprotected = FALSE, Call
  PROVE  PioInv'
<1>1. PICK c \in Calls : stack' = <<Frame(c, 0)>>
  BY DEF Call
<1>2. Len(stack) = 1 /\ top.todo = <<>> /\ Quiet
  BY DEF Call
<1>3. Open(c) /\ c # <<>> /\ ~Owns(c) /\ c[1] # Assert({BBSY})
  BY CallIsOpen
<1>4. c \in Seq(Accesses) /\ Own(c[1])
  BY <1>3, OpenNext
<1> DEFINE g == Frame(c, 0)
<1>5. /\ g \in Frames /\ Placed(g) /\ g.todo = c /\ StepOf(g) \in First
      /\ StepOf(g) = Stores(c[1].kind)[1]
  BY <1>3, <1>4, NewFrame
<1> HIDE DEF g
<1>6. stack' = <<g>> /\ Len(stack') = 1 /\ stack'[1] = g /\ stack' \in Seq(Frames)
  BY <1>1, <1>5 DEF g
<1>7. StackType'
  BY <1>5, <1>6 DEF StackType
<1>8. step = "none" /\ step' \in First
  BY <1>2, <1>5, <1>6 DEF step, StepOf, top, access
<1>9. PinInv' /\ CopyInv' /\ StrobeInv'
  <2>1. masked' \in BOOLEAN
    BY <1>2 DEF Quiet, Rest, PioInv, PinInv
  <2> QED
    BY <1>2, <1>8, <2>1, PinsIdle DEF PioInv, Quiet, Rest
<1>10. ~InLong(g)
  <2>1. c[1].kind \in Long => StepOf(g) = "di"
    BY <1>5, StoresAre DEF Long
  <2> QED
    BY <1>5, <2>1 DEF InLong
<1>11. masked' = FALSE
  <2>1. Open(top.todo) /\ ~InLong(top)
    BY <1>2, Exclusive DEF InLong
  <2>2. masked = FALSE
    BY <1>2, <2>1 DEF PioInv, MainInv, top
  <2> QED
    BY <1>2, <2>2 DEF Quiet, Rest
<1>12. MainInv'
  <2>1. ~Closed(c)
    BY <1>3, Exclusive
  <2> QED
    BY <1>3, <1>5, <1>6, <1>10, <1>11, <2>1 DEF MainInv, InLong, StepOf
<1>13. IsrInv'
  BY <1>6 DEF IsrInv
<1> QED
  BY <1>7, <1>9, <1>12, <1>13 DEF PioInv

\* An interrupt comes between two accesses of the main loop.
LEMMA InterruptKeeps ==
  ASSUME PioInv, Interrupt
  PROVE  PioInv'
<1> DEFINE c == <<Write(SUBREG, {LINE})>>
           g == Frame(c, IsrAccesses)
           t == stack[1].todo
<1>1. ~masked /\ Len(stack) < 3 /\ BBSY \notin assert_pin /\ masked' = TRUE
      /\ ~(step # "none" /\ access = Deassert({BBSY})) /\ stack' = Append(stack, g)
      /\ Pins /\ UNCHANGED <<cpld_asserting, assert_pin, strobe>>
  BY DEF Interrupt
<1>2. Len(stack) = 1
  BY <1>1 DEF PioInv, StackType, IsrInv
<1>3. top = stack[1] /\ (t # <<>> => access = t[1]) /\ StepOf(stack[1]) = step
  BY <1>2 DEF top, access, step, StepOf
<1>4. c \in Seq(Accesses) /\ c # <<>> /\ Own(c[1]) /\ c[1].kind \in {"read", "write"} /\ Len(c) = 1
  BY IsrCallIs
<1>5. g \in Frames /\ Placed(g) /\ g.todo = c /\ StepOf(g) \in First
  BY <1>4, NewFrame, PioAssumption
<1> HIDE DEF g, c
<1>6. /\ stack \in Seq(Frames) /\ Len(stack') = 2 /\ stack' \in Seq(Frames)
      /\ stack'[1] = stack[1] /\ stack'[2] = g
  <2>1. stack \in Seq(Frames)
    BY DEF PioInv, StackType
  <2> QED
    <3> DEFINE u == Append(stack, g)
    <3>1. /\ u \in Seq(Frames) /\ Len(u) = Len(stack) + 1 /\ u[Len(stack) + 1] = g
          /\ \A i \in 1 .. Len(stack) : u[i] = stack[i]
      BY <1>5, <2>1, AppendProperties
    <3> HIDE DEF u
    <3>2. stack' = u /\ Len(u) = 2 /\ u[2] = g /\ u[1] = stack[1]
      BY <1>1, <1>2, <3>1 DEF u
    <3> QED
      BY <2>1, <3>1, <3>2
<1>7. StackType'
  BY <1>2, <1>5, <1>6 DEF PioInv, StackType
<1>8. ~Closed(t) /\ ~InLong(stack[1]) /\ (Open(t) \/ t = <<EI>>) /\ ~Owns(t)
  BY <1>1, <1>2 DEF PioInv, MainInv
<1>9. step \in {"none", "di", "ei"}
  <2>1. CASE t = <<>>
    BY <1>3, <2>1 DEF StepOf
  <2>2. t # <<>> => /\ step = Stores(t[1].kind)[stack[1].at]
                    /\ stack[1].at \in 1 .. Len(Stores(t[1].kind))
    BY <1>3, TopIs DEF PioInv
  <2>3. CASE t # <<>> /\ t[1] \in {DI, EI}
    <3>1. Stores(t[1].kind) = <<t[1].kind>> /\ t[1].kind \in {"di", "ei"}
      BY <2>3, StoresAre DEF DI, EI
    <3>2. step = t[1].kind
      BY <2>2, <2>3, <3>1
    <3> QED
      BY <3>1, <3>2
  <2>4. CASE t # <<>> /\ t[1].kind \in Long
    BY <1>3, <1>8, <2>4 DEF InLong
  <2>5. CASE t # <<>> /\ Open(t)
    <3>1. \/ t[1] = DI \/ t[1].kind \in Long \/ t = Tail4 \/ t[1] = Deassert({BBSY})
      BY <2>5, OpenNext
    <3>2. t # Tail4
      BY <1>8 DEF Owns
    <3>3. t[1] = Deassert({BBSY}) => step = "none"
      BY <1>1, <1>3, <2>5
    <3> QED
      BY <2>3, <2>4, <2>5, <3>1, <3>2, <3>3
  <2>6. CASE t = <<EI>>
    BY <2>3, <2>6, EiNext
  <2> QED
    BY <1>8, <2>1, <2>5, <2>6
<1>10. step' = StepOf(g)
  BY <1>6 DEF step, StepOf, top, access
<1>11. PinInv' /\ CopyInv' /\ StrobeInv'
  BY <1>1, <1>5, <1>9, <1>10, PinsIdle DEF PioInv
<1>12. MainInv'
  BY <1>1, <1>6 DEF PioInv, MainInv, InLong, StepOf
<1>13. IsrInv'
  BY <1>1, <1>3, <1>4, <1>5, <1>6, <1>8, <1>9 DEF IsrInv, InLong, StepOf
<1> QED
  BY <1>7, <1>11, <1>12, <1>13 DEF PioInv

LEMMA IsrAccessKeeps ==
  ASSUME PioInv, IsrAccess
  PROVE  PioInv'
<1>1. Len(stack) = 2 /\ top.todo = <<>> /\ top.left > 0 /\ Quiet
  BY DEF IsrAccess, PioInv, StackType
<1>2. PICK c \in IsrCalls : stack' = Top(Frame(c, top.left - 1))
  BY DEF IsrAccess
<1> DEFINE g == Frame(c, top.left - 1)
<1>3. c \in Seq(Accesses) /\ c # <<>> /\ Own(c[1]) /\ c[1].kind \in {"read", "write"} /\ Len(c) = 1
  BY IsrCallIs
<1>4. top.left - 1 \in Nat
  <2>1. top.left \in Nat
    BY TopIs DEF PioInv, Frames
  <2> QED
    BY <1>1, <2>1
<1>5. g \in Frames /\ Placed(g) /\ g.todo = c /\ StepOf(g) \in First
  BY <1>3, <1>4, NewFrame
<1>6. stack' = [stack EXCEPT ![2] = g]
  BY <1>1, <1>2 DEF Top
<1> HIDE DEF g
<1>7. /\ stack' \in Seq(Frames) /\ Len(stack') = 2 /\ stack'[1] = stack[1] /\ stack'[2] = g
  <2>1. stack \in Seq(Frames) /\ 2 \in 1 .. Len(stack) /\ 1 \in 1 .. Len(stack)
    BY <1>1 DEF PioInv, StackType
  <2> QED
    <3> DEFINE u == [stack EXCEPT ![2] = g]
    <3>1. /\ u \in Seq(Frames) /\ Len(u) = Len(stack) /\ u[2] = g
          /\ \A i \in 1 .. Len(stack) : i # 2 => u[i] = stack[i]
      BY <1>5, <2>1, ExceptSeq
    <3> HIDE DEF u
    <3>2. stack' = u
      BY <1>6 DEF u
    <3> QED
      BY <1>1, <2>1, <3>1, <3>2
<1>8. StackType'
  BY <1>1, <1>5, <1>7 DEF PioInv, StackType
<1>9. step = "none" /\ step' \in First
  BY <1>1, <1>5, <1>7 DEF step, StepOf, top, access
<1>10. PinInv' /\ CopyInv' /\ StrobeInv'
  <2>1. masked' \in BOOLEAN
    BY <1>1 DEF Quiet, Rest, PioInv, PinInv
  <2> QED
    BY <1>1, <1>9, <2>1, PinsIdle DEF PioInv, Quiet, Rest
<1>11. MainInv'
  BY <1>1, <1>7 DEF PioInv, MainInv, InLong, StepOf, Quiet, Rest
<1>12. IsrInv'
  BY <1>1, <1>3, <1>5, <1>7 DEF PioInv, IsrInv, InLong, StepOf, Quiet, Rest
<1> QED
  BY <1>8, <1>10, <1>11, <1>12 DEF PioInv

LEMMA IsrReturnKeeps ==
  ASSUME PioInv, IsrReturn
  PROVE  PioInv'
<1>1. /\ Len(stack) = 2 /\ top.todo = <<>> /\ masked' = FALSE /\ stack' = SubSeq(stack, 1, 1)
      /\ Pins /\ UNCHANGED <<cpld_asserting, assert_pin, strobe>>
  BY DEF IsrReturn, PioInv, StackType
<1>2. /\ stack' \in Seq(Frames) /\ Len(stack') = 1 /\ stack'[1] = stack[1]
  <2>1. stack \in Seq(Frames)
    BY DEF PioInv, StackType
  <2> QED
    BY <1>1, <2>1, SubSeqProperties
<1>3. StackType'
  BY <1>1, <1>2 DEF PioInv, StackType
<1>4. ~Closed(stack[1].todo) /\ ~InLong(stack[1]) /\ StepOf(stack[1]) \in {"none", "di", "ei"}
  BY <1>1 DEF PioInv, IsrInv
<1>5. step' = StepOf(stack[1])
  BY <1>2 DEF step, StepOf, top, access
<1>6. step = "none"
  BY <1>1 DEF step
<1>7. PinInv' /\ CopyInv' /\ StrobeInv'
  BY <1>1, <1>4, <1>5, <1>6, PinsIdle DEF PioInv, First
<1>8. MainInv'
  BY <1>1, <1>2, <1>4 DEF PioInv, MainInv, InLong, StepOf
<1>9. IsrInv'
  <2>1. Len(stack') # 2
    BY <1>2
  <2> QED
    BY <2>1 DEF IsrInv
<1> QED
  BY <1>3, <1>7, <1>8, <1>9 DEF PioInv

LEMMA PioStarts == Init => PioInv
<1> SUFFICES ASSUME Init PROVE PioInv
  OBVIOUS
<1> DEFINE g == Frame(<<>>, 0)
<1>1. /\ g \in Frames /\ Placed(g) /\ g.todo = <<>> /\ StepOf(g) \in First
  BY NewFrame, SeqTypes
<1> HIDE DEF g
<1>2. stack = <<g>> /\ Len(stack) = 1 /\ stack[1] = g /\ stack \in Seq(Frames)
  BY <1>1 DEF Init, g
<1>3. step = "none" /\ top = g
  BY <1>1, <1>2 DEF step, top
<1>4. StackType /\ IsrInv
  BY <1>1, <1>2 DEF StackType, IsrInv
<1>5. MainInv
  BY <1>1, <1>2, Exclusive, NotOwns DEF Init, MainInv, InLong
<1>6. PinInv /\ CopyInv
  BY <1>3 DEF Init, PinInv, CopyInv
<1>7. StrobeInv
  BY <1>3 DEF Init, StrobeInv, StrobesIntact, Read
<1> QED
  BY <1>4, <1>5, <1>6, <1>7 DEF PioInv

LEMMA PioStutters == PioInv /\ UNCHANGED pioVars => PioInv'
<1> SUFFICES ASSUME PioInv, UNCHANGED pioVars PROVE PioInv'
  OBVIOUS
<1>1. /\ odsr' = odsr /\ drive' = drive /\ rd' = rd /\ wr' = wr /\ masked' = masked /\ stack' = stack
      /\ cpld_asserting' = cpld_asserting /\ assert_pin' = assert_pin /\ strobe' = strobe
  BY DEF pioVars
<1>2. top' = top /\ access' = access /\ step' = step /\ word' = word
  BY <1>1 DEF top, access, step, word
<1>3. StackType' /\ MainInv' /\ IsrInv'
  BY <1>1 DEF PioInv, StackType, MainInv, IsrInv, InLong, StepOf
<1>4. PinInv' /\ CopyInv' /\ StrobeInv'
  BY <1>1, <1>2 DEF PioInv, PinInv, CopyInv, StrobeInv, StrobesIntact
<1> QED
  BY <1>3, <1>4 DEF PioInv

LEMMA PioHolds ==
  ASSUME Unprotected = FALSE
  PROVE  Spec => []PioInv
<1>1. PioInv /\ [Next]_pioVars => PioInv'
  <2> SUFFICES ASSUME PioInv, [Next]_pioVars PROVE PioInv'
    OBVIOUS
  <2>1. CASE Store
    BY <2>1, StoreKeeps
  <2>2. CASE Call
    BY <2>2, CallKeeps
  <2>3. CASE Interrupt
    BY <2>3, InterruptKeeps
  <2>4. CASE IsrAccess
    BY <2>4, IsrAccessKeeps
  <2>5. CASE IsrReturn
    BY <2>5, IsrReturnKeeps
  <2>6. CASE UNCHANGED pioVars
    BY <2>6, PioStutters
  <2> QED
    BY <2>1, <2>2, <2>3, <2>4, <2>5, <2>6 DEF Next, Store
<1> QED
  BY <1>1, PioStarts, PTL DEF Spec

\* The pins and the copies of ASSERT hold bits of the registers' and cpld_isr
\* is never itself interrupted, for any addresses and accesses of cpld_isr.
THEOREM PioTypeCorrect ==
  ASSUME Unprotected = FALSE
  PROVE  Spec => []PioTypeOK
<1>1. PioInv => PioTypeOK
  BY DEF PioInv, StackType, PinInv, CopyInv, StrobeInv, PioTypeOK
<1> QED
  BY <1>1, PioHolds, PTL

\* When every access of the main loop is protected by the mask or by BBSY,
\* the CPLD sees each access with its own register and data, whenever
\* cpld_isr comes in between.
THEOREM StrobesAlwaysIntact ==
  ASSUME Unprotected = FALSE
  PROVE  Spec => []StrobesIntact
<1>1. PioInv => StrobesIntact
  BY DEF PioInv, StrobeInv
<1> QED
  BY <1>1, PioHolds, PTL

\* RD and WR are never active together, and the ARM never drives the data
\* pins while RD has the CPLD drive them.
THEOREM NeverCollides ==
  ASSUME Unprotected = FALSE
  PROVE  Spec => []NoCollision
<1>1. PioInv => NoCollision
  BY DEF PioInv, PinInv, NoCollision
<1> QED
  BY <1>1, PioHolds, PTL

\* cpld_asserting is what CPLD_REG_ASSERT holds whenever the main loop is
\* between two calls, so cpld_assert and cpld_deassert keep the other lines.
THEOREM ShadowAlwaysAgrees ==
  ASSUME Unprotected = FALSE
  PROVE  Spec => []ShadowAgrees
<1>1. PioInv => ShadowAgrees
  BY DEF PioInv, CopyInv, ShadowAgrees, step
<1> QED
  BY <1>1, PioHolds, PTL
=============================================================================
