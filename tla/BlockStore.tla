----------------------------- MODULE BlockStore -----------------------------
(***************************************************************************)
(* What disk.c promises the controllers: blocks that are read and written  *)
(* one call at a time.  A write is in force as soon as the card has taken  *)
(* the data, and stays in force unless the card fails later, perhaps       *)
(* before the call has returned; otherwise a call succeeds only while the  *)
(* card has not failed, and a card that has failed fails every call until  *)
(* it is reset.  Asking for a block that the card does not have is one way *)
(* to make it fail.                                                        *)
(***************************************************************************)
EXTENDS Integers

CONSTANTS
  Blocks, Data,
  Calls,   \* read and write of a block, of Blocks or not, with the data of a write
  NoCall, NoResult

VARIABLES
  content,  \* of the blocks, as reads will see it
  durable,  \* of the blocks, as far as the card has stored it
  broken,   \* the card has failed
  call,     \* the call in progress
  taken,    \* it is a write, and in force
  result    \* of a call that has ended: 0 or -1, and the block

storeVars == <<content, durable, broken, call, taken, result>>

Call(c) ==
  /\ call = NoCall /\ result = NoResult /\ call' = c
  /\ UNCHANGED <<content, durable, broken, taken, result>>

\* The write takes effect.
Take ==
  /\ call # NoCall /\ call.op = "write" /\ ~broken /\ ~taken /\ taken' = TRUE
  /\ call.block \in Blocks
  /\ content' = [content EXCEPT ![call.block] = call.data]
  /\ UNCHANGED <<durable, broken, call, result>>

Settle == durable' = content /\ UNCHANGED <<content, broken, call, taken, result>>

\* The card fails, or the operator resets it; what was not stored may be lost.
Resolve(b) ==
  /\ broken' = b /\ content' \in {content, durable} /\ durable' = content'
  /\ taken' \in {taken, FALSE} /\ UNCHANGED <<call, result>>
Break == Resolve(TRUE)
Repair == call = NoCall /\ Resolve(FALSE)

Succeed ==
  /\ call # NoCall /\ call' = NoCall /\ taken' = FALSE
  /\ IF call.op = "write" THEN taken /\ result' = [rc |-> 0, data |-> call.data]
                          ELSE /\ ~broken /\ call.block \in Blocks
                               /\ result' = [rc |-> 0, data |-> content[call.block]]
  /\ UNCHANGED <<content, durable, broken>>

Report ==
  /\ call # NoCall /\ broken /\ call' = NoCall /\ taken' = FALSE
  /\ \E d \in Data : result' = [rc |-> -1, data |-> d]
  /\ UNCHANGED <<content, durable, broken>>

\* The controller has seen the result, or does not look at it.
Collect == result' = NoResult /\ UNCHANGED <<content, durable, broken, call, taken>>

Init ==
  /\ content \in [Blocks -> Data] /\ durable = content /\ broken \in BOOLEAN
  /\ call = NoCall /\ taken = FALSE /\ result = NoResult
Next ==
  \/ \E c \in Calls : Call(c)
  \/ Take \/ Settle \/ Break \/ Repair \/ Succeed \/ Report \/ Collect
Spec == Init /\ [][Next]_storeVars
=============================================================================
