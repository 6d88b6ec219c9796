---------------------------- MODULE RemoteMemory ----------------------------
(***************************************************************************)
(* What the boot loader promises the tool on the PC: a cell of the board's *)
(* memory, written and read over a line.  Writes are posted; commands are  *)
(* performed once each and in the order they were given.  When the line    *)
(* goes down the commands under way are lost, and none of them is          *)
(* performed after it is up again.                                         *)
(***************************************************************************)
EXTENDS Sequences

CONSTANTS Values, Commands, NoAnswer

VARIABLES
  ram,     \* the cell
  up,      \* the line
  queue,   \* commands given and not yet performed
  answer   \* to the read performed last, until the tool takes it

memoryVars == <<ram, up, queue, answer>>

Give(c) == up /\ queue' = Append(queue, c) /\ UNCHANGED <<ram, up, answer>>

Perform ==
  /\ up /\ queue # <<>> /\ queue' = Tail(queue) /\ up' = up
  /\ IF Head(queue).op = "w" THEN ram' = ram /\ answer = NoAnswer /\ answer' = ram
                             ELSE ram' = Head(queue).val /\ answer' = answer

Take == up /\ answer' = NoAnswer /\ UNCHANGED <<ram, up, queue>>

\* The line goes down, with or without the power of the board.
Fail ==
  /\ up' = FALSE /\ ram' \in Values /\ queue' \in {queue, <<>>}
  /\ answer' \in {answer, NoAnswer}

Forget ==
  /\ ~up /\ queue' \in {queue, <<>>} /\ answer' \in {answer, NoAnswer} /\ UNCHANGED <<ram, up>>

Restore == up' = TRUE /\ queue = <<>> /\ answer = NoAnswer /\ UNCHANGED <<ram, queue, answer>>

Init == ram \in Values /\ up = FALSE /\ queue = <<>> /\ answer = NoAnswer
Next == (\E c \in Commands : Give(c)) \/ Perform \/ Take \/ Fail \/ Forget \/ Restore
Spec == Init /\ [][Next]_memoryVars
=============================================================================
