----------------------------- MODULE LineInput -----------------------------
(***************************************************************************)
(* What the console's input (console.c) promises: a line is edited until a *)
(* newline, an end of file or a full buffer hands it over, and what is     *)
(* handed over is read once and in order.                                  *)
(***************************************************************************)
EXTENDS Integers, SequencesExt

CONSTANTS Capacity, Ends, Ordinary      \* Ends: the characters that end a line

VARIABLES queue, edited                 \* handed over; still to be edited

lineInputVars == <<queue, edited>>

LIInit == queue = <<>> /\ edited = <<>>

Insert(c) ==
  LET new == Append(edited, c) IN
  /\ Len(queue) + Len(edited) < Capacity
  /\ IF c \in Ends \/ Len(queue) + Len(new) = Capacity
     THEN queue' = queue \o new /\ edited' = <<>>
     ELSE edited' = new /\ UNCHANGED queue

Erase == edited # <<>> /\ edited' = Front(edited) /\ UNCHANGED queue
EraseLine == edited' = <<>> /\ UNCHANGED queue
Take == /\ \E k \in 1..Len(queue) : queue' = SubSeq(queue, k + 1, Len(queue))
        /\ UNCHANGED edited

LINext == (\E c \in Ends \cup Ordinary : Insert(c)) \/ Erase \/ EraseLine \/ Take
LISpec == LIInit /\ [][LINext]_lineInputVars
=============================================================================
