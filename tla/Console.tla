------------------------------ MODULE Console ------------------------------
(***************************************************************************)
(* The console (console.c): consoleintr() for a character of the keyboard  *)
(* or the serial port, and consoleread().  The echo on the screen does not *)
(* touch the input.                                                        *)
(*                                                                         *)
(* What runs under cons.lock is one step, except that a reader that is     *)
(* about to sleep() keeps the lock and can be killed before it sleeps.     *)
(***************************************************************************)
EXTENDS Integers, SequencesExt, FiniteSetsExt

CONSTANTS
  ReadProcs,
  INPUT_BUF, UintWrap,   \* UintWrap: the uint indices count modulo this
  ReadSizes

ASSUME ConsoleAssumption ==
  /\ INPUT_BUF \in Nat \ {0}
  /\ UintWrap % INPUT_BUF = 0 /\ UintWrap > INPUT_BUF

VARIABLES
  inbuf, r, w, e,        \* input
  reader,                \* a process in consoleread(): place, n, target and bytes so far
  killedReaders

consoleVars == <<inbuf, r, w, e, reader, killedReaders>>

LineEnds == {"\n", "^D"}
Chars == {"a"} \cup LineEnds
Away == [at |-> "away", n |-> 0, target |-> 0, got |-> <<>>]
Minus(i, j) == (i - j) % UintWrap
Plus1(i) == (i + 1) % UintWrap

ConsoleInit ==
  /\ inbuf = [i \in 0..INPUT_BUF - 1 |-> "a"] /\ r = 0 /\ w = 0 /\ e = 0
  /\ reader = [p \in ReadProcs |-> Away] /\ killedReaders = {}

-----------------------------------------------------------------------------
\* Nobody holds cons.lock.
ConsFree == \A p \in ReadProcs : reader[p].at # "dozing"
WakeupReaders == reader' = [p \in ReadProcs |-> IF reader[p].at = "asleep" THEN [reader[p] EXCEPT !.at = "loop"]
                                                ELSE reader[p]]

\* Mutants: a character behind its place; no wakeup().
PlacedBehind(c) == [inbuf EXCEPT ![(e + 1) % INPUT_BUF] = c]
HandOverSilently == w' = e' /\ UNCHANGED reader

\* consoleintr() of a backspace.
Backspace ==
  /\ ConsFree /\ e # w
  /\ e' = Minus(e, 1)
  /\ UNCHANGED <<inbuf, r, w, reader, killedReaders>>

\* consoleintr() of ^U: back to w or behind a newline, a character at a time.
KillLine ==
  LET last[i \in 0..UintWrap - 1] ==
        IF i = w \/ inbuf[Minus(i, 1) % INPUT_BUF] = "\n" THEN i ELSE last[Minus(i, 1)]
  IN
  /\ ConsFree
  /\ e' = last[e]
  /\ UNCHANGED <<inbuf, r, w, reader, killedReaders>>

Placed(c) == [inbuf EXCEPT ![e % INPUT_BUF] = c]
Room == Minus(e, r) < INPUT_BUF
HandOver == w' = e' /\ WakeupReaders

\* consoleintr() of any other character.
Insertion(c) ==
  /\ ConsFree /\ Room
  /\ inbuf' = Placed(c)
  /\ e' = Plus1(e)
  /\ IF c \in LineEnds \/ e' = (r + INPUT_BUF) % UintWrap THEN HandOver ELSE UNCHANGED <<w, reader>>
  /\ UNCHANGED <<r, killedReaders>>

-----------------------------------------------------------------------------
consoleread(p, n) ==
  /\ reader[p].at = "away" /\ p \notin killedReaders
  /\ reader' = [reader EXCEPT ![p] = [at |-> "loop", n |-> n, target |-> n, got |-> <<>>]]
  /\ UNCHANGED <<inbuf, r, w, e, killedReaders>>

Waiting == [i \in 1..Minus(w, r) |-> inbuf[(r + i - 1) % INPUT_BUF]]
FirstOf(s, c) == CHOOSE i \in 1..Len(s) + 1 : (i <= Len(s) => s[i] = c) /\ \A j \in 1..i - 1 : s[j] # c

\* A mutant of Copied: it goes on behind a newline.
CopiedOn(s, n) == Min({n, Len(s), FirstOf(s, "^D") - 1})

\* How many of the bytes s the loop copies for a read of n.
Copied(s, n) == Min({n, Len(s), FirstOf(s, "\n"), FirstOf(s, "^D") - 1})

\* The loop of consoleread(), up to its return or until it is about to sleep;
\* a ^D behind other bytes is left for the next read.
ReadLoop(p) ==
  LET k == Copied(Waiting, reader[p].n)
      n == reader[p].n - k
      got == reader[p].got \o SubSeq(Waiting, 1, k)
      eof == n > 0 /\ k < Len(Waiting) /\ Waiting[k + 1] = "^D"
      used == IF eof /\ n = reader[p].target THEN k + 1 ELSE k
      done == n = 0 \/ eof \/ (got # <<>> /\ Last(got) = "\n")
  IN
  /\ reader[p].at = "loop" /\ ConsFree
  /\ r' = (r + used) % UintWrap
  /\ reader' = [reader EXCEPT ![p] =
       IF done \/ p \in killedReaders THEN Away
       ELSE [@ EXCEPT !.at = "dozing", !.n = n, !.got = got]]
  /\ UNCHANGED <<inbuf, w, e, killedReaders>>

\* sleep() takes ptable.lock and gives up cons.lock.
Doze(p) ==
  /\ reader[p].at = "dozing"
  /\ reader' = [reader EXCEPT ![p].at = "asleep"]
  /\ UNCHANGED <<inbuf, r, w, e, killedReaders>>

\* kill() of a process, see module Proc; it wakes the one that sleeps.
KillReader(p) ==
  /\ p \notin killedReaders /\ reader[p].at # "away"
  /\ killedReaders' = killedReaders \cup {p}
  /\ reader' = [reader EXCEPT ![p].at = IF @ = "asleep" THEN "loop" ELSE @]
  /\ UNCHANGED <<inbuf, r, w, e>>

ConsoleNext ==
  \/ Backspace \/ KillLine
  \/ \E c \in Chars : Insertion(c)
  \/ \E p \in ReadProcs :
       \/ \E n \in ReadSizes : consoleread(p, n)
       \/ ReadLoop(p) \/ Doze(p) \/ KillReader(p)

-----------------------------------------------------------------------------
(* Properties. *)
ConsoleTypeOK ==
  /\ r \in 0..UintWrap - 1 /\ inbuf \in [0..INPUT_BUF - 1 -> Chars]
  /\ \A p \in ReadProcs : Len(reader[p].got) <= reader[p].target
  /\ Minus(w, r) <= Minus(e, r) /\ Minus(e, r) <= INPUT_BUF

\* The ring of consoleintr() and consoleread(), with its three wrapping
\* indices, is the line input of LineInput: no character is overwritten, read
\* twice, or edited after it was handed over.
Ring == INSTANCE LineInput WITH
  Capacity <- INPUT_BUF, Ends <- LineEnds, Ordinary <- {"a"},
  queue <- Waiting,
  edited <- [i \in 1..Minus(e, w) |-> inbuf[(w + i - 1) % INPUT_BUF]]
InputInOrder == Ring!LISpec

\* A reader sleeps only while there is nothing to read: consoleintr() hands a
\* line over and wakes it under the lock that it gives up in sleep(), and
\* several readers woken for one line go back to sleep.
ReadersAwaited ==
  ConsoleTypeOK /\ ((\E p \in ReadProcs : reader[p].at \in {"asleep", "dozing"}) => r = w)

\* What consoleread() uses up in one call: at most one line without a ^D, or a
\* lone ^D, for which it returns 0.  "Save ^D for next time, to make sure caller
\* gets a 0-byte result" (console.c).
UsedUp(p) == reader[p].got \o SubSeq(Waiting, 1, Len(Waiting) - Len(Waiting'))
OneLinePerRead ==
  [][\A p \in ReadProcs : reader[p].at = "loop" /\ reader'[p].at = "away" =>
       \/ UsedUp(p) = <<"^D">>
       \/ /\ "^D" \notin ToSet(UsedUp(p))
          /\ "\n" \notin ToSet(SubSeq(UsedUp(p), 1, Len(UsedUp(p)) - 1))
          /\ p \in killedReaders \/ UsedUp(p) # <<>>]_consoleVars
=============================================================================
