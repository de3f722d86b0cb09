------------------------------ MODULE CommandLog ------------------------------
(***************************************************************************)
(* What a shell's command line promises, with no buffers and no indices: a *)
(* line that is edited, the last commands entered, and how far back in     *)
(* them the reader has gone.  Shell implements this specification          *)
(* (Shell!RefinesCommandLog).                                              *)
(***************************************************************************)
EXTENDS Integers, Sequences

CONSTANTS
  Size,    \* how many commands are kept
  Chars    \* the characters of a line

VARIABLES
  log,     \* the last commands, oldest first
  back,    \* how many commands the reader has gone back, 0 for none
  line     \* the line being edited

vars == <<log, back, line>>

\* The command k places back from the newest.
Command(k) == log[Len(log) + 1 - k]

Keep(s) == IF Len(s) <= Size THEN s ELSE Tail(s)

Init == log = <<>> /\ back = 0 /\ line = <<>>

Insert(c) == line' = Append(line, c) /\ UNCHANGED <<log, back>>

Erase ==
  /\ line # <<>>
  /\ line' = SubSeq(line, 1, Len(line) - 1)
  /\ UNCHANGED <<log, back>>

\* The oldest command is shown again when there is none older.
Older ==
  /\ log # <<>>
  /\ back' = IF back < Len(log) THEN back + 1 ELSE back
  /\ line' = Command(back')
  /\ UNCHANGED log

Newer ==
  /\ back > 0
  /\ back' = back - 1
  /\ line' = IF back' = 0 THEN <<>> ELSE Command(back')
  /\ UNCHANGED log

Enter ==
  /\ line # <<>>
  /\ log' = Keep(Append(log, line))
  /\ back' = 0 /\ line' = <<>>

Next == Erase \/ Older \/ Newer \/ Enter \/ \E c \in Chars : Insert(c)

Spec == Init /\ [][Next]_vars
===============================================================================
