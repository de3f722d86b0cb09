------------------------------ MODULE Scrollback ------------------------------
(***************************************************************************)
(* What a terminal shows, with no rows, no cursor and no limits of columns:*)
(* the line being typed, and the last Rows lines written since the screen  *)
(* was last cleared, oldest first.  Every command is echoed whole.         *)
(* Terminal implements this specification (Terminal!RefinesScrollback).    *)
(***************************************************************************)
EXTENDS Integers, Sequences

CONSTANTS
  Rows,     \* how many lines there is room for
  Chars,    \* the characters that can be typed
  Banner,   \* the lines shown at first
  Replies   \* the lines a command may be answered with

VARIABLES
  lines,    \* the lines shown
  typed     \* the line being typed

vars == <<lines, typed>>

Echo(s) == <<"echo", s>>

\* The last Rows lines of s.
Keep(s) == IF Len(s) <= Rows THEN s ELSE SubSeq(s, Len(s) - Rows + 1, Len(s))

Write(s, l) == Keep(Append(s, l))

Init == lines = Banner /\ typed = <<>>

Type(c) == typed' = Append(typed, c) /\ UNCHANGED lines

Erase ==
  /\ typed # <<>>
  /\ typed' = SubSeq(typed, 1, Len(typed) - 1)
  /\ UNCHANGED lines

\* Only an empty line is left unanswered.
Enter ==
  LET echoed == Write(lines, Echo(typed))
  IN  /\ \/ typed = <<>> /\ lines' = echoed
         \/ typed # <<>> /\ \E r \in Replies : lines' = Write(echoed, r)
         \/ typed # <<>> /\ lines' = <<>>
      /\ typed' = <<>>

Next == Erase \/ Enter \/ \E c \in Chars : Type(c)

Spec == Init /\ [][Next]_vars
===============================================================================
