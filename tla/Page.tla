--------------------------------- MODULE Page ---------------------------------
(***************************************************************************)
(* What a text console shows, with no memory and no cursor: a line being   *)
(* printed, and above it the lines finished before, as many as there is    *)
(* room for.  Tty implements this specification (Tty!RefinesPage).         *)
(***************************************************************************)
EXTENDS Integers, Sequences

CONSTANTS
  Width, Height,   \* how many characters and lines there is room for
  TabStop,         \* the columns a tab stops at are its multiples
  Margin,          \* how much of a line cannot be erased
  Printable, Blank \* the characters, and the one that shows nothing

VARIABLES
  lines,   \* the finished lines that are shown, each filled up with blanks
  line     \* the line being printed

vars == <<lines, line>>

Filled(l) == [i \in 1 .. Width |-> IF i <= Len(l) THEN l[i] ELSE Blank]

\* The last lines, as many as fit above the line being printed.
Keep(s) ==
  IF Len(s) < Height THEN s ELSE SubSeq(s, Len(s) - Height + 2, Len(s))

\* The line being printed is l now; one that fills the width is finished.
Continue(l) ==
  IF Len(l) < Width
  THEN line' = l /\ lines' = lines
  ELSE line' = <<>> /\ lines' = Keep(Append(lines, Filled(l)))

Init == lines = <<>> /\ line = <<>>

Put(c) == Continue(Append(line, c))

NextLine == line' = <<>> /\ lines' = Keep(Append(lines, Filled(line)))

Gap(n) == [i \in 1 .. n |-> IF i <= Len(line) THEN line[i] ELSE Blank]

Skip == Continue(Gap(((Len(line) + TabStop) \div TabStop) * TabStop))

Erase ==
  /\ Len(line) > Margin
  /\ line' = SubSeq(line, 1, Len(line) - 1)
  /\ UNCHANGED lines

Clear == lines' = <<>> /\ line' = <<>>

Next == NextLine \/ Skip \/ Erase \/ Clear \/ \E c \in Printable : Put(c)

Spec == Init /\ [][Next]_vars
===============================================================================
