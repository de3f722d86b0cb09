------------------------------- MODULE Terminal -------------------------------
(***************************************************************************)
(* The terminal in the window, drivers/terminal.c: an input line edited    *)
(* key by key and a screen of TERM_ROWS rows that scrolls.  A text on the  *)
(* screen is a value that names it; only the keys of the input line are    *)
(* kept apart, for a command is told by comparing them.                    *)
(***************************************************************************)
EXTENDS Integers, Sequences

CONSTANTS
  TERM_ROWS, TERM_COLS,      \* 10 and 42
  MAX_INPUT_LEN,             \* 40, one of which is for the '\0'
  Chars,                     \* the printable characters
  Help, Clear, Ver, About    \* the commands, as sequences of characters

\* terminal.h gives a row room for the prompt, a full input line and the '\0'.
ASSUME TerminalAssumption ==
  /\ TERM_ROWS \in Nat /\ TERM_ROWS >= 2
  /\ MAX_INPUT_LEN \in Nat \ {0}
  /\ TERM_COLS \in Nat /\ MAX_INPUT_LEN - 1 <= TERM_COLS - 3
  /\ {Help, Clear, Ver, About} \subseteq Seq(Chars) \ {<<>>}

VARIABLES
  buffer,      \* row -> the text on it
  cursor_row,  \* the row the next line goes to
  input        \* input_buf up to input_len

vars == <<buffer, cursor_row, input>>

RowSet == 0 .. TERM_ROWS - 1
NoText == <<"blank">>
Blank == [r \in RowSet |-> NoText]
Reply(name) == <<"reply", name>>
Banner == <<Reply("title"), Reply("hint")>>

\* Fault: the prompt and the '\0' leave one character less.
EchoShort(s) ==
  <<"echo", IF Len(s) < MAX_INPUT_LEN - 1 THEN s ELSE SubSeq(s, 1, Len(s) - 1)>>

\* "> " and what was typed, as far as the row has room for it.
Echo(s) ==
  <<"echo", IF Len(s) <= TERM_COLS - 3 THEN s ELSE SubSeq(s, 1, TERM_COLS - 3)>>

\* A screen is its rows and its cursor.
Screen(rows, cursor) == [rows |-> rows, cursor |-> cursor]

\* Fault: the last but one row is not shifted.
ShiftedShort(rows) ==
  [r \in RowSet |-> IF r < TERM_ROWS - 2 THEN rows[r + 1] ELSE rows[r]]

\* Every row but the last takes the text of the row below.
Shifted(rows) ==
  [r \in RowSet |-> IF r < TERM_ROWS - 1 THEN rows[r + 1] ELSE rows[r]]

terminal_write_line(s, text) ==
  IF s.cursor >= TERM_ROWS
  THEN Screen([Shifted(s.rows) EXCEPT ![TERM_ROWS - 1] = text], TERM_ROWS)
  ELSE Screen([s.rows EXCEPT ![s.cursor] = text], s.cursor + 1)

StartScreen ==
  terminal_write_line(terminal_write_line(Screen(Blank, 0), Banner[1]), Banner[2])

Init ==  \* terminal_init
  /\ buffer = StartScreen.rows /\ cursor_row = StartScreen.cursor
  /\ input = <<>>

-----------------------------------------------------------------------------
(* terminal_handle_key, one action per kind of key.                        *)

\* Fault: the '\0' is not counted.
TypeFull(c) ==
  /\ Len(input) < MAX_INPUT_LEN
  /\ input' = Append(input, c)
  /\ UNCHANGED <<buffer, cursor_row>>

Type(c) ==
  /\ Len(input) < MAX_INPUT_LEN - 1
  /\ input' = Append(input, c)
  /\ UNCHANGED <<buffer, cursor_row>>

Backspace ==
  /\ Len(input) > 0
  /\ input' = SubSeq(input, 1, Len(input) - 1)
  /\ UNCHANGED <<buffer, cursor_row>>

\* Fault: clear moves the cursor up and leaves the rows.
HomeOnly(s) == Screen(s.rows, 0)

\* The screen s after the command clear.
Home(s) == Screen(Blank, 0)

\* The screen s after terminal_execute_command.
Executed(s) ==
  LET echoed == terminal_write_line(s, Echo(input))
      Answered(name) == terminal_write_line(echoed, Reply(name))
  IN  IF input = Help THEN Answered("help")
      ELSE IF input = Clear THEN Home(echoed)
      ELSE IF input = Ver THEN Answered("ver")
      ELSE IF input = About THEN Answered("about")
      ELSE IF Len(input) > 0 THEN Answered("unknown")
      ELSE echoed

Enter ==
  LET after == Executed(Screen(buffer, cursor_row))
  IN  /\ buffer' = after.rows /\ cursor_row' = after.cursor
      /\ input' = <<>>

Next == Enter \/ Backspace \/ \E c \in Chars : Type(c)

Spec == Init /\ [][Next]_vars

-----------------------------------------------------------------------------
(* Properties.                                                             *)

TypeOK ==
  /\ buffer = [r \in RowSet |-> buffer[r]]
  /\ cursor_row \in 0 .. TERM_ROWS
  /\ input \in Seq(Chars) /\ Len(input) <= MAX_INPUT_LEN - 1

\* The rows from the cursor's on are blank, so the prompt terminal_draw puts on
\* that row never lies over a text (terminal.c:25-37, 76-82 and 134).
BlankBelow == \A r \in RowSet : r >= cursor_row <=> buffer[r] = NoText

\* The rows above the cursor are the last lines written since the last clear,
\* in order, none lost or doubled by the scrolling, and every command is echoed
\* whole and answered.
S == INSTANCE Scrollback WITH
       Rows <- TERM_ROWS,
       Replies <- {Reply(n) : n \in {"help", "ver", "about", "unknown"}},
       lines <- [i \in 1 .. cursor_row |-> buffer[i - 1]],
       typed <- input

RefinesScrollback == S!Spec
=============================================================================
