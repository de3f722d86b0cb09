---------------------------------- MODULE Tty ----------------------------------
(***************************************************************************)
(* The text console, drivers/tty.c: the cursor and the characters in video *)
(* memory.  The colours are left out; a cell that shows nothing holds the  *)
(* blank.                                                                  *)
(***************************************************************************)
EXTENDS Integers, Sequences

CONSTANTS
  VGA_WIDTH, VGA_HEIGHT,  \* 80 and 25
  TabStop,                \* 4
  Margin,                 \* 2: the columns a backspace leaves alone
  Chars                   \* the characters that are shown as they are

Blank == " "
Newline == "newline"
Tab == "tab"
Backspace == "backspace"
Printable == Chars \cup {Blank}
Controls == {Newline, Tab, Backspace}

ASSUME TtyAssumption ==
  /\ VGA_WIDTH \in Nat /\ VGA_HEIGHT \in Nat \ {0}
  /\ TabStop \in Nat \ {0}
  /\ Margin \in Nat /\ Margin < VGA_WIDTH
  /\ Printable \cap Controls = {}

VARIABLE tty   \* cursor_x, cursor_y and video_memory

Rows == 0 .. VGA_HEIGHT - 1
Columns == 0 .. VGA_WIDTH - 1
BlankRow == [c \in Columns |-> Blank]

clear_screen == [x |-> 0, y |-> 0, video |-> [r \in Rows |-> BlankRow]]

\* The screen s with c in the cell at row y and column x.
SetCell(s, y, x, c) == [s EXCEPT !.video = [@ EXCEPT ![y][x] = c]]

Erased(s) ==
  IF s.x > Margin THEN [SetCell(s, s.y, s.x - 1, Blank) EXCEPT !.x = @ - 1] ELSE s

\* The cursor at the start of the next row.
NextRow(s) == [x |-> 0, y |-> s.y + 1, video |-> s.video]

\* What kprint_char does for each kind of character before it looks at the edges.
Written(s, c) ==
  CASE c = Newline   -> NextRow(s)
    [] c = Tab       -> [s EXCEPT !.x = ((@ + TabStop) \div TabStop) * TabStop]
    [] c = Backspace -> Erased(s)
    [] OTHER         -> [SetCell(s, s.y, s.x, c) EXCEPT !.x = @ + 1]

\* Fault: the cursor is moved down one column late.
WrappedLate(s) == IF s.x > VGA_WIDTH THEN NextRow(s) ELSE s

Wrapped(s) == IF s.x >= VGA_WIDTH THEN NextRow(s) ELSE s

\* Fault: the last row is not cleared.
scroll_stale(s) ==
  [x |-> s.x, y |-> VGA_HEIGHT - 1,
   video |-> [r \in Rows |-> IF r < VGA_HEIGHT - 1 THEN s.video[r + 1] ELSE s.video[r]]]

scroll(s) ==
  [x |-> s.x, y |-> VGA_HEIGHT - 1,
   video |-> [r \in Rows |-> IF r < VGA_HEIGHT - 1 THEN s.video[r + 1] ELSE BlankRow]]

kprint_char(s, c) ==
  LET moved == Wrapped(Written(s, c))
  IN  IF moved.y >= VGA_HEIGHT THEN scroll(moved) ELSE moved

-----------------------------------------------------------------------------
(* Properties.                                                             *)

Screens == [x : Columns, y : Rows, video : [Rows -> [Columns -> Printable]]]

TtyTypeOK == tty \in Screens

\* Nothing stands where the next characters go: every cell of s from the cursor
\* on is blank (tty.c:27-72).
BlankFrom(s) ==
  \A r \in Rows, c \in Columns :
    r > s.y \/ (r = s.y /\ c >= s.x) => s.video[r][c] = Blank

\* The invariant that makes the lines of the page what was printed.
TtyInv == TtyTypeOK /\ BlankFrom(tty)

\* A row's cells, the rows above the cursor's, and the cursor's up to it.
RowOf(s, y) == [j \in 1 .. VGA_WIDTH |-> s.video[y][j - 1]]
LinesOf(s) == [i \in 1 .. s.y |-> RowOf(s, i - 1)]
LineOf(s) == [j \in 1 .. s.x |-> s.video[s.y][j - 1]]

\* The screen shows the last lines printed, in order and none twice, and the
\* line being printed ends at the cursor.
P == INSTANCE Page WITH
       Width <- VGA_WIDTH, Height <- VGA_HEIGHT,
       lines <- LinesOf(tty), line <- LineOf(tty)

RefinesPage == P!Spec
=============================================================================
