----------------------------- MODULE ShellProofs -----------------------------
(***************************************************************************)
(* Proofs about Tty and Shell for every size of screen and of history.     *)
(***************************************************************************)
EXTENDS Shell, SequenceTheorems, WellFoundedInduction, TLAPS

\* Sequences with an element more.
LEMMA AppendIs ==
  ASSUME NEW S, NEW q \in Seq(S), NEW e \in S
  PROVE  Append(q, e) = [j \in 1 .. Len(q) + 1 |-> IF j <= Len(q) THEN q[j] ELSE e]
  <1> DEFINE r == [j \in 1 .. Len(q) + 1 |-> IF j <= Len(q) THEN q[j] ELSE e]
  <1>1. Len(q) \in Nat /\ \A j \in 1 .. Len(q) : q[j] \in S
    OBVIOUS
  <1>2. r \in Seq(S) /\ Len(r) = Len(q) + 1
    BY <1>1
  <1>3. \A j \in 1 .. Len(q) + 1 : Append(q, e)[j] = r[j]
    <2> SUFFICES ASSUME NEW j \in 1 .. Len(q) + 1 PROVE Append(q, e)[j] = r[j]
      OBVIOUS
    <2>1. CASE j \in 1 .. Len(q)
      BY <1>1, <2>1, AppendProperties
    <2>2. CASE j = Len(q) + 1
      BY <1>1, <2>2, AppendProperties
    <2>3. QED
      BY <1>1, <2>1, <2>2
  <1>4. Append(q, e) \in Seq(S) /\ Len(Append(q, e)) = Len(q) + 1
    OBVIOUS
  <1> HIDE DEF r
  <1>5. Append(q, e) = r
    BY <1>2, <1>3, <1>4, SeqEqual
  <1>6. QED
    BY <1>5 DEF r

-----------------------------------------------------------------------------
(* The console: what a character does to the screen, and to the page of    *)
(* lines the screen shows.                                                 *)

\* A screen in the middle of kprint_char, whose cursor may be at or behind the
\* end of its row.
Moving == [x : Nat, y : Rows, video : [Rows -> [Columns -> Printable]]]

\* Screen v's cursor goes to the next row, as kprint_char does it.
Down(v) ==
  IF NextRow(v).y >= VGA_HEIGHT THEN scroll(NextRow(v)) ELSE NextRow(v)

\* The rows below the cursor's are blank.
BlankBelow(v) == \A r \in Rows, c \in Columns : r > v.y => v.video[r][c] = Blank

LEMMA ScreenFacts ==
  ASSUME NEW v \in Moving
  PROVE  /\ v.x \in Nat /\ v.y \in Rows /\ v.y \in Nat /\ v.y < VGA_HEIGHT
         /\ v.video \in [Rows -> [Columns -> Printable]]
         /\ \A r \in Rows, c \in Columns : v.video[r][c] \in Printable
         /\ v = [x |-> v.x, y |-> v.y, video |-> v.video]
  BY TtyAssumption DEF Moving, Rows

LEMMA ScreensMove == Screens \subseteq Moving
  BY TtyAssumption DEF Screens, Moving, Columns

\* The screen after a step to the next row.
LEMMA DownScreen ==
  ASSUME NEW v \in Moving, BlankBelow(v)
  PROVE  /\ Down(v) \in Screens /\ BlankFrom(Down(v))
         /\ Down(v).x = 0
         /\ v.y + 1 < VGA_HEIGHT =>
              Down(v).y = v.y + 1 /\ Down(v).video = v.video
         /\ v.y + 1 >= VGA_HEIGHT =>
              /\ Down(v).y = VGA_HEIGHT - 1 /\ v.y = VGA_HEIGHT - 1
              /\ \A r \in Rows : r < VGA_HEIGHT - 1 => Down(v).video[r] = v.video[r + 1]
  <1>1. /\ v.x \in Nat /\ v.y \in Rows /\ v.y \in Nat /\ v.y < VGA_HEIGHT
        /\ v.video \in [Rows -> [Columns -> Printable]]
        /\ v = [x |-> v.x, y |-> v.y, video |-> v.video]
    BY ScreenFacts
  <1>2. VGA_HEIGHT \in Nat \ {0} /\ VGA_WIDTH \in Nat \ {0} /\ 0 \in Columns
    BY TtyAssumption DEF Columns
  <1>3. CASE v.y + 1 < VGA_HEIGHT
    <2>1. Down(v) = [x |-> 0, y |-> v.y + 1, video |-> v.video]
      BY <1>1, <1>2, <1>3 DEF Down, NextRow
    <2>2. Down(v) \in Screens
      BY <1>1, <1>2, <1>3, <2>1 DEF Screens, Rows
    <2>3. BlankFrom(Down(v))
      BY <1>1, <2>1 DEF BlankFrom, BlankBelow, Rows
    <2>4. QED
      BY <1>1, <1>2, <1>3, <2>1, <2>2, <2>3
  <1>4. CASE v.y + 1 >= VGA_HEIGHT
    <2> DEFINE up == [r \in Rows |-> IF r < VGA_HEIGHT - 1 THEN v.video[r + 1] ELSE BlankRow]
    <2>1. Down(v) = [x |-> 0, y |-> VGA_HEIGHT - 1, video |-> up]
      BY <1>1, <1>2, <1>4 DEF Down, NextRow, scroll
    <2>2. BlankRow \in [Columns -> Printable]
      BY DEF BlankRow, Printable
    <2>3. \A r \in Rows : r < VGA_HEIGHT - 1 => r + 1 \in Rows
      BY <1>2 DEF Rows
    <2>4. up \in [Rows -> [Columns -> Printable]]
      BY <1>1, <2>2, <2>3
    <2>5. VGA_HEIGHT - 1 \in Rows
      BY <1>2 DEF Rows
    <2>6. Down(v) \in Screens
      BY <1>2, <2>1, <2>4, <2>5 DEF Screens
    <2>7. BlankFrom(Down(v))
      <3> SUFFICES ASSUME NEW r \in Rows, NEW c \in Columns, r >= VGA_HEIGHT - 1
                   PROVE  up[r][c] = Blank
        BY <1>2, <2>1 DEF BlankFrom, Rows
      <3>1. up[r] = BlankRow
        BY <1>2 DEF Rows
      <3>2. QED
        BY <3>1 DEF BlankRow
    <2>8. v.y = VGA_HEIGHT - 1
      BY <1>1, <1>2, <1>4
    <2>9. QED
      BY <1>1, <1>2, <1>4, <2>1, <2>6, <2>7, <2>8
  <1>5. QED
    BY <1>1, <1>2, <1>3, <1>4


\* The page of a screen that goes to the next row: one finished line more.
LEMMA DownPage ==
  ASSUME NEW v \in Moving, BlankBelow(v)
  PROVE  /\ LinesOf(Down(v)) = P!Keep(Append(LinesOf(v), RowOf(v, v.y)))
         /\ LineOf(Down(v)) = <<>>
  <1> DEFINE t == Down(v)
             row == RowOf(v, v.y)
             longer == Append(LinesOf(v), row)
  <1>1. v.y \in Nat /\ v.y < VGA_HEIGHT /\ VGA_HEIGHT \in Nat
    BY ScreenFacts, TtyAssumption
  <1>2. /\ t.x = 0
        /\ v.y + 1 < VGA_HEIGHT => t.y = v.y + 1 /\ t.video = v.video
        /\ v.y + 1 >= VGA_HEIGHT =>
             /\ t.y = VGA_HEIGHT - 1 /\ v.y = VGA_HEIGHT - 1
             /\ \A r \in Rows : r < VGA_HEIGHT - 1 => t.video[r] = v.video[r + 1]
    BY DownScreen
  <1> HIDE DEF t
  <1>3. LineOf(t) = <<>>
    BY <1>2 DEF LineOf
  <1>4. LinesOf(v) \in Seq({RowOf(v, r) : r \in Int}) /\ Len(LinesOf(v)) = v.y
    BY <1>1 DEF LinesOf
  <1>5. longer = [i \in 1 .. v.y + 1 |-> RowOf(v, i - 1)]
    <2>1. Append(LinesOf(v), row) = [i \in 1 .. Len(LinesOf(v)) + 1 |->
                                       IF i <= Len(LinesOf(v)) THEN LinesOf(v)[i] ELSE row]
      BY <1>4
    <2>2. \A i \in 1 .. v.y : LinesOf(v)[i] = RowOf(v, i - 1)
      BY DEF LinesOf
    <2>3. \A i \in 1 .. v.y + 1 :
            (IF i <= v.y THEN LinesOf(v)[i] ELSE row) = RowOf(v, i - 1)
      <3> SUFFICES ASSUME NEW i \in 1 .. v.y + 1
                   PROVE  (IF i <= v.y THEN LinesOf(v)[i] ELSE row) = RowOf(v, i - 1)
        OBVIOUS
      <3>1. CASE i <= v.y
        BY <1>1, <2>2, <3>1
      <3>2. CASE i = v.y + 1
        BY <1>1, <3>2
      <3>3. QED
        BY <1>1, <3>1, <3>2
    <2> HIDE DEF row
    <2>4. QED
      BY <1>1, <1>4, <2>1, <2>3
  <1> HIDE DEF longer
  <1>6. CASE v.y + 1 < VGA_HEIGHT
    <2>1. LinesOf(t) = longer
      BY <1>2, <1>5, <1>6 DEF LinesOf, RowOf
    <2>2. Len(longer) = v.y + 1
      BY <1>1, <1>5
    <2>3. QED
      BY <1>3, <1>6, <2>1, <2>2 DEF P!Keep, longer, row, t
  <1>7. CASE v.y + 1 >= VGA_HEIGHT
    <2>1. v.y = VGA_HEIGHT - 1 /\ t.y = v.y
      BY <1>2, <1>7
    <2>2. longer \in Seq({RowOf(v, r) : r \in Int}) /\ Len(longer) = VGA_HEIGHT
      BY <1>1, <1>5, <2>1
    <2>3. P!Keep(longer) = SubSeq(longer, 2, VGA_HEIGHT)
      BY <1>1, <2>2 DEF P!Keep
    <2>4. SubSeq(longer, 2, VGA_HEIGHT) = [i \in 1 .. VGA_HEIGHT - 1 |-> longer[i + 1]]
      BY <1>1, <2>2
    <2>5. \A i \in 1 .. v.y : longer[i + 1] = RowOf(t, i - 1)
      <3> SUFFICES ASSUME NEW i \in 1 .. v.y PROVE longer[i + 1] = RowOf(t, i - 1)
        OBVIOUS
      <3>1. longer[i + 1] = RowOf(v, i)
        BY <1>1, <1>5
      <3>2. i - 1 \in Rows /\ i - 1 < VGA_HEIGHT - 1
        BY <1>1, <2>1 DEF Rows
      <3>3. t.video[i - 1] = v.video[i]
        BY <1>2, <1>7, <3>2
      <3>4. QED
        BY <3>1, <3>3 DEF RowOf
    <2>6. LinesOf(t) = [i \in 1 .. v.y |-> RowOf(t, i - 1)]
      BY <2>1 DEF LinesOf
    <2>7. LinesOf(t) = P!Keep(longer)
      BY <1>1, <2>1, <2>3, <2>4, <2>5, <2>6
    <2>8. QED
      BY <1>3, <2>7 DEF longer, row, t
  <1>8. QED
    BY <1>1, <1>6, <1>7
\* The line being printed on a screen in the middle of kprint_char.
MovingLine(w) == [j \in 1 .. w.x |-> IF j <= VGA_WIDTH THEN w.video[w.y][j - 1] ELSE Blank]

\* What kprint_char does last: the edges.
Settled(w) ==
  IF Wrapped(w).y >= VGA_HEIGHT THEN scroll(Wrapped(w)) ELSE Wrapped(w)

\* After it the page goes on with that line.
LEMMA SettledPage ==
  ASSUME NEW w \in Moving, BlankFrom(w)
  PROVE  /\ Settled(w) \in Screens /\ BlankFrom(Settled(w))
         /\ w.x < VGA_WIDTH =>
              LineOf(Settled(w)) = MovingLine(w) /\ LinesOf(Settled(w)) = LinesOf(w)
         /\ w.x >= VGA_WIDTH =>
              /\ LineOf(Settled(w)) = <<>>
              /\ LinesOf(Settled(w)) = P!Keep(Append(LinesOf(w), P!Filled(MovingLine(w))))
  <1>1. /\ w.x \in Nat /\ w.y \in Rows /\ w.y \in Nat /\ w.y < VGA_HEIGHT
        /\ VGA_WIDTH \in Nat /\ VGA_HEIGHT \in Nat
    BY ScreenFacts, TtyAssumption
  <1>2. CASE w.x < VGA_WIDTH
    <2>1. Settled(w) = w
      BY <1>1, <1>2 DEF Settled, Wrapped
    <2>2. w \in Screens
      BY <1>1, <1>2 DEF Moving, Screens, Columns
    <2>3. LineOf(w) = MovingLine(w)
      BY <1>1, <1>2 DEF LineOf, MovingLine
    <2>4. QED
      BY <1>1, <1>2, <2>1, <2>2, <2>3
  <1>3. CASE w.x >= VGA_WIDTH
    <2>1. Settled(w) = Down(w)
      BY <1>1, <1>3 DEF Settled, Wrapped, Down
    <2>2. BlankBelow(w)
      BY DEF BlankFrom, BlankBelow
    <2>3. P!Filled(MovingLine(w)) = RowOf(w, w.y)
      <3>1. /\ Len(MovingLine(w)) = w.x
            /\ \A j \in 1 .. VGA_WIDTH : MovingLine(w)[j] = w.video[w.y][j - 1]
        <4>1. Len(MovingLine(w)) = w.x
          BY <1>1 DEF MovingLine
        <4>2. \A j \in 1 .. w.x : j <= VGA_WIDTH => MovingLine(w)[j] = w.video[w.y][j - 1]
          BY DEF MovingLine
        <4>3. \A j \in 1 .. VGA_WIDTH : j \in 1 .. w.x /\ j <= VGA_WIDTH
          BY <1>1, <1>3
        <4>4. QED
          BY <4>1, <4>2, <4>3
      <3>2. QED
        BY <1>1, <1>3, <3>1 DEF P!Filled, RowOf
    <2>4. QED
      BY <1>1, <1>3, <2>1, <2>2, <2>3, DownScreen, DownPage
  <1>4. QED
    BY <1>1, <1>2, <1>3

\* A line is as long as the cursor's column says.
LEMMA LineFacts ==
  ASSUME NEW s \in Screens
  PROVE  /\ s.x \in Nat /\ s.x < VGA_WIDTH /\ s.y \in Rows
         /\ LineOf(s) \in Seq(Printable) /\ Len(LineOf(s)) = s.x
         /\ \A j \in 1 .. s.x : LineOf(s)[j] = s.video[s.y][j - 1]
  <1>1. s.x \in Nat /\ s.x < VGA_WIDTH /\ s.y \in Rows
    BY TtyAssumption DEF Screens, Columns
  <1>2. \A j \in 1 .. s.x : s.video[s.y][j - 1] \in Printable
    <2> SUFFICES ASSUME NEW j \in 1 .. s.x PROVE s.video[s.y][j - 1] \in Printable
      OBVIOUS
    <2>1. j - 1 \in Columns
      BY <1>1, TtyAssumption DEF Columns
    <2>2. s.video \in [Rows -> [Columns -> Printable]]
      BY DEF Screens
    <2>3. QED
      BY <1>1, <2>1, <2>2
  <1>3. QED
    BY <1>1, <1>2 DEF LineOf

\* Screen s with c in column col of the cursor's row, and the cursor in column n.
CellSet(s, c, col, n) == [SetCell(s, s.y, col, c) EXCEPT !.x = n]

LEMMA SetCellFacts ==
  ASSUME NEW s \in Screens, NEW c \in Printable, NEW col \in Columns,
         NEW n \in Nat
  PROVE  /\ CellSet(s, c, col, n) \in Moving
         /\ CellSet(s, c, col, n).x = n /\ CellSet(s, c, col, n).y = s.y
         /\ CellSet(s, c, col, n).video[s.y][col] = c
         /\ \A r \in Rows, k \in Columns :
              r # s.y \/ k # col => CellSet(s, c, col, n).video[r][k] = s.video[r][k]
  <1>1. s.x \in Nat /\ s.y \in Rows /\ s.video \in [Rows -> [Columns -> Printable]]
    BY ScreensMove, ScreenFacts
  <1> DEFINE video == [s.video EXCEPT ![s.y][col] = c]
  <1>2. SetCell(s, s.y, col, c) = [x |-> s.x, y |-> s.y, video |-> video]
    <2>1. SetCell(s, s.y, col, c) = [s EXCEPT !.video = video]
      BY DEF SetCell
    <2> HIDE DEF video
    <2>2. [s EXCEPT !.video = video] = [x |-> s.x, y |-> s.y, video |-> video]
      BY DEF Screens
    <2>3. QED
      BY <2>1, <2>2
  <1>3. CellSet(s, c, col, n) = [x |-> n, y |-> s.y, video |-> video]
    BY <1>2 DEF CellSet
  <1>4. video \in [Rows -> [Columns -> Printable]]
    BY <1>1
  <1>5. /\ video[s.y][col] = c
        /\ \A r \in Rows, k \in Columns : r # s.y \/ k # col => video[r][k] = s.video[r][k]
    BY <1>1
  <1> HIDE DEF video
  <1>6. QED
    BY <1>1, <1>3, <1>4, <1>5 DEF Moving
\* Rows that are left alone keep their place on the page.
LEMMA SameLines ==
  ASSUME NEW s, NEW w, s.y \in Rows, w.y = s.y,
         \A r \in Rows, k \in Columns : r < s.y => w.video[r][k] = s.video[r][k]
  PROVE  LinesOf(w) = LinesOf(s)
  <1>1. s.y \in Nat /\ s.y < VGA_HEIGHT /\ VGA_WIDTH \in Nat
    BY TtyAssumption DEF Rows
  <1>2. ASSUME NEW i \in 1 .. s.y, NEW j \in 1 .. VGA_WIDTH
        PROVE  w.video[i - 1][j - 1] = s.video[i - 1][j - 1]
    <2>1. i - 1 \in Rows /\ j - 1 \in Columns /\ i - 1 < s.y
      BY <1>1, TtyAssumption DEF Rows, Columns
    <2>2. QED
      BY <2>1
  <1>3. \A i \in 1 .. s.y : RowOf(w, i - 1) = RowOf(s, i - 1)
    BY <1>2 DEF RowOf
  <1>4. QED
    BY <1>3 DEF LinesOf

\* A character that is shown.
LEMMA CharStep ==
  ASSUME NEW s \in Screens, BlankFrom(s), NEW c \in Printable,
         NEW t, t = kprint_char(s, c)
  PROVE  /\ t \in Screens /\ BlankFrom(t)
         /\ IF Len(Append(LineOf(s), c)) < VGA_WIDTH
            THEN LineOf(t) = Append(LineOf(s), c) /\ LinesOf(t) = LinesOf(s)
            ELSE /\ LineOf(t) = <<>>
                 /\ LinesOf(t) = P!Keep(Append(LinesOf(s), P!Filled(Append(LineOf(s), c))))
  <1> DEFINE w == CellSet(s, c, s.x, s.x + 1)
  <1>1. /\ s.x \in Nat /\ s.x < VGA_WIDTH /\ s.y \in Rows /\ s.x \in Columns
        /\ VGA_WIDTH \in Nat
        /\ LineOf(s) \in Seq(Printable) /\ Len(LineOf(s)) = s.x
        /\ \A j \in 1 .. s.x : LineOf(s)[j] = s.video[s.y][j - 1]
    BY LineFacts, TtyAssumption DEF Screens
  <1>2. Written(s, c) = w
    <2>1. c \notin Controls
      BY TtyAssumption
    <2>2. SetCell(s, s.y, s.x, c).x = s.x
      BY DEF SetCell, Screens
    <2>3. QED
      BY <2>1, <2>2 DEF Written, Controls, CellSet
  <1>3. t = Settled(w)
    BY <1>2 DEF kprint_char, Settled
  <1>4. /\ w \in Moving /\ w.x = s.x + 1 /\ w.y = s.y
        /\ w.video[s.y][s.x] = c
        /\ \A r \in Rows, k \in Columns :
             r # s.y \/ k # s.x => w.video[r][k] = s.video[r][k]
    <2>1. s.x + 1 \in Nat
      BY <1>1
    <2>2. QED
      BY <1>1, <2>1, SetCellFacts
  <1> HIDE DEF w
  <1>5. BlankFrom(w)
    <2> SUFFICES ASSUME NEW r \in Rows, NEW k \in Columns,
                        r > w.y \/ (r = w.y /\ k >= w.x)
                 PROVE  w.video[r][k] = Blank
      BY DEF BlankFrom
    <2>1. r > s.y \/ (r = s.y /\ k >= s.x /\ k # s.x)
      BY <1>1, <1>4 DEF Columns
    <2>2. r # s.y \/ k # s.x
      BY <1>1, <2>1 DEF Rows
    <2>3. QED
      BY <1>4, <2>1, <2>2 DEF BlankFrom
  <1>6. LinesOf(w) = LinesOf(s)
    BY <1>1, <1>4, SameLines DEF Rows
  <1>7. MovingLine(w) = Append(LineOf(s), c)
    <2>1. \A j \in 1 .. s.x : j - 1 \in Columns /\ j - 1 # s.x /\ j <= VGA_WIDTH
      BY <1>1 DEF Columns
    <2>2. \A j \in 1 .. s.x : w.video[s.y][j - 1] = LineOf(s)[j]
      BY <1>1, <1>4, <2>1
    <2>3. Append(LineOf(s), c) = [j \in 1 .. s.x + 1 |-> IF j <= s.x THEN LineOf(s)[j] ELSE c]
      <3>1. Append(LineOf(s), c) = [j \in 1 .. Len(LineOf(s)) + 1 |->
                                      IF j <= Len(LineOf(s)) THEN LineOf(s)[j] ELSE c]
        BY <1>1, AppendIs
      <3>2. Len(LineOf(s)) = s.x
        BY <1>1
      <3>3. QED
        BY <3>1, <3>2, Zenon
    <2>4. MovingLine(w) = [j \in 1 .. s.x + 1 |->
                             IF j <= VGA_WIDTH THEN w.video[s.y][j - 1] ELSE Blank]
      BY <1>4 DEF MovingLine
    <2>5. ASSUME NEW j \in 1 .. s.x + 1
          PROVE  (IF j <= VGA_WIDTH THEN w.video[s.y][j - 1] ELSE Blank)
                   = IF j <= s.x THEN LineOf(s)[j] ELSE c
      <3>1. CASE j <= s.x
        BY <1>1, <2>1, <2>2, <3>1
      <3>2. CASE j = s.x + 1
        <4>1. j <= VGA_WIDTH /\ j - 1 = s.x /\ ~(j <= s.x)
          BY <1>1, <3>2
        <4>2. QED
          BY <1>4, <4>1
      <3>3. QED
        BY <1>1, <3>1, <3>2
    <2>6. QED
      BY <2>3, <2>4, <2>5
  <1>8. Len(Append(LineOf(s), c)) = s.x + 1
    BY <1>1
  <1>9. QED
    <2>1. /\ t \in Screens /\ BlankFrom(t)
          /\ s.x + 1 < VGA_WIDTH =>
               LineOf(t) = Append(LineOf(s), c) /\ LinesOf(t) = LinesOf(s)
          /\ s.x + 1 >= VGA_WIDTH =>
               /\ LineOf(t) = <<>>
               /\ LinesOf(t) = P!Keep(Append(LinesOf(s), P!Filled(Append(LineOf(s), c))))
      BY <1>3, <1>4, <1>5, <1>6, <1>7, SettledPage
    <2>2. ~(s.x + 1 < VGA_WIDTH) => s.x + 1 >= VGA_WIDTH
      BY <1>1
    <2>3. QED
      BY <1>8, <2>1, <2>2, Zenon

\* A newline.
LEMMA NewlineStep ==
  ASSUME NEW s \in Screens, BlankFrom(s), NEW t, t = kprint_char(s, Newline)
  PROVE  /\ t \in Screens /\ BlankFrom(t)
         /\ LineOf(t) = <<>>
         /\ LinesOf(t) = P!Keep(Append(LinesOf(s), P!Filled(LineOf(s))))
  <1>1. VGA_WIDTH \in Nat \ {0}
    BY TtyAssumption
  <1>2. t = Down(s)
    <2>1. Written(s, Newline) = NextRow(s)
      BY DEF Written, Newline, Tab, Backspace
    <2>2. Wrapped(NextRow(s)) = NextRow(s)
      BY <1>1 DEF Wrapped, NextRow
    <2>3. QED
      BY <2>1, <2>2 DEF kprint_char, Down
  <1>3. s \in Moving /\ BlankBelow(s)
    BY ScreensMove DEF BlankFrom, BlankBelow
  <1>4. P!Filled(LineOf(s)) = RowOf(s, s.y)
    <2>1. /\ s.x \in Nat /\ s.x < VGA_WIDTH /\ s.y \in Rows
          /\ Len(LineOf(s)) = s.x
          /\ \A j \in 1 .. s.x : LineOf(s)[j] = s.video[s.y][j - 1]
      BY LineFacts
    <2>2. \A j \in 1 .. VGA_WIDTH : j > s.x => s.video[s.y][j - 1] = Blank
      <3> SUFFICES ASSUME NEW j \in 1 .. VGA_WIDTH, j > s.x
                   PROVE  s.video[s.y][j - 1] = Blank
        OBVIOUS
      <3>1. j - 1 \in Columns /\ j - 1 >= s.x
        BY <1>1, <2>1 DEF Columns
      <3>2. QED
        BY <2>1, <3>1 DEF BlankFrom
    <2>3. \A j \in 1 .. VGA_WIDTH :
            (IF j <= Len(LineOf(s)) THEN LineOf(s)[j] ELSE Blank) = s.video[s.y][j - 1]
      BY <1>1, <2>1, <2>2
    <2>4. QED
      BY <2>3 DEF P!Filled, RowOf
  <1>5. QED
    BY <1>2, <1>3, <1>4, DownScreen, DownPage
\* A tab moves the cursor on.
LEMMA TabColumn ==
  ASSUME NEW x \in Nat
  PROVE  ((x + TabStop) \div TabStop) * TabStop \in Nat
         /\ ((x + TabStop) \div TabStop) * TabStop > x
  <1> DEFINE q == (x + TabStop) \div TabStop
  <1>1. \A m \in Nat, n \in Nat \ {0} :
          /\ m \div n \in Nat /\ m % n \in 0 .. n - 1
          /\ (m \div n) * n + (m % n) = m /\ (m \div n) * n \in Nat
    BY SMT
  <1>2. x + TabStop \in Nat /\ TabStop \in Nat \ {0}
    BY TtyAssumption
  <1>3. /\ (x + TabStop) % TabStop \in 0 .. TabStop - 1
        /\ q * TabStop + ((x + TabStop) % TabStop) = x + TabStop /\ q * TabStop \in Nat
    BY <1>1, <1>2
  <1> HIDE DEF q
  <1>4. q * TabStop \in Nat /\ q * TabStop > x
    BY <1>2, <1>3
  <1>5. QED
    BY <1>4 DEF q

LEMMA TabStep ==
  ASSUME NEW s \in Screens, BlankFrom(s), NEW t, t = kprint_char(s, Tab), NEW n,
         n = ((Len(LineOf(s)) + TabStop) \div TabStop) * TabStop, NEW gap,
         gap = [i \in 1 .. n |-> IF i <= Len(LineOf(s)) THEN LineOf(s)[i] ELSE Blank]
  PROVE  /\ t \in Screens /\ BlankFrom(t)
         /\ IF Len(gap) < VGA_WIDTH
            THEN LineOf(t) = gap /\ LinesOf(t) = LinesOf(s)
            ELSE /\ LineOf(t) = <<>>
                 /\ LinesOf(t) = P!Keep(Append(LinesOf(s), P!Filled(gap)))
  <1> DEFINE w == [s EXCEPT !.x = n]
  <1>1. /\ s.x \in Nat /\ s.x < VGA_WIDTH /\ s.y \in Rows /\ VGA_WIDTH \in Nat
        /\ Len(LineOf(s)) = s.x
        /\ \A j \in 1 .. s.x : LineOf(s)[j] = s.video[s.y][j - 1]
    BY LineFacts, TtyAssumption
  <1>2. n \in Nat /\ n > s.x /\ n = ((s.x + TabStop) \div TabStop) * TabStop
    BY <1>1, TabColumn
  <1>3. t = Settled(w)
    <2>1. Written(s, Tab) = w
      BY <1>2 DEF Written, Newline, Tab, Backspace
    <2>2. QED
      BY <2>1 DEF kprint_char, Settled
  <1>4. w = [x |-> n, y |-> s.y, video |-> s.video]
    BY DEF Screens
  <1> HIDE DEF w
  <1>5. w \in Moving
    BY <1>2, <1>4 DEF Moving, Screens
  <1>6. BlankFrom(w)
    <2> SUFFICES ASSUME NEW r \in Rows, NEW k \in Columns,
                        r > w.y \/ (r = w.y /\ k >= w.x)
                 PROVE  w.video[r][k] = Blank
      BY DEF BlankFrom
    <2>1. r > s.y \/ (r = s.y /\ k >= s.x)
      BY <1>1, <1>2, <1>4 DEF Columns
    <2>2. QED
      BY <1>4, <2>1 DEF BlankFrom
  <1>7. LinesOf(w) = LinesOf(s)
    BY <1>1, <1>4, SameLines
  <1>8. MovingLine(w) = gap
    <2>1. MovingLine(w) = [j \in 1 .. n |->
                             IF j <= VGA_WIDTH THEN s.video[s.y][j - 1] ELSE Blank]
      BY <1>4 DEF MovingLine
    <2>2. ASSUME NEW j \in 1 .. n
          PROVE  (IF j <= VGA_WIDTH THEN s.video[s.y][j - 1] ELSE Blank)
                   = IF j <= s.x THEN LineOf(s)[j] ELSE Blank
      <3>1. CASE j <= s.x
        BY <1>1, <1>2, <3>1
      <3>2. CASE j > s.x /\ j <= VGA_WIDTH
        <4>1. j - 1 \in Columns /\ j - 1 >= s.x /\ ~(j <= s.x)
          BY <1>1, <1>2, <3>2 DEF Columns
        <4>2. s.video[s.y][j - 1] = Blank
          BY <1>1, <4>1 DEF BlankFrom
        <4>3. QED
          BY <3>2, <4>1, <4>2
      <3>3. CASE j > VGA_WIDTH
        BY <1>1, <1>2, <3>3
      <3>4. QED
        BY <1>1, <1>2, <3>1, <3>2, <3>3
    <2>3. gap = [j \in 1 .. n |-> IF j <= s.x THEN LineOf(s)[j] ELSE Blank]
      BY <1>1
    <2>4. QED
      BY <2>1, <2>2, <2>3
  <1>9. Len(gap) = n
    BY <1>2
  <1>10. /\ t \in Screens /\ BlankFrom(t)
         /\ n < VGA_WIDTH => LineOf(t) = gap /\ LinesOf(t) = LinesOf(s)
         /\ n >= VGA_WIDTH =>
              /\ LineOf(t) = <<>>
              /\ LinesOf(t) = P!Keep(Append(LinesOf(s), P!Filled(gap)))
    <2>1. w.x = n
      BY <1>4
    <2>2. QED
      BY <1>3, <1>5, <1>6, <1>7, <1>8, <2>1, SettledPage
  <1>11. ~(n < VGA_WIDTH) => n >= VGA_WIDTH
    BY <1>1, <1>2
  <1>12. QED
    BY <1>9, <1>10, <1>11, Zenon

\* A backspace: nothing in the margin, else a character less.
LEMMA BackspaceStep ==
  ASSUME NEW s \in Screens, BlankFrom(s), NEW t, t = kprint_char(s, Backspace)
  PROVE  /\ t \in Screens /\ BlankFrom(t)
         /\ \/ Len(LineOf(s)) <= Margin /\ t = s
            \/ /\ Len(LineOf(s)) > Margin
               /\ LineOf(t) = SubSeq(LineOf(s), 1, Len(LineOf(s)) - 1)
               /\ LinesOf(t) = LinesOf(s)
  <1>1. /\ s.x \in Nat /\ s.x < VGA_WIDTH /\ s.y \in Rows /\ VGA_WIDTH \in Nat
        /\ LineOf(s) \in Seq(Printable) /\ Len(LineOf(s)) = s.x
        /\ \A j \in 1 .. s.x : LineOf(s)[j] = s.video[s.y][j - 1]
    BY LineFacts, TtyAssumption
  <1>2. t = Settled(Erased(s))
    <2>1. Written(s, Backspace) = Erased(s)
      BY DEF Written, Newline, Tab, Backspace
    <2>2. QED
      BY <2>1 DEF kprint_char, Settled
  <1>3. CASE ~(s.x > Margin)
    <2>1. Erased(s) = s
      BY <1>3 DEF Erased
    <2>2. Wrapped(s) = s
      BY <1>1 DEF Wrapped
    <2>3. ~(s.y >= VGA_HEIGHT)
      BY <1>1, TtyAssumption DEF Rows
    <2>4. t = s
      BY <1>2, <2>1, <2>2, <2>3 DEF Settled
    <2>5. QED
      BY <1>1, <1>3, <2>4, TtyAssumption
  <1>4. CASE s.x > Margin
    <2> DEFINE w == CellSet(s, Blank, s.x - 1, s.x - 1)
    <2>1. s.x - 1 \in Nat /\ s.x - 1 \in Columns /\ Blank \in Printable
      BY <1>1, <1>4, TtyAssumption DEF Columns, Printable
    <2>2. Erased(s) = w
      <3>1. SetCell(s, s.y, s.x - 1, Blank).x = s.x
        BY DEF SetCell, Screens
      <3>2. QED
        BY <1>4, <3>1 DEF Erased, CellSet
    <2>3. /\ w \in Moving /\ w.x = s.x - 1 /\ w.y = s.y
          /\ w.video[s.y][s.x - 1] = Blank
          /\ \A r \in Rows, k \in Columns :
               r # s.y \/ k # s.x - 1 => w.video[r][k] = s.video[r][k]
      BY <2>1, SetCellFacts
    <2> HIDE DEF w
    <2>4. BlankFrom(w)
      <3> SUFFICES ASSUME NEW r \in Rows, NEW k \in Columns,
                          r > w.y \/ (r = w.y /\ k >= w.x)
                   PROVE  w.video[r][k] = Blank
        BY DEF BlankFrom
      <3>1. CASE r = s.y /\ k = s.x - 1
        BY <2>3, <3>1
      <3>2. CASE ~(r = s.y /\ k = s.x - 1)
        <4>1. r > s.y \/ (r = s.y /\ k >= s.x)
          BY <1>1, <2>3, <3>2 DEF Columns
        <4>2. QED
          BY <2>3, <3>2, <4>1 DEF BlankFrom
      <3>3. QED
        BY <3>1, <3>2
    <2>5. LinesOf(w) = LinesOf(s)
      BY <1>1, <2>3, SameLines DEF Rows
    <2>6. MovingLine(w) = SubSeq(LineOf(s), 1, s.x - 1)
      <3>1. MovingLine(w) = [j \in 1 .. s.x - 1 |->
                               IF j <= VGA_WIDTH THEN w.video[s.y][j - 1] ELSE Blank]
        BY <2>3 DEF MovingLine
      <3>2. ASSUME NEW j \in 1 .. s.x - 1
            PROVE  (IF j <= VGA_WIDTH THEN w.video[s.y][j - 1] ELSE Blank) = LineOf(s)[j]
        <4>1. j \in 1 .. s.x /\ j <= VGA_WIDTH /\ j - 1 \in Columns /\ j - 1 # s.x - 1
          BY <1>1 DEF Columns
        <4>2. QED
          BY <1>1, <2>3, <4>1
      <3>3. SubSeq(LineOf(s), 1, s.x - 1) = [j \in 1 .. s.x - 1 |-> LineOf(s)[j]]
        BY <1>1, <2>1
      <3>4. QED
        BY <3>1, <3>2, <3>3
    <2>7. t \in Screens /\ BlankFrom(t) /\ LineOf(t) = MovingLine(w) /\ LinesOf(t) = LinesOf(w)
      <3>1. w.x < VGA_WIDTH
        BY <1>1, <2>3
      <3>2. QED
        BY <1>2, <2>2, <2>3, <2>4, <3>1, SettledPage
    <2>8. QED
      BY <1>1, <1>4, <2>5, <2>6, <2>7
  <1>5. QED
    BY <1>3, <1>4

\* The screen cleared.
LEMMA ClearStep ==
  /\ clear_screen \in Screens /\ BlankFrom(clear_screen)
  /\ LinesOf(clear_screen) = <<>> /\ LineOf(clear_screen) = <<>>
  <1>1. 0 \in Columns /\ 0 \in Rows
    BY TtyAssumption DEF Columns, Rows
  <1>2. BlankRow \in [Columns -> Printable]
    BY DEF BlankRow, Printable
  <1>3. clear_screen \in Screens
    BY <1>1, <1>2 DEF clear_screen, Screens
  <1>4. BlankFrom(clear_screen)
    BY DEF BlankFrom, clear_screen, BlankRow
  <1>5. LinesOf(clear_screen) = <<>> /\ LineOf(clear_screen) = <<>>
    BY DEF LinesOf, LineOf, clear_screen
  <1>6. QED
    BY <1>3, <1>4, <1>5

-----------------------------------------------------------------------------
(* The invariant.                                                          *)

\* What is behind the cursor is blank: without it a finished line would not be
\* what was printed.
IInv == TypeOK /\ BlankFrom(tty)

LEMMA Inits == Init => IInv
  <1> SUFFICES ASSUME Init PROVE IInv
    OBVIOUS
  <1>1. TtyTypeOK /\ BlankFrom(tty)
    BY ClearStep DEF Init, TtyTypeOK
  <1>2. out \in Seq(Letters)
    BY ShellAssumption DEF Init, Letters, Printable, Prompt
  <1>3. QED
    BY <1>1, <1>2, ShellAssumption DEF Init, TypeOK, IInv

\* The characters of the call in progress.
LEMMA kprintKeeps == ASSUME IInv, kprint PROVE IInv'
  <1> DEFINE c == Head(out)
  <1>1. tty \in Screens /\ BlankFrom(tty) /\ out \in Seq(Letters) /\ out # <<>>
    BY DEF IInv, TypeOK, TtyTypeOK, kprint
  <1>2. c \in Letters /\ out' \in Seq(Letters)
    BY <1>1 DEF kprint
  <1>3. tty' = IF c = ClearScreen THEN clear_screen ELSE kprint_char(tty, c)
    BY DEF kprint
  <1> HIDE DEF c
  <1>4. tty' \in Screens /\ BlankFrom(tty')
    <2>1. CASE c = ClearScreen
      BY <1>3, <2>1, ClearStep
    <2>2. CASE c # ClearScreen
      <3> DEFINE n == ((Len(LineOf(tty)) + TabStop) \div TabStop) * TabStop
                 gap == [i \in 1 .. n |-> IF i <= Len(LineOf(tty)) THEN LineOf(tty)[i] ELSE Blank]
      <3>1. tty' = kprint_char(tty, c)
        BY <1>3, <2>2
      <3>2. CASE c \in Printable
        BY <1>1, <3>1, <3>2, CharStep
      <3>3. CASE c = Newline
        BY <1>1, <3>1, <3>3, NewlineStep
      <3>4. CASE c = Tab
        BY <1>1, <3>1, <3>4, TabStep
      <3>5. CASE c = Backspace
        BY <1>1, <3>1, <3>5, BackspaceStep
      <3>6. c \notin NoReturn
        BY DEF kprint, c
      <3>7. QED
        BY <1>2, <2>2, <3>2, <3>3, <3>4, <3>5, <3>6 DEF Letters
    <2>3. QED
      BY <2>1, <2>2
  <1>5. UNCHANGED <<command_buffer, history, history_index, test_ptr>>
    BY DEF kprint, lineVars
  <1>6. QED
    BY <1>2, <1>4, <1>5 DEF IInv, TypeOK, TtyTypeOK

\* Sequences over a larger set, and two of them one behind the other.
LEMMA WiderSeq == ASSUME NEW S, NEW T, S \subseteq T PROVE Seq(S) \subseteq Seq(T)
  OBVIOUS

LEMMA Letterwise ==
  /\ Seq(Printable) \subseteq Seq(Letters)
  /\ Replies \subseteq Seq(Letters)
  /\ Prompt \in Seq(Letters)
  /\ <<>> \in Seq(Letters) /\ <<Newline>> \in Seq(Letters)
  /\ <<Backspace>> \in Seq(Letters) /\ <<ClearScreen>> \in Seq(Letters)
  /\ <<PowerOff>> \in Seq(Letters) /\ <<StackOverrun>> \in Seq(Letters)
  /\ \A n \in Nat : Backspaces(n) \in Seq(Letters)
  /\ \A s, t \in Seq(Letters) : s \o t \in Seq(Letters)
  <1>1. Printable \cup {Newline, Tab} \subseteq Letters /\ Printable \subseteq Letters
    BY DEF Letters
  <1>2. Seq(Printable \cup {Newline, Tab}) \subseteq Seq(Letters)
    BY <1>1, WiderSeq
  <1>3. Seq(Printable) \subseteq Seq(Letters)
    BY <1>1, WiderSeq
  <1>4. Prompt \in Seq(Letters)
    BY ShellAssumption DEF Letters, Printable, Prompt
  <1>5. /\ <<>> \in Seq(Letters) /\ <<Newline>> \in Seq(Letters)
        /\ <<Backspace>> \in Seq(Letters) /\ <<ClearScreen>> \in Seq(Letters)
        /\ <<PowerOff>> \in Seq(Letters) /\ <<StackOverrun>> \in Seq(Letters)
    BY DEF Letters, NoReturn
  <1>6. \A n \in Nat : Backspaces(n) \in Seq(Letters)
    BY DEF Backspaces, Letters
  <1>7. \A s, t \in Seq(Letters) : s \o t \in Seq(Letters)
    OBVIOUS
  <1>8. Replies \subseteq Seq(Letters)
    BY <1>2, ShellAssumption
  <1>9. QED
    BY <1>3, <1>4, <1>5, <1>6, <1>7, <1>8

\* The history's lines.
LEMMA HistoryFacts ==
  ASSUME TypeOK
  PROVE  /\ HISTORY_MAX \in Nat \ {0} /\ Len(history) \in Nat
         /\ history_index \in Int /\ history_index >= -1 /\ history_index < Len(history)
         /\ \A i \in 1 .. Len(history) : history[i] \in Seq(Printable)
         /\ history # <<>> => Len(history) > 0
         /\ command_buffer \in Seq(Printable) /\ Len(command_buffer) \in Nat
         /\ command_buffer # <<>> => Len(command_buffer) > 0
  <1>1. history \in Seq(Seq(Printable)) /\ command_buffer \in Seq(Printable)
    BY DEF TypeOK
  <1>2. Len(history) \in Nat /\ \A i \in 1 .. Len(history) : history[i] \in Seq(Printable)
    BY <1>1
  <1>3. history # <<>> => Len(history) > 0
    BY <1>1
  <1>4. Len(command_buffer) \in Nat /\ (command_buffer # <<>> => Len(command_buffer) > 0)
    BY <1>1
  <1>5. history_index \in -1 .. Len(history) - 1
    BY DEF TypeOK
  <1>6. QED
    BY <1>1, <1>2, <1>3, <1>4, <1>5, ShellAssumption

\* A line more, and the oldest gone once the history is full: for all that the
\* code copies the lines one by one, it is the tail of the longer history.
LEMMA SavedFacts ==
  ASSUME TypeOK, command_buffer # <<>>
  PROVE  /\ Saved(command_buffer) = Log!Keep(Append(history, command_buffer))
         /\ Saved(command_buffer) \in Seq(Seq(Printable))
         /\ Len(Saved(command_buffer)) <= HISTORY_MAX
         /\ \A i \in 1 .. Len(Saved(command_buffer)) : Saved(command_buffer)[i] # <<>>
  <1> DEFINE longer == Append(history, command_buffer)
             S == Seq(Printable)
  <1>1. /\ HISTORY_MAX \in Nat \ {0} /\ history \in Seq(S) /\ Len(history) <= HISTORY_MAX
        /\ \A i \in 1 .. Len(history) : history[i] # <<>>
        /\ command_buffer \in S
    BY ShellAssumption DEF TypeOK
  <1> HIDE DEF S
  <1>2. longer = [j \in 1 .. Len(history) + 1 |->
                    IF j <= Len(history) THEN history[j] ELSE command_buffer]
    BY <1>1, AppendIs
  <1>3. /\ longer \in Seq(S) /\ Len(longer) = Len(history) + 1
        /\ \A i \in 1 .. Len(history) + 1 : longer[i] # <<>>
    <2>1. longer \in Seq(S) /\ Len(longer) = Len(history) + 1 /\ Len(history) \in Nat
      BY <1>1
    <2>2. \A i \in 1 .. Len(history) + 1 : longer[i] # <<>>
      BY <1>1, <1>2, <2>1
    <2>3. QED
      BY <2>1, <2>2
  <1>4. CASE Len(history) < HISTORY_MAX
    <2>1. Saved(command_buffer) = longer /\ Log!Keep(longer) = longer
      BY <1>1, <1>3, <1>4 DEF Saved, Log!Keep
    <2>2. QED
      BY <1>1, <1>3, <1>4, <2>1 DEF S
  <1>5. CASE Len(history) = HISTORY_MAX
    <2> DEFINE kept == [i \in 1 .. HISTORY_MAX |->
                          IF i < HISTORY_MAX THEN history[i + 1] ELSE command_buffer]
    <2>1. Saved(command_buffer) = kept
      BY <1>1, <1>5 DEF Saved
    <2>2. Log!Keep(longer) = Tail(longer)
      BY <1>1, <1>3, <1>5 DEF Log!Keep
    <2>3. \A i \in 1 .. HISTORY_MAX : kept[i] = longer[i + 1]
      BY <1>1, <1>2, <1>5
    <2>4. /\ Tail(longer) \in Seq(S) /\ Len(Tail(longer)) = HISTORY_MAX
          /\ \A i \in 1 .. HISTORY_MAX : Tail(longer)[i] = longer[i + 1]
      <3>1. longer # <<>>
        <4>1. Len(longer) > 0
          BY <1>1, <1>3
        <4>2. Len(<<>>) = 0
          OBVIOUS
        <4> HIDE DEF longer
        <4>3. QED
          BY <4>1, <4>2
      <3>2. QED
        BY <1>1, <1>3, <1>5, <3>1, HeadTailProperties
    <2>5. \A i \in 1 .. HISTORY_MAX : longer[i + 1] \in S /\ longer[i + 1] # <<>>
      <3>1. \A i \in 1 .. HISTORY_MAX : i + 1 \in 1 .. Len(longer)
        BY <1>1, <1>3, <1>5
      <3>2. QED
        BY <1>1, <1>3, <1>5, <3>1
    <2> HIDE DEF longer
    <2>6. kept \in Seq(S) /\ Len(kept) = HISTORY_MAX
      <3>1. \A i \in 1 .. HISTORY_MAX :
              (IF i < HISTORY_MAX THEN history[i + 1] ELSE command_buffer) \in S
        BY <2>3, <2>5
      <3>2. QED
        BY <1>1, <3>1
    <2> HIDE DEF kept
    <2>7. kept = Tail(longer)
      BY <2>3, <2>4, <2>6, SeqEqual
    <2>8. QED
      BY <1>1, <2>1, <2>2, <2>3, <2>5, <2>6, <2>7 DEF longer, S
  <1>6. QED
    BY <1>1, <1>4, <1>5

\* Every command saves the line and prints.
LEMMA CommandSaves ==
  ASSUME TypeOK,
         Overrun \/ CmdHelp \/ CmdPlain \/ CmdClear \/ CmdName \/ CmdWrite
           \/ CmdShutdown \/ CmdAlloc \/ CmdDealloc \/ CmdUnknown
  PROVE  /\ \E text \in Seq(Letters) : Save(text)
         /\ test_ptr' \in Blocks \cup {NULL}
  <1>1. test_ptr \in Blocks \cup {NULL} /\ command_buffer \in Seq(Printable)
    BY DEF TypeOK
  <1>2. ASSUME NEW text \in Seq(Letters), Process(text)
        PROVE  \E u \in Seq(Letters) : Save(u)
    BY <1>2, Letterwise DEF Process
  <1>3. ASSUME \E text \in Replies : Process(text)
        PROVE  \E u \in Seq(Letters) : Save(u)
    BY <1>2, <1>3, Letterwise
  <1>4. ASSUME NEW callee, Answer(callee)
        PROVE  (\E u \in Seq(Letters) : Save(u)) /\ test_ptr' = test_ptr
    BY <1>3, <1>4 DEF Answer
  <1>5. CASE CmdHelp
    BY <1>1, <1>4, <1>5 DEF CmdHelp
  <1>6. CASE CmdPlain
    BY <1>1, <1>4, <1>6 DEF CmdPlain
  <1>7. CASE CmdClear
    BY <1>1, <1>2, <1>7, Letterwise DEF CmdClear
  <1>8. CASE CmdName
    BY <1>1, <1>4, <1>8 DEF CmdName
  <1>9. CASE CmdWrite
    BY <1>1, <1>4, <1>9 DEF CmdWrite
  <1>10. CASE CmdShutdown
    BY <1>1, <1>10, Letterwise DEF CmdShutdown
  <1>11. CASE CmdAlloc
    BY <1>1, <1>2, <1>3, <1>11, Letterwise DEF CmdAlloc
  <1>12. CASE CmdDealloc
    BY <1>1, <1>3, <1>12 DEF CmdDealloc
  <1>13. CASE CmdUnknown
    <2>1. command_buffer \o <<Newline>> \in Seq(Letters)
      BY <1>1, Letterwise
    <2>2. QED
      BY <1>1, <1>2, <1>13, <2>1 DEF CmdUnknown
  <1>14. CASE Overrun
    BY <1>1, <1>14, Letterwise DEF Overrun
  <1>15. QED
    BY <1>5, <1>6, <1>7, <1>8, <1>9, <1>10, <1>11, <1>12, <1>13, <1>14

\* Typing, and the history's keys.
LEMMA TypeKeeps == ASSUME IInv, NEW c \in Printable, Type(c) PROVE IInv'
  <1>1. <<c>> \in Seq(Letters)
    BY DEF Letters
  <1>2. Append(command_buffer, c) \in Seq(Printable)
    BY DEF IInv, TypeOK
  <1>3. QED
    BY <1>1, <1>2 DEF IInv, TypeOK, TtyTypeOK, Type

LEMMA RuboutKeeps == ASSUME IInv, Rubout PROVE IInv'
  <1>1. SubSeq(command_buffer, 1, Len(command_buffer) - 1) \in Seq(Printable)
    <2>1. TypeOK
      BY DEF IInv
    <2>2. command_buffer \in Seq(Printable) /\ Len(command_buffer) \in Nat
          /\ Len(command_buffer) > 0
      BY <2>1, HistoryFacts DEF Rubout
    <2>3. QED
      BY <2>2
  <1>2. QED
    BY <1>1, Letterwise DEF IInv, TypeOK, TtyTypeOK, Rubout

LEMMA ReplaceLineKeeps ==
  ASSUME IInv, NEW line \in Seq(Printable), ReplaceLine(line),
         history_index' \in -1 .. Len(history) - 1
  PROVE  IInv'
  <1>1. Len(command_buffer) \in Nat
    BY DEF IInv, TypeOK
  <1>2. Backspaces(Len(command_buffer)) \o line \in Seq(Letters)
    BY <1>1, Letterwise
  <1>3. QED
    BY <1>2 DEF IInv, TypeOK, TtyTypeOK, ReplaceLine

LEMMA UpKeeps == ASSUME IInv, handle_history_up PROVE IInv'
  <1>1. TypeOK /\ history # <<>> /\ ReplaceLine(history[history_index' + 1])
    BY DEF IInv, handle_history_up
  <1>2. history_index' \in 0 .. Len(history) - 1
    BY <1>1, HistoryFacts DEF handle_history_up
  <1>3. history[history_index' + 1] \in Seq(Printable)
    <2> DEFINE i == history_index' n == Len(history)
    <2>1. i + 1 \in 1 .. n
      <3>1. n \in Nat /\ i \in 0 .. n - 1
        BY <1>1, <1>2, HistoryFacts
      <3> HIDE DEF i, n
      <3>2. QED
        BY <3>1
    <2>2. QED
      BY <1>1, <2>1, HistoryFacts
  <1>4. history_index' \in -1 .. Len(history) - 1
    BY <1>1, <1>2, HistoryFacts
  <1>5. QED
    BY <1>1, <1>3, <1>4, ReplaceLineKeeps

LEMMA DownKeeps == ASSUME IInv, handle_history_down PROVE IInv'
  <1>1. TypeOK
    BY DEF IInv
  <1>2. CASE history_index + 1 < Len(history)
    <2>1. history_index' = history_index + 1 /\ ReplaceLine(history[history_index' + 1])
      BY <1>2 DEF handle_history_down
    <2>2. history_index' + 1 \in 1 .. Len(history)
      BY <1>1, <1>2, <2>1, HistoryFacts DEF handle_history_down
    <2>3. history[history_index' + 1] \in Seq(Printable)
      BY <1>1, <2>2, HistoryFacts
    <2>4. history_index' \in -1 .. Len(history) - 1
      BY <1>1, <1>2, <2>1, HistoryFacts
    <2>5. QED
      BY <2>1, <2>3, <2>4, ReplaceLineKeeps
  <1>3. CASE ~(history_index + 1 < Len(history))
    <2>1. history_index' = -1 /\ ReplaceLine(<<>>)
      BY <1>3 DEF handle_history_down
    <2>2. history_index' \in -1 .. Len(history) - 1
      BY <1>1, <2>1, HistoryFacts
    <2>3. <<>> \in Seq(Printable)
      OBVIOUS
    <2>4. QED
      BY <2>1, <2>2, <2>3, ReplaceLineKeeps
  <1>4. QED
    BY <1>2, <1>3

\* Commands.
LEMMA EmptyLineKeeps == ASSUME IInv, EmptyLine PROVE IInv'
  BY Letterwise DEF IInv, TypeOK, TtyTypeOK, EmptyLine, lineVars

LEMMA SaveKeeps ==
  ASSUME IInv, NEW text \in Seq(Letters), Save(text), test_ptr' \in Blocks \cup {NULL}
  PROVE  IInv'
  <1>1. TypeOK /\ command_buffer # <<>>
    BY DEF IInv, Save
  <1>2. /\ history' = Saved(command_buffer) /\ history_index' = -1 /\ command_buffer' = <<>>
        /\ out' = <<Newline>> \o text /\ tty' = tty
    BY DEF Save
  <1>3. /\ history' \in Seq(Seq(Printable)) /\ Len(history') <= HISTORY_MAX
        /\ \A i \in 1 .. Len(history') : history'[i] # <<>>
    BY <1>1, <1>2, SavedFacts
  <1>4. out' \in Seq(Letters)
    BY <1>2, Letterwise
  <1>5. history_index' \in -1 .. Len(history') - 1
    BY <1>2, <1>3
  <1>6. command_buffer' \in Seq(Printable)
    BY <1>2
  <1>7. QED
    BY <1>2, <1>3, <1>4, <1>5, <1>6 DEF IInv, TypeOK, TtyTypeOK

\* Every step keeps the invariant.
LEMMA StepKeeps == IInv /\ [Next]_vars => IInv'
  <1> SUFFICES ASSUME IInv, [Next]_vars PROVE IInv'
    OBVIOUS
  <1>1. CASE kprint
    BY <1>1, kprintKeeps
  <1>2. CASE User
    BY <1>2, TypeKeeps, RuboutKeeps DEF User
  <1>3. CASE handle_history_up
    BY <1>3, UpKeeps
  <1>4. CASE handle_history_down
    BY <1>4, DownKeeps
  <1>5. CASE process_command
    <2>1. CASE EmptyLine
      BY <2>1, EmptyLineKeeps
    <2>2. CASE ~EmptyLine
      <3>1. TypeOK
        BY DEF IInv
      <3>2. (\E text \in Seq(Letters) : Save(text)) /\ test_ptr' \in Blocks \cup {NULL}
        BY <1>5, <2>2, <3>1, CommandSaves DEF process_command
      <3>3. QED
        BY <3>2, SaveKeeps
    <2>3. QED
      BY <2>1, <2>2
  <1>6. CASE UNCHANGED vars
    BY <1>6 DEF vars, lineVars, IInv, TypeOK, TtyTypeOK
  <1>7. QED
    BY <1>1, <1>2, <1>3, <1>4, <1>5, <1>6 DEF Next

\* The inductive invariant holds in every state of the console and the shell.
THEOREM Invariance == Spec => []IInv
  BY Inits, StepKeeps, PTL DEF Spec

\* The screen, the line, the history and the block of the command alloc have
\* their types in every state, for every size of screen and of history, every
\* set of lines and every text the commands print (shell.c:12-22, tty.c:7-25).
THEOREM TypeCorrect == Spec => []TypeOK
  <1>1. IInv => TypeOK
    BY DEF IInv
  <1>2. QED
    BY <1>1, Invariance, PTL

\* The cursor stays on the screen and everything from it on is blank, through
\* wrapping, scrolling and erasing (tty.c:27-72).
THEOREM BlankAhead == Spec => []TtyInv
  <1>1. IInv => TtyInv
    BY DEF IInv, TypeOK, TtyInv
  <1>2. QED
    BY <1>1, Invariance, PTL

-----------------------------------------------------------------------------
(* The screen implements the page.                                         *)

LEMMA PageInit == Init => P!Init
  BY ClearStep DEF Init, P!Init

\* A character that is printed is a step of the page, or, for a backspace in the
\* margin, none.
LEMMA kprintPage == ASSUME IInv, kprint PROVE P!Next \/ UNCHANGED tty
  <1> DEFINE c == Head(out)
             line == LineOf(tty)
             lines == LinesOf(tty)
  <1>1. tty \in Screens /\ BlankFrom(tty) /\ out \in Seq(Letters) /\ out # <<>>
    BY DEF IInv, TypeOK, TtyTypeOK, kprint
  <1>2. c \in Letters /\ c \notin NoReturn
    BY <1>1 DEF kprint
  <1>3. tty' = IF c = ClearScreen THEN clear_screen ELSE kprint_char(tty, c)
    BY DEF kprint
  <1> HIDE DEF c
  <1>4. CASE c = ClearScreen
    <2>1. LinesOf(tty') = <<>> /\ LineOf(tty') = <<>>
      BY <1>3, <1>4, ClearStep
    <2>2. P!Clear
      BY <2>1 DEF P!Clear
    <2>3. QED
      BY <2>2 DEF P!Next
  <1>5. CASE c # ClearScreen
    <2>1. tty' = kprint_char(tty, c)
      BY <1>3, <1>5
    <2>2. CASE c \in Printable
      <3>1. IF Len(Append(line, c)) < VGA_WIDTH
            THEN LineOf(tty') = Append(line, c) /\ LinesOf(tty') = lines
            ELSE /\ LineOf(tty') = <<>>
                 /\ LinesOf(tty') = P!Keep(Append(lines, P!Filled(Append(line, c))))
        BY <1>1, <2>1, <2>2, CharStep
      <3>2. P!Put(c)
        BY <3>1, Zenon DEF P!Put, P!Continue
      <3>3. QED
        BY <2>2, <3>2 DEF P!Next
    <2>3. CASE c = Newline
      <3>1. /\ LineOf(tty') = <<>>
            /\ LinesOf(tty') = P!Keep(Append(lines, P!Filled(line)))
        BY <1>1, <2>1, <2>3, NewlineStep
      <3>2. P!NextLine
        BY <3>1 DEF P!NextLine
      <3>3. QED
        BY <3>2 DEF P!Next
    <2>4. CASE c = Tab
      <3> DEFINE n == ((Len(line) + TabStop) \div TabStop) * TabStop
                 gap == [i \in 1 .. n |-> IF i <= Len(line) THEN line[i] ELSE Blank]
      <3>1. IF Len(gap) < VGA_WIDTH
            THEN LineOf(tty') = gap /\ LinesOf(tty') = lines
            ELSE /\ LineOf(tty') = <<>>
                 /\ LinesOf(tty') = P!Keep(Append(lines, P!Filled(gap)))
        <4>1. /\ n = ((Len(LineOf(tty)) + TabStop) \div TabStop) * TabStop
              /\ gap = [i \in 1 .. n |-> IF i <= Len(LineOf(tty)) THEN LineOf(tty)[i]
                                       ELSE Blank]
          OBVIOUS
        <4>2. tty' = kprint_char(tty, Tab)
          BY <2>1, <2>4
        <4> HIDE DEF n, gap
        <4>3. QED
          BY <1>1, <4>1, <4>2, TabStep
      <3>2. P!Gap(n) = gap
        BY DEF P!Gap
      <3>3. P!Skip
        BY <3>1, <3>2, Zenon DEF P!Skip, P!Continue
      <3>4. QED
        BY <3>3 DEF P!Next
    <2>5. CASE c = Backspace
      <3>1. \/ tty' = tty
            \/ /\ Len(line) > Margin
               /\ LineOf(tty') = SubSeq(line, 1, Len(line) - 1)
               /\ LinesOf(tty') = lines
        BY <1>1, <2>1, <2>5, BackspaceStep
      <3>2. ASSUME ~UNCHANGED tty PROVE P!Erase
        BY <3>1, <3>2 DEF P!Erase
      <3>3. QED
        BY <3>2 DEF P!Next
    <2>6. QED
      BY <1>2, <1>5, <2>2, <2>3, <2>4, <2>5 DEF Letters
  <1>6. QED
    BY <1>4, <1>5

LEMMA PageStep == IInv /\ [Next]_vars => [P!Next]_(P!vars)
  <1> SUFFICES ASSUME IInv, [Next]_vars PROVE P!Next \/ UNCHANGED P!vars
    OBVIOUS
  <1>1. CASE kprint
    <2>1. CASE P!Next
      BY <2>1
    <2>2. CASE UNCHANGED tty
      BY <2>2 DEF P!vars, LinesOf, LineOf, RowOf
    <2>3. QED
      BY <1>1, <2>1, <2>2, kprintPage
  <1>2. CASE ~kprint
    <2>1. UNCHANGED tty
      <3>1. CASE User \/ handle_history_up \/ handle_history_down
        BY <3>1 DEF User, Type, Rubout, handle_history_up, handle_history_down, ReplaceLine
      <3>2. CASE process_command
        <4>1. CASE EmptyLine
          BY <4>1 DEF EmptyLine
        <4>2. CASE ~EmptyLine
          BY <3>2, <4>2, CommandSaves DEF process_command, IInv, Save
        <4>3. QED
          BY <4>1, <4>2
      <3>3. CASE UNCHANGED vars
        BY <3>3 DEF vars
      <3>4. QED
        BY <1>2, <3>1, <3>2, <3>3 DEF Next
    <2>2. QED
      BY <2>1 DEF P!vars, LinesOf, LineOf, RowOf
  <1>3. QED
    BY <1>1, <1>2

\* What is on the screen is what was printed: its rows are the last lines
\* finished, in order, and the cursor's row is the line being printed, for every
\* size of screen and whatever is printed (tty.c:27-92).
THEOREM ShowsWhatWasPrinted == Spec => RefinesPage
  BY Invariance, PageInit, PageStep, PTL DEF Spec, RefinesPage, P!Spec

-----------------------------------------------------------------------------
(* The shell implements the command log.                                   *)

Back(i, n) == IF i = -1 THEN 0 ELSE n - i

LEMMA LogInit == Init => Log!Init
  BY DEF Init, Log!Init

LEMMA InsertStep == ASSUME NEW c \in Printable, Type(c) PROVE Log!Next
  <1>1. Log!Insert(c)
    BY DEF Type, Log!Insert
  <1>2. QED
    BY <1>1 DEF Log!Next

LEMMA EraseStep == ASSUME Rubout PROVE Log!Next
  <1>1. Log!Erase
    BY DEF Rubout, Log!Erase
  <1>2. QED
    BY <1>1 DEF Log!Next

LEMMA OlderStep == ASSUME IInv, handle_history_up PROVE Log!Next
  <1> DEFINE n == Len(history)
  <1>1. /\ TypeOK /\ history # <<>> /\ history' = history
        /\ command_buffer' = history[history_index' + 1]
        /\ history_index' = IF history_index = -1 THEN n - 1
                            ELSE IF history_index > 0 THEN history_index - 1
                            ELSE history_index
    BY DEF IInv, handle_history_up, ReplaceLine
  <1>2. n \in Nat /\ n > 0 /\ history_index \in -1 .. n - 1 /\ n' = n
    BY <1>1, HistoryFacts
  <1> HIDE DEF n
  <1>3. /\ history_index' # -1 /\ history_index' \in Int
        /\ Back(history_index', n) = IF Back(history_index, n) < n
                                     THEN Back(history_index, n) + 1 ELSE Back(history_index, n)
        /\ n + 1 - Back(history_index', n) = history_index' + 1
    BY <1>1, <1>2 DEF Back
  <1>4. Log!Older
    BY <1>1, <1>2, <1>3 DEF Log!Older, Log!Command, Back, n
  <1>5. QED
    BY <1>4 DEF Log!Next

LEMMA NewerStep == ASSUME IInv, handle_history_down PROVE Log!Next
  <1> DEFINE n == Len(history)
  <1>1. TypeOK /\ history_index # -1 /\ history' = history
    BY DEF IInv, handle_history_down, ReplaceLine
  <1>2. n \in Nat /\ history_index \in 0 .. n - 1 /\ n' = n
    BY <1>1, HistoryFacts
  <1> HIDE DEF n
  <1>3. CASE history_index + 1 < n
    <2>1. history_index' = history_index + 1 /\ command_buffer' = history[history_index' + 1]
      BY <1>3 DEF handle_history_down, ReplaceLine, n
    <2>2. /\ Back(history_index, n) > 0
          /\ Back(history_index', n) = Back(history_index, n) - 1
          /\ Back(history_index', n) # 0
          /\ n + 1 - Back(history_index', n) = history_index' + 1
      BY <1>2, <1>3, <2>1 DEF Back
    <2>3. Log!Newer
      BY <1>1, <1>2, <2>1, <2>2 DEF Log!Newer, Log!Command, Back, n
    <2>4. QED
      BY <2>3 DEF Log!Next
  <1>4. CASE ~(history_index + 1 < n)
    <2>1. history_index' = -1 /\ command_buffer' = <<>>
      BY <1>4 DEF handle_history_down, ReplaceLine, n
    <2>2. /\ Back(history_index, n) = 1
          /\ Back(history_index', n) = 0
      BY <1>2, <1>4, <2>1 DEF Back
    <2>3. Log!Newer
      BY <1>1, <1>2, <2>1, <2>2 DEF Log!Newer, Back, n
    <2>4. QED
      BY <2>3 DEF Log!Next
  <1>5. QED
    BY <1>3, <1>4

LEMMA EnterStep == ASSUME IInv, NEW text, Save(text) PROVE Log!Next
  <1>1. TypeOK /\ command_buffer # <<>>
    BY DEF IInv, Save
  <1>2. history' = Log!Keep(Append(history, command_buffer))
    BY <1>1, SavedFacts DEF Save
  <1>3. history_index' = -1 /\ command_buffer' = <<>>
    BY DEF Save
  <1>4. Log!Enter
    BY <1>1, <1>2, <1>3 DEF Log!Enter
  <1>5. QED
    BY <1>4 DEF Log!Next

LEMMA LogStep == IInv /\ [Next]_vars => [Log!Next]_(Log!vars)
  <1> SUFFICES ASSUME IInv, [Next]_vars PROVE Log!Next \/ UNCHANGED Log!vars
    OBVIOUS
  <1>1. CASE kprint
    BY <1>1 DEF kprint, lineVars, Log!vars
  <1>2. CASE User
    BY <1>2, InsertStep, EraseStep DEF User
  <1>3. CASE handle_history_up
    BY <1>3, OlderStep
  <1>4. CASE handle_history_down
    BY <1>4, NewerStep
  <1>5. CASE process_command
    <2>1. CASE EmptyLine
      BY <2>1 DEF EmptyLine, lineVars, Log!vars
    <2>2. CASE ~EmptyLine
      <3>1. TypeOK
        BY DEF IInv
      <3>2. \E text \in Seq(Letters) : Save(text)
        BY <1>5, <2>2, <3>1, CommandSaves DEF process_command
      <3>3. QED
        BY <3>2, EnterStep
    <2>3. QED
      BY <2>1, <2>2
  <1>6. CASE UNCHANGED vars
    BY <1>6 DEF vars, lineVars, Log!vars
  <1>7. QED
    BY <1>1, <1>2, <1>3, <1>4, <1>5, <1>6 DEF Next

\* The keys recall the last commands entered, the oldest and the newest at the
\* ends, for every length of the history and whatever is typed and entered in
\* between (shell.c:82-129).
THEOREM RecallsWhatWasEntered == Spec => RefinesCommandLog
  BY Invariance, LogInit, LogStep, PTL DEF Spec, RefinesCommandLog, Log!Spec

-----------------------------------------------------------------------------
(* The arguments of the commands.                                          *)

LEMMA Least ==
  ASSUME NEW T \in SUBSET Nat, T # {}
  PROVE  \E x \in T : \A y \in T : x <= y
  <1> DEFINE R == OpToRel(<, Nat)
  <1>1. IsWellFoundedOn(R, Nat)
    BY NatLessThanWellFounded
  <1>2. PICK x \in T : \A y \in T : ~(<<y, x>> \in R)
    <2> HIDE DEF R
    <2>1. QED
      BY <1>1, WFMin
  <1>3. \A y \in T : y < x => <<y, x>> \in R
    BY DEF OpToRel
  <1> HIDE DEF R
  <1>4. x \in Nat /\ \A y \in T : y \in Nat /\ ~(y < x)
    BY <1>2, <1>3
  <1>5. QED
    BY <1>4, SMT

\* The index of the first blank of s, or the one behind its end.
BlankAt(s, i) ==
  /\ i <= Len(s) => s[i] = Blank
  /\ \A j \in 1 .. i - 1 : s[j] # Blank

LEMMA FirstBlank ==
  ASSUME NEW S, NEW s \in Seq(S) PROVE \E i \in 1 .. Len(s) + 1 : BlankAt(s, i)
  <1> DEFINE len == Len(s)
             T == {i \in 1 .. len + 1 : i <= len => s[i] = Blank}
  <1>1. len \in Nat
    OBVIOUS
  <1>2. T \in SUBSET Nat /\ len + 1 \in T
    BY <1>1
  <1>3. PICK x \in T : \A y \in T : x <= y
    <2> HIDE DEF T
    <2>1. QED
      BY <1>2, Least
  <1>4. \A j \in 1 .. x - 1 : s[j] # Blank
    <2> SUFFICES ASSUME NEW j \in 1 .. x - 1, s[j] = Blank PROVE FALSE
      OBVIOUS
    <2>1. j \in T /\ j < x
      BY <1>1, <1>3
    <2>2. QED
      BY <1>1, <1>3, <2>1
  <1>5. QED
    BY <1>3, <1>4 DEF BlankAt

\* Neither part of a line is longer than the line.
LEMMA ParseShorter ==
  ASSUME NEW S, NEW s \in Seq(S)
  PROVE  /\ parse_command(s).cmd \in Seq(S) /\ Len(parse_command(s).cmd) <= Len(s)
         /\ parse_command(s).arg \in Seq(S) /\ Len(parse_command(s).arg) <= Len(s)
  <1> DEFINE len == Len(s)
             n == CHOOSE i \in 1 .. Len(s) + 1 : BlankAt(s, i)
             cmd == SubSeq(s, 1, n - 1)
             arg == SubSeq(s, n + 1, len)
  <1>1. len \in Nat /\ \A i \in 1 .. len : s[i] \in S
    OBVIOUS
  <1>2. n \in 1 .. len + 1
    BY FirstBlank
  <1>3. parse_command(s) = [cmd |-> cmd, arg |-> arg]
    BY Zenon DEF parse_command, BlankAt
  <1> HIDE DEF n, len
  <1>4. cmd \in Seq(S) /\ Len(cmd) <= len
    <2>1. \A i \in 1 .. n - 1 : s[i] \in S
      BY <1>1, <1>2
    <2>2. /\ cmd \in Seq(S)
          /\ Len(cmd) = IF 1 <= n - 1 THEN n - 1 - 1 + 1 ELSE 0
      BY <1>2, <2>1, SubSeqProperties
    <2>3. QED
      BY <1>1, <1>2, <2>2
  <1>5. arg \in Seq(S) /\ Len(arg) <= len
    <2>1. \A i \in n + 1 .. len : s[i] \in S
      BY <1>1, <1>2
    <2>2. /\ arg \in Seq(S)
          /\ Len(arg) = IF n + 1 <= len THEN len - (n + 1) + 1 ELSE 0
      BY <1>1, <1>2, <2>1, SubSeqProperties
    <2>3. QED
      BY <1>1, <1>2, <2>2
  <1>6. QED
    BY <1>3, <1>4, <1>5 DEF len

\* A line with an argument is the two parts with a blank between.
LEMMA ParseParts ==
  ASSUME NEW S, NEW s \in Seq(S), parse_command(s).arg # <<>>
  PROVE  /\ s = parse_command(s).cmd \o <<Blank>> \o parse_command(s).arg
         /\ parse_command(s).cmd \in Seq(S) /\ parse_command(s).arg \in Seq(S)
  <1> DEFINE len == Len(s)
             n == CHOOSE i \in 1 .. Len(s) + 1 : BlankAt(s, i)
             cmd == SubSeq(s, 1, n - 1)
             arg == SubSeq(s, n + 1, len)
  <1>1. len \in Nat
    OBVIOUS
  <1>2. \E i \in 1 .. Len(s) + 1 : BlankAt(s, i)
    BY FirstBlank
  <1>3. n \in 1 .. len + 1 /\ BlankAt(s, n)
    BY <1>2
  <1>4. parse_command(s) = [cmd |-> cmd, arg |-> arg]
    BY Zenon DEF parse_command, BlankAt
  <1> HIDE DEF n
  <1>5. n <= len
    <2> SUFFICES ASSUME n = len + 1 PROVE FALSE
      BY <1>1, <1>3
    <2>1. arg = <<>>
      BY <1>1
    <2>2. QED
      BY <1>4, <2>1
  <1>6. s[n] = Blank
    BY <1>3, <1>5 DEF BlankAt
  <1> HIDE DEF len
  <1>7. /\ cmd \in Seq(S) /\ Len(cmd) = n - 1 /\ \A i \in 1 .. n - 1 : cmd[i] = s[i]
        /\ arg \in Seq(S) /\ Len(arg) = len - n
        /\ \A i \in 1 .. len - n : arg[i] = s[n + i]
    BY <1>1, <1>3, <1>5 DEF len
  <1> HIDE DEF cmd, arg
  <1> DEFINE gap == <<Blank>>
             head == cmd \o gap
             all == head \o arg
  <1>8. /\ gap \in Seq(S) /\ Len(gap) = 1 /\ gap[1] = Blank
        /\ n - 1 + 1 = n /\ n + (len - n) = len
    <2>1. s[n] \in S
      BY <1>1, <1>3, <1>5 DEF len
    <2>2. QED
      BY <1>1, <1>3, <1>6, <2>1
  <1> HIDE DEF gap
  <1>9. /\ head \in Seq(S) /\ Len(head) = n
        /\ \A i \in 1 .. n : head[i] = s[i]
    <2>1. /\ head \in Seq(S) /\ Len(head) = n
          /\ \A i \in 1 .. n : head[i] = IF i <= n - 1 THEN cmd[i] ELSE gap[i - (n - 1)]
      <3>1. /\ head \in Seq(S) /\ Len(head) = Len(cmd) + Len(gap)
            /\ \A i \in 1 .. Len(cmd) + Len(gap) :
                 head[i] = IF i <= Len(cmd) THEN cmd[i] ELSE gap[i - Len(cmd)]
        BY <1>7, <1>8, ConcatProperties, Zenon
      <3>2. Len(cmd) = n - 1 /\ Len(cmd) + Len(gap) = n
        BY <1>1, <1>3, <1>7, <1>8
      <3>3. QED
        BY <3>1, <3>2, Zenon
    <2> HIDE DEF head
    <2>2. ASSUME NEW i \in 1 .. n PROVE head[i] = s[i]
      <3>1. CASE i <= n - 1
        BY <1>1, <1>3, <1>7, <2>1, <3>1
      <3>2. CASE i = n
        <4>1. i - (n - 1) = 1 /\ ~(i <= n - 1)
          BY <1>1, <1>3, <3>2
        <4>2. QED
          BY <1>6, <1>8, <2>1, <3>2, <4>1
      <3>3. QED
        BY <1>1, <1>3, <3>1, <3>2
    <2>3. QED
      BY <2>1, <2>2
  <1> HIDE DEF head
  <1>10. /\ all \in Seq(S) /\ Len(all) = len
         /\ \A i \in 1 .. len : all[i] = s[i]
    <2>1. /\ all \in Seq(S) /\ Len(all) = len
          /\ \A i \in 1 .. len : all[i] = IF i <= n THEN head[i] ELSE arg[i - n]
      <3>1. /\ all \in Seq(S) /\ Len(all) = Len(head) + Len(arg)
            /\ \A i \in 1 .. Len(head) + Len(arg) :
                 all[i] = IF i <= Len(head) THEN head[i] ELSE arg[i - Len(head)]
        BY <1>7, <1>9, ConcatProperties, Zenon
      <3>2. Len(head) = n /\ Len(head) + Len(arg) = len
        BY <1>1, <1>3, <1>7, <1>8, <1>9
      <3>3. QED
        BY <3>1, <3>2, Zenon
    <2> HIDE DEF all
    <2>2. ASSUME NEW i \in 1 .. len PROVE all[i] = s[i]
      <3>1. CASE i <= n
        BY <1>1, <1>3, <1>9, <2>1, <3>1
      <3>2. CASE i > n
        <4>1. i - n \in 1 .. len - n /\ ~(i <= n) /\ n + (i - n) = i
          BY <1>1, <1>3, <3>2
        <4>2. QED
          BY <1>7, <2>1, <4>1
      <3>3. QED
        BY <1>1, <1>3, <3>1, <3>2
    <2>3. QED
      BY <2>1, <2>2
  <1> HIDE DEF all
  <1>11. s = all
    BY <1>10, SeqEqual DEF len
  <1>12. QED
    BY <1>4, <1>7, <1>11 DEF all, head, gap

\* What CallsAsTyped says of a command's call, and of its copies.
Faithful ==
  called' # <<>> /\ called'[1] \in OfAName \cup {"write"} =>
    command_buffer = Asking(called') /\ ArgumentsFit(called')

Contained ==
  out'[Len(out')] = StackOverrun =>
    \E size \in {CMD_SIZE, ARG_SIZE, FILENAME_SIZE, CONTENT_SIZE} :
      Len(command_buffer) >= size

LEMMA NameFaithful == ASSUME IInv, CmdName PROVE Faithful
  <1>1. command_buffer \in Seq(Printable)
    BY DEF IInv, TypeOK
  <1>2. PICK c \in OfAName :
          /\ Command.cmd = Word[c] /\ Len(Command.arg) < ARG_SIZE
          /\ called' = IF Command.arg = <<>> THEN <<>> ELSE <<c, Command.arg>>
    BY DEF CmdName, Is, Answer, CommandFits, Fits
  <1>3. SUFFICES ASSUME Command.arg # <<>>
                 PROVE  command_buffer = Word[c] \o <<Blank>> \o Command.arg
    <2>1. c # "write"
      BY DEF OfAName
    <2>2. CASE Command.arg = <<>>
      BY <1>2, <2>2 DEF Faithful
    <2>3. CASE Command.arg # <<>>
      <3>1. called' = <<c, Command.arg>>
        BY <1>2, <2>3
      <3>2. called'[1] = c /\ called'[2] = Command.arg
        BY <3>1
      <3>3. command_buffer = Word[c] \o <<Blank>> \o Command.arg
        BY <2>3, <1>3
      <3>4. QED
        BY <1>2, <2>1, <3>2, <3>3, Zenon DEF Faithful, Asking, ArgumentsFit
    <2>4. QED
      BY <2>2, <2>3
  <1>4. QED
    BY <1>1, <1>2, <1>3, ParseParts DEF Command

LEMMA WriteFaithful == ASSUME IInv, CmdWrite PROVE Faithful
  <1> DEFINE file == File
             whole == Command.arg
  <1>1. command_buffer \in Seq(Printable)
    BY DEF IInv, TypeOK
  <1>2. /\ Command.cmd = Word["write"]
        /\ Len(file.cmd) < FILENAME_SIZE /\ Len(file.arg) < CONTENT_SIZE
        /\ called' = IF file.arg = <<>> THEN <<>> ELSE <<"write", file.cmd, file.arg>>
    BY DEF CmdWrite, Is, Answer, FileFits, Fits
  <1>3. CASE file.arg = <<>>
    BY <1>2, <1>3 DEF Faithful
  <1>4. CASE file.arg # <<>>
    <2>1. whole # <<>>
      <3> SUFFICES ASSUME whole = <<>> PROVE FALSE
        OBVIOUS
      <3>1. file.arg = parse_command(<<>>).arg
        BY DEF File
      <3>2. parse_command(<<>>).arg = <<>>
        <4>1. \A n : n \in 1 .. 1 => SubSeq(<<>>, n + 1, 0) = <<>>
          OBVIOUS
        <4>2. PICK i \in 1 .. Len(<<>>) + 1 : BlankAt(<<>>, i)
          <5>1. BlankAt(<<>>, 1)
            BY DEF BlankAt
          <5>2. QED
            BY <5>1
        <4>3. (CHOOSE j \in 1 .. Len(<<>>) + 1 : BlankAt(<<>>, j)) \in 1 .. 1
          BY <4>2
        <4>4. QED
          BY <4>1, <4>3 DEF parse_command, BlankAt
      <3>3. QED
        BY <1>4, <3>1, <3>2
    <2>2. /\ command_buffer = Word["write"] \o <<Blank>> \o whole
          /\ whole \in Seq(Printable)
      BY <1>1, <1>2, <2>1, ParseParts DEF Command
    <2>3. whole = file.cmd \o <<Blank>> \o file.arg
      BY <1>4, <2>2, ParseParts DEF File
    <2>4. file.cmd \in Seq(Printable) /\ file.arg \in Seq(Printable)
      BY <1>4, <2>2, ParseParts DEF File
    <2>5. Word["write"] \in Seq(Printable)
      BY ShellAssumption DEF Commands, Printable
    <2>6. called' = <<"write", file.cmd, file.arg>>
      BY <1>2, <1>4
    <2>7. called'[1] = "write" /\ called'[2] = file.cmd /\ called'[3] = file.arg
      BY <2>6
    <2> HIDE DEF whole, file
    <2>8. command_buffer = (Word["write"] \o <<Blank>> \o file.cmd) \o <<Blank>> \o file.arg
      <3> DEFINE gap == <<Blank>>
      <3>1. gap \in Seq(Printable)
        BY DEF Printable
      <3>2. \A a, b, c \in Seq(Printable) :
              (a \o b) \o c = a \o (b \o c) /\ a \o b \in Seq(Printable)
        BY ConcatAssociative, ConcatProperties
      <3>3. command_buffer = (Word["write"] \o gap) \o ((file.cmd \o gap) \o file.arg)
        BY <2>2, <2>3
      <3> HIDE DEF gap
      <3>4. ASSUME NEW a \in Seq(Printable), NEW b \in Seq(Printable), NEW c \in Seq(Printable)
            PROVE  (a \o gap) \o ((b \o gap) \o c) = (((a \o gap) \o b) \o gap) \o c
        <4>1. (b \o gap) \o c = b \o (gap \o c) /\ gap \o c \in Seq(Printable)
          BY <3>1, <3>2, Zenon
        <4>2. a \o gap \in Seq(Printable)
          BY <3>1, <3>2, Zenon
        <4>3. (a \o gap) \o (b \o (gap \o c)) = ((a \o gap) \o b) \o (gap \o c)
          BY <3>2, <4>1, <4>2, Zenon
        <4>4. ((a \o gap) \o b) \o (gap \o c) = (((a \o gap) \o b) \o gap) \o c
          <5>1. (a \o gap) \o b \in Seq(Printable)
            BY <3>2, <4>2, Zenon
          <5>2. QED
            BY <3>1, <3>2, <5>1, Zenon
        <4>5. QED
          BY <4>1, <4>3, <4>4, Zenon
      <3>5. command_buffer = (((Word["write"] \o gap) \o file.cmd) \o gap) \o file.arg
        BY <2>4, <2>5, <3>3, <3>4, Zenon
      <3>6. QED
        BY <3>5 DEF gap
    <2>9. QED
      BY <1>2, <2>7, <2>8, Zenon DEF Faithful, Asking, ArgumentsFit
  <1>5. QED
    BY <1>3, <1>4

-----------------------------------------------------------------------------
(* The line on the screen is the line in the buffer.                       *)

LEMMA LineWords ==
  /\ Len(Prompt) = 2 /\ Prompt[1] = ">" /\ Prompt[2] = Blank
  /\ Prompt \in Seq(Printable)
  /\ ({ClearScreen, Backspace, Newline} \cup NoReturn) \cap Printable = {}
  /\ ClearScreen \notin NoReturn /\ ClearScreen # Backspace /\ ClearScreen # Newline
  /\ Backspace \notin NoReturn /\ PowerOff # StackOverrun
  <1>1. Len(Prompt) = 2 /\ Prompt[1] = ">" /\ Prompt[2] = Blank
    BY DEF Prompt
  <1>2. Prompt \in Seq(Printable)
    BY ShellAssumption DEF Prompt, Printable
  <1>3. ({ClearScreen, Backspace, Newline} \cup NoReturn) \cap Printable = {}
    BY ShellAssumption, TtyAssumption DEF Controls
  <1>4. /\ ClearScreen \notin NoReturn /\ ClearScreen # Backspace /\ ClearScreen # Newline
        /\ Backspace \notin NoReturn /\ PowerOff # StackOverrun
    BY DEF ClearScreen, NoReturn, PowerOff, StackOverrun, Backspace, Newline
  <1>5. QED
    BY <1>1, <1>2, <1>3, <1>4

\* One sequence behind another.
LEMMA Joined ==
  ASSUME NEW S, NEW s \in Seq(S), NEW t \in Seq(S)
  PROVE  /\ s \o t \in Seq(S)
         /\ Len(s \o t) = Len(s) + Len(t) /\ Len(t) \in Nat
         /\ \A i \in 1 .. Len(s) + Len(t) :
              (s \o t)[i] = IF i <= Len(s) THEN s[i] ELSE t[i - Len(s)]
  <1>1. s \o t \in Seq(S) /\ Len(s \o t) = Len(s) + Len(t)
    BY ConcatProperties, Zenon
  <1>2. \A i \in 1 .. Len(s) + Len(t) :
          (s \o t)[i] = IF i <= Len(s) THEN s[i] ELSE t[i - Len(s)]
    BY ConcatProperties, Zenon
  <1>3. Len(t) \in Nat
    BY LenProperties, Zenon
  <1>4. QED
    BY <1>1, <1>2, <1>3

\* The prompt and a line behind it.
LEMMA EditLineFacts ==
  ASSUME NEW l \in Seq(Printable)
  PROVE  /\ Prompt \o l \in Seq(Printable)
         /\ Len(Prompt \o l) = 2 + Len(l) /\ Len(l) \in Nat
         /\ (Prompt \o l)[1] = Prompt[1] /\ (Prompt \o l)[2] = Prompt[2]
         /\ \A i \in 1 .. Len(l) : (Prompt \o l)[i + 2] = l[i]
         /\ \A i \in 1 .. 2 + Len(l) : (Prompt \o l)[i] \in Printable
  <1>1. Prompt \in Seq(Printable) /\ Len(Prompt) = 2
    BY LineWords
  <1>2. Prompt \o l \in Seq(Printable) /\ Len(Prompt \o l) = 2 + Len(l) /\ Len(l) \in Nat
    <2>1. /\ Prompt \o l \in Seq(Printable)
          /\ Len(Prompt \o l) = Len(Prompt) + Len(l) /\ Len(l) \in Nat
      BY <1>1, Joined, Zenon
    <2>2. QED
      BY <1>1, <2>1
  <1>3. \A i \in 1 .. 2 + Len(l) :
          (Prompt \o l)[i] = IF i <= 2 THEN Prompt[i] ELSE l[i - 2]
    <2>1. \A i \in 1 .. Len(Prompt) + Len(l) :
            (Prompt \o l)[i] = IF i <= Len(Prompt) THEN Prompt[i] ELSE l[i - Len(Prompt)]
      BY <1>1, Joined, Zenon
    <2>2. QED
      BY <1>1, <2>1
  <1>4. (Prompt \o l)[1] = Prompt[1] /\ (Prompt \o l)[2] = Prompt[2]
    BY <1>2, <1>3
  <1>5. ASSUME NEW i \in 1 .. Len(l) PROVE (Prompt \o l)[i + 2] = l[i]
    BY <1>2, <1>3
  <1>6. QED
    BY <1>2, <1>4, <1>5

\* A call that prints begins with nothing to print, and the row as it should be.
LEMMA AtRest ==
  ASSUME TypeOK, LineAhead, out = <<>>
  PROVE  /\ Len(LineOf(tty)) = Len(EditLine)
         /\ \A i \in 1 .. Len(EditLine) : LineOf(tty)[i] = EditLine[i]
  <1>1. ~NoReturnAhead /\ ~NewPromptAhead
    BY DEF NoReturnAhead, NewPromptAhead
  <1>2. PICK n \in 0 .. Len(out), k \in 0 .. Len(EditLine) : BackToLine(n, k)
    BY <1>1 DEF LineAhead
  <1>3. Len(EditLine) \in Nat
    BY EditLineFacts DEF TypeOK, EditLine
  <1>4. n = 0 /\ k = Len(EditLine)
    <2>1. n = 0
      OBVIOUS
    <2>2. k \in Int /\ Len(EditLine) - k \in Nat
      BY <1>3
    <2>3. out = [i \in 1 .. Len(EditLine) - k |->
                   IF i <= n THEN Backspace ELSE EditLine[k + i - n]]
      BY <1>2, <1>3, <2>1, <2>2 DEF BackToLine
    <2>4. Len(out) = Len(EditLine) - k
      BY <2>2, <2>3
    <2>5. QED
      BY <1>3, <2>1, <2>2, <2>4
  <1>5. QED
    BY <1>2, <1>3, <1>4 DEF BackToLine

\* So the row that is seen is the line that is edited.
LEMMA LineAheadShows == TypeOK /\ LineAhead => LineShown
  <1> SUFFICES ASSUME TypeOK, LineAhead, out = <<>>
               PROVE  /\ tty.x = Len(EditLine)
                      /\ \A i \in 1 .. Len(EditLine) : tty.video[tty.y][i - 1] = EditLine[i]
    BY DEF LineShown, EditLine
  <1>1. /\ Len(LineOf(tty)) = Len(EditLine)
        /\ \A i \in 1 .. Len(EditLine) : LineOf(tty)[i] = EditLine[i]
    BY AtRest
  <1>2. /\ Len(LineOf(tty)) = tty.x
        /\ \A j \in 1 .. tty.x : LineOf(tty)[j] = tty.video[tty.y][j - 1]
    BY LineFacts DEF TypeOK, TtyTypeOK
  <1>3. QED
    BY <1>1, <1>2

LEMMA LineInvInit == ASSUME LinesFitRow, Init PROVE LineInv
  <1>1. EditLine = Prompt /\ Len(EditLine) = 2
    BY LineWords DEF Init, EditLine
  <1>2. LineOf(tty) = <<>>
    BY ClearStep DEF Init
  <1>3. out = [i \in 1 .. 2 |-> EditLine[i]]
    BY <1>1, LineWords DEF Init, Prompt
  <1>4. BackToLine(0, 0)
    BY <1>1, <1>2, <1>3 DEF BackToLine
  <1>5. LineAhead
    BY <1>1, <1>3, <1>4 DEF LineAhead
  <1>6. FitRow
    BY <1>1, LineWords DEF FitRow, Init, LinesFitRow
  <1>7. QED
    BY <1>5, <1>6 DEF LineInv

-----------------------------------------------------------------------------
(* What kprint does to the line.                                           *)

LEMMA EraseAhead ==
  ASSUME TypeOK, BlankFrom(tty), PromptErasable, kprint,
         NEW n \in 1 .. Len(out), NEW k \in 0 .. Len(EditLine), BackToLine(n, k)
  PROVE  BackToLine(n - 1, k)' /\ Len(out') = Len(out) - 1
  <1>1. /\ out = [i \in 1 .. n + Len(EditLine) - k |->
                    IF i <= n THEN Backspace ELSE EditLine[k + i - n]]
        /\ Len(LineOf(tty)) = k + n /\ k >= 2
        /\ \A i \in 1 .. k : LineOf(tty)[i] = EditLine[i]
    BY LineWords DEF BackToLine
  <1>2. Len(EditLine) \in Nat /\ EditLine' = EditLine
    BY EditLineFacts DEF TypeOK, EditLine, kprint, lineVars
  <1> DEFINE m == n + Len(EditLine) - k
  <1>3. m \in Nat /\ n <= m /\ n >= 1 /\ k \in Nat /\ n \in Nat /\ Len(out) = m
    BY <1>1, <1>2
  <1>4. Head(out) = Backspace /\ out' = Tail(out)
    BY <1>1, <1>3 DEF kprint
  <1>5. out' = [i \in 1 .. m - 1 |-> out[i + 1]]
    BY <1>1, <1>3, <1>4
  <1>6. tty' = kprint_char(tty, Backspace)
    BY <1>4, LineWords DEF kprint
  <1>7. LineOf(tty') = SubSeq(LineOf(tty), 1, Len(LineOf(tty)) - 1)
    <2>1. ~(Len(LineOf(tty)) <= Margin)
      BY <1>1, <1>3, LineWords, TtyAssumption DEF PromptErasable
    <2>2. QED
      BY <1>6, <2>1, BackspaceStep DEF TypeOK, TtyTypeOK
  <1>8. /\ Len(LineOf(tty')) = k + n - 1
        /\ \A i \in 1 .. k : LineOf(tty')[i] = EditLine[i]
    <2>1. LineOf(tty) \in Seq(Printable)
      BY LineFacts DEF TypeOK, TtyTypeOK
    <2>2. LineOf(tty') = [i \in 1 .. k + n - 1 |-> LineOf(tty)[i]]
      BY <1>1, <1>3, <1>7, <2>1
    <2>3. QED
      BY <1>1, <1>3, <2>2
  <1>9. out' = [i \in 1 .. (n - 1) + Len(EditLine) - k |->
                  IF i <= n - 1 THEN Backspace ELSE EditLine[k + i - (n - 1)]]
    <2>1. \A i \in 1 .. m - 1 :
            out[i + 1] = IF i <= n - 1 THEN Backspace ELSE EditLine[k + i - (n - 1)]
      BY <1>1, <1>3
    <2>2. m - 1 = (n - 1) + Len(EditLine) - k
      BY <1>2, <1>3
    <2>3. QED
      BY <1>5, <2>1, <2>2
  <1>10. Len(out') = m - 1
    BY <1>3, <1>5
  <1>11. QED
    BY <1>1, <1>2, <1>3, <1>8, <1>9, <1>10, LineWords DEF BackToLine

LEMMA ShowAhead ==
  ASSUME TypeOK, BlankFrom(tty), FitRow, kprint,
         NEW k \in 0 .. Len(EditLine), BackToLine(0, k)
  PROVE  k < Len(EditLine) /\ BackToLine(0, k + 1)'
  <1>1. /\ out = [i \in 1 .. Len(EditLine) - k |-> EditLine[k + i]]
        /\ Len(LineOf(tty)) = k
        /\ \A i \in 1 .. k : LineOf(tty)[i] = EditLine[i]
    <2>1. Len(EditLine) \in Nat
      BY EditLineFacts DEF TypeOK, EditLine
    <2>2. QED
      BY <2>1 DEF BackToLine
  <1>2. /\ EditLine \in Seq(Printable) /\ Len(EditLine) \in Nat
        /\ EditLine' = EditLine /\ Len(EditLine) < VGA_WIDTH
    BY EditLineFacts DEF TypeOK, EditLine, kprint, lineVars, FitRow
  <1> DEFINE m == Len(EditLine) - k
             c == EditLine[k + 1]
  <1>3. m \in Nat /\ k \in Nat /\ Len(out) = m /\ m >= 1
    <2>1. m \in Nat /\ k \in Nat /\ Len(out) = m
      BY <1>1, <1>2
    <2>2. out # <<>> /\ out \in Seq(Letters)
      BY DEF kprint, TypeOK
    <2>3. m # 0
      BY <2>1, <2>2, EmptySeq
    <2>4. QED
      BY <2>1, <2>3
  <1>4. Head(out) = c /\ out' = Tail(out) /\ c \in Printable
    BY <1>1, <1>2, <1>3 DEF kprint
  <1>5. out' = [i \in 1 .. m - 1 |-> out[i + 1]]
    BY <1>1, <1>3, <1>4
  <1>6. tty' = kprint_char(tty, c)
    <2>1. c # ClearScreen
      BY <1>4, LineWords
    <2>2. QED
      BY <1>4, <2>1 DEF kprint
  <1> HIDE DEF c
  <1>7. LineOf(tty) \in Seq(Printable)
    BY LineFacts DEF TypeOK, TtyTypeOK
  <1>8. LineOf(tty') = Append(LineOf(tty), c)
    <2>1. Len(Append(LineOf(tty), c)) = k + 1
      BY <1>1, <1>4, <1>7
    <2>2. k + 1 < VGA_WIDTH
      BY <1>2, <1>3, TtyAssumption
    <2>3. QED
      BY <1>4, <1>6, <2>1, <2>2, CharStep DEF TypeOK, TtyTypeOK
  <1>9. /\ Len(LineOf(tty')) = k + 1
        /\ \A i \in 1 .. k + 1 : LineOf(tty')[i] = EditLine[i]
    <2>1. LineOf(tty') = [j \in 1 .. k + 1 |-> IF j <= k THEN LineOf(tty)[j] ELSE c]
      BY <1>1, <1>4, <1>7, <1>8, AppendIs
    <2>2. QED
      BY <1>1, <1>3, <2>1 DEF c
  <1>10. out' = [i \in 1 .. 0 + Len(EditLine) - (k + 1) |->
                   IF i <= 0 THEN Backspace ELSE EditLine[k + 1 + i - 0]]
    <2>1. \A i \in 1 .. m - 1 : out[i + 1] = EditLine[k + 1 + i]
      BY <1>1, <1>3
    <2>2. m - 1 = 0 + Len(EditLine) - (k + 1)
      BY <1>2, <1>3
    <2>3. \A i \in 1 .. m - 1 : ~(i <= 0) /\ k + 1 + i - 0 = k + 1 + i
      BY <1>3
    <2>4. QED
      BY <1>5, <2>1, <2>2, <2>3
  <1>11. QED
    BY <1>2, <1>3, <1>9, <1>10 DEF BackToLine

\* The last newline, or the screen cleared, in front of a new prompt.
LEMMA PromptAhead ==
  ASSUME TypeOK, BlankFrom(tty), kprint, NewPromptAhead
  PROVE  NewPromptAhead' \/ BackToLine(0, 0)'
  <1> DEFINE rest == Len(out) - 2
  <1>1. /\ out \in Seq(Letters) /\ Len(out) \in Nat /\ command_buffer = <<>> /\ rest > 0
        /\ out[rest] \in {Newline, ClearScreen}
        /\ out[rest + 1] = Prompt[1] /\ out[rest + 2] = Prompt[2]
    BY DEF TypeOK, NewPromptAhead
  <1>2. /\ Len(out') = Len(out) - 1 /\ command_buffer' = command_buffer
        /\ \A i \in 1 .. Len(out) - 1 : out'[i] = out[i + 1]
        /\ out' \in Seq(Letters)
    BY <1>1 DEF kprint, lineVars
  <1>3. CASE rest > 1
    <2>1. /\ Len(out') - 2 = rest - 1 /\ rest - 1 > 0
          /\ out'[rest - 1] = out[rest] /\ out'[rest - 1 + 1] = out[rest + 1]
          /\ out'[rest - 1 + 2] = out[rest + 2]
      BY <1>1, <1>2, <1>3
    <2>2. QED
      BY <1>1, <1>2, <2>1 DEF NewPromptAhead
  <1>4. CASE rest = 1
    <2>1. Head(out) \in {Newline, ClearScreen}
      BY <1>1, <1>4
    <2>2. LineOf(tty') = <<>>
      <3>1. CASE Head(out) = ClearScreen
        BY <3>1, ClearStep DEF kprint
      <3>2. CASE Head(out) = Newline
        <4>1. tty' = kprint_char(tty, Newline)
          BY <3>2, LineWords DEF kprint
        <4>2. QED
          BY <4>1, NewlineStep DEF TypeOK, TtyTypeOK
      <3>3. QED
        BY <2>1, <3>1, <3>2
    <2>3. EditLine' = Prompt
      BY <1>1, <1>2, LineWords DEF EditLine
    <2>4. out' = [i \in 1 .. 2 |-> Prompt[i]]
      <3>1. Len(out') = 2 /\ out'[1] = Prompt[1] /\ out'[2] = Prompt[2]
        BY <1>1, <1>2, <1>4
      <3>2. \A i \in 1 .. 2 : i = 1 \/ i = 2
        OBVIOUS
      <3>3. [i \in 1 .. 2 |-> Prompt[i]] \in Seq(Printable)
            /\ Len([i \in 1 .. 2 |-> Prompt[i]]) = 2
        BY LineWords
      <3>4. \A i \in 1 .. 2 : out'[i] = [j \in 1 .. 2 |-> Prompt[j]][i]
        BY <3>1, <3>2
      <3>5. QED
        BY <1>2, <3>1, <3>3, <3>4, SeqEqual
    <2>5. QED
      BY <2>2, <2>3, <2>4, LineWords DEF BackToLine
  <1>5. rest \in Int /\ rest > 0
    BY <1>1
  <1> HIDE DEF rest
  <1>6. rest = 1 \/ rest > 1
    BY <1>5
  <1>7. QED
    BY <1>3, <1>4, <1>6

LEMMA kprintAhead ==
  ASSUME IInv, LineInv, PromptErasable, kprint PROVE LineInv'
  <1>1. TypeOK /\ BlankFrom(tty) /\ FitRow /\ TypeOK'
    BY kprintKeeps DEF IInv, LineInv
  <1>2. FitRow'
    BY DEF LineInv, FitRow, EditLine, kprint, lineVars
  <1>3. Len(EditLine) \in Nat /\ EditLine' = EditLine
    BY <1>1, EditLineFacts DEF TypeOK, EditLine, kprint, lineVars
  <1>4. out \in Seq(Letters) /\ out # <<>> /\ out' = Tail(out)
        /\ Len(out) \in Nat /\ Len(out) > 0
    BY <1>1 DEF TypeOK, kprint
  <1>5. CASE NoReturnAhead
    <2>1. Len(out) # 1
      BY <1>4, <1>5 DEF NoReturnAhead, kprint
    <2>2. /\ Len(out') = Len(out) - 1 /\ out' \in Seq(Letters)
          /\ \A i \in 1 .. Len(out) - 1 : out'[i] = out[i + 1]
      BY <1>4
    <2>5. /\ Len(out) - 1 \in 1 .. Len(out) - 1 /\ Len(out) - 1 + 1 = Len(out)
          /\ Len(out') > 0
      BY <1>4, <2>1, <2>2
    <2>6. out'[Len(out')] = out[Len(out)] /\ out' # <<>>
      BY <2>2, <2>5, EmptySeq
    <2>3. NoReturnAhead'
      BY <1>5, <2>6 DEF NoReturnAhead
    <2>4. QED
      BY <1>2, <2>3 DEF LineInv, LineAhead
  <1>6. CASE NewPromptAhead
    <2>1. NewPromptAhead' \/ BackToLine(0, 0)'
      BY <1>1, <1>6, PromptAhead
    <2>2. 0 \in 0 .. Len(out') /\ 0 \in 0 .. Len(EditLine')
      BY <1>1, <1>3 DEF TypeOK
    <2>3. QED
      BY <1>2, <2>1, <2>2 DEF LineInv, LineAhead
  <1>7. ASSUME NEW n \in 0 .. Len(out), NEW k \in 0 .. Len(EditLine), BackToLine(n, k)
        PROVE  LineInv'
    <2>1. CASE n = 0
      <3>1. k < Len(EditLine) /\ BackToLine(0, k + 1)'
        BY <1>1, <1>7, <2>1, ShowAhead
      <3>2. 0 \in 0 .. Len(out') /\ k + 1 \in 0 .. Len(EditLine')
        BY <1>1, <1>3, <3>1 DEF TypeOK
      <3>3. QED
        BY <1>2, <3>1, <3>2 DEF LineInv, LineAhead
    <2>2. CASE n > 0
      <3>1. n \in 1 .. Len(out)
        BY <1>4, <2>2
      <3>2. BackToLine(n - 1, k)' /\ Len(out') = Len(out) - 1
        BY <1>1, <1>7, <3>1, EraseAhead
      <3>3. n - 1 \in 0 .. Len(out') /\ k \in 0 .. Len(EditLine')
        BY <1>3, <1>4, <3>1, <3>2
      <3>4. QED
        BY <1>2, <3>2, <3>3 DEF LineInv, LineAhead
    <2>3. QED
      BY <1>4, <2>1, <2>2
  <1>8. QED
    BY <1>5, <1>6, <1>7 DEF LineInv, LineAhead

-----------------------------------------------------------------------------
(* What the calls leave to be printed.                                     *)

\* A line that is typed fits the row.
LEMMA TypedFits ==
  ASSUME LinesFitRow, NEW l \in Seq(Printable), Typed(l)
  PROVE  Len(Prompt \o l) < VGA_WIDTH
  <1>1. PICK m \in Lines : Len(l) <= Len(m)
    BY DEF Typed
  <1>2. Len(Prompt) + Len(m) < VGA_WIDTH /\ Len(m) \in Nat
    BY ShellAssumption DEF LinesFitRow
  <1>3. Len(Prompt \o l) = 2 + Len(l) /\ Len(l) \in Nat
    BY EditLineFacts
  <1>4. QED
    BY <1>1, <1>2, <1>3, LineWords, TtyAssumption

LEMMA TypeAhead ==
  ASSUME IInv, LineInv, LinesFitRow, NEW c \in Printable, Type(c) PROVE LineInv'
  <1> DEFINE longer == Append(command_buffer, c)
  <1>0. PICK k : k = Len(EditLine)
    OBVIOUS
  <1>1. /\ out = <<>> /\ out' = <<c>> /\ tty' = tty /\ history' = history
        /\ command_buffer' = longer /\ Typed(longer)
    BY DEF Type
  <1>2. /\ TypeOK /\ command_buffer \in Seq(Printable) /\ longer \in Seq(Printable)
        /\ Len(longer) = Len(command_buffer) + 1
        /\ \A i \in 1 .. Len(command_buffer) : longer[i] = command_buffer[i]
        /\ longer[Len(command_buffer) + 1] = c
    <2>1. TypeOK /\ command_buffer \in Seq(Printable)
      BY DEF IInv, TypeOK
    <2>2. QED
      BY <2>1, AppendProperties
  <1> HIDE DEF longer
  <1>3. /\ k = 2 + Len(command_buffer) /\ Len(EditLine') = k + 1 /\ k \in Nat
        /\ \A i \in 1 .. k : EditLine'[i] = EditLine[i]
        /\ EditLine'[k + 1] = c
    <2>1. /\ k = 2 + Len(command_buffer) /\ Len(command_buffer) \in Nat
          /\ EditLine[1] = Prompt[1] /\ EditLine[2] = Prompt[2]
          /\ \A i \in 1 .. Len(command_buffer) : EditLine[i + 2] = command_buffer[i]
      BY <1>0, <1>2, EditLineFacts DEF EditLine
    <2>2. /\ Len(EditLine') = 2 + Len(longer)
          /\ EditLine'[1] = Prompt[1] /\ EditLine'[2] = Prompt[2]
          /\ \A i \in 1 .. Len(longer) : EditLine'[i + 2] = longer[i]
      BY <1>1, <1>2, EditLineFacts DEF EditLine
    <2>3. ASSUME NEW i \in 1 .. k PROVE EditLine'[i] = EditLine[i]
      <3>1. CASE i <= 2
        <4>1. i = 1 \/ i = 2
          BY <2>1, <3>1
        <4>2. QED
          BY <2>1, <2>2, <4>1
      <3>2. CASE i > 2
        <4>1. i - 2 \in 1 .. Len(command_buffer) /\ i - 2 + 2 = i
              /\ i - 2 \in 1 .. Len(longer)
          BY <1>2, <2>1, <3>2
        <4>2. EditLine'[i] = longer[i - 2] /\ EditLine[i] = command_buffer[i - 2]
          BY <2>1, <2>2, <4>1
        <4>3. QED
          BY <1>2, <4>1, <4>2
      <3>3. QED
        BY <2>1, <3>1, <3>2
    <2>4. EditLine'[k + 1] = c
      <3>1. Len(longer) \in 1 .. Len(longer) /\ Len(longer) + 2 = k + 1
        BY <1>2, <2>1
      <3>2. QED
        BY <1>2, <2>2, <3>1
    <2>5. k \in Nat
      BY <2>1
    <2>6. Len(EditLine') = k + 1
      BY <1>2, <2>1, <2>2
    <2>7. QED
      BY <2>1, <2>3, <2>4, <2>5, <2>6
  <1>4. Len(LineOf(tty)) = k /\ \A i \in 1 .. k : LineOf(tty)[i] = EditLine[i]
    BY <1>0, <1>1, <1>2, AtRest DEF LineInv
  <1>5. out' = [i \in 1 .. 0 + Len(EditLine') - k |->
                  IF i <= 0 THEN Backspace ELSE EditLine'[k + i - 0]]
    <2>1. 0 + Len(EditLine') - k = 1
      BY <1>3
    <2>2. \A i \in 1 .. 1 : ~(i <= 0) /\ k + i - 0 = k + 1
      BY <1>3
    <2>3. [i \in 1 .. 1 |-> IF i <= 0 THEN Backspace ELSE EditLine'[k + i - 0]]
            = [i \in 1 .. 1 |-> c]
      BY <1>3, <2>2
    <2>4. QED
      BY <1>1, <2>1, <2>3
  <1>6. BackToLine(0, k)'
    BY <1>1, <1>3, <1>4, <1>5 DEF BackToLine
  <1>7. LineAhead'
    <2>1. 0 \in 0 .. Len(out') /\ k \in 0 .. Len(EditLine')
      BY <1>1, <1>3
    <2>2. QED
      BY <1>6, <2>1 DEF LineAhead
  <1>8. FitRow'
    BY <1>1, <1>2, TypedFits DEF LineInv, FitRow, EditLine
  <1>9. QED
    BY <1>7, <1>8 DEF LineInv

\* The characters of the old line are erased and those of another shown.
LEMMA OtherLine ==
  ASSUME TypeOK, LineAhead, out = <<>>, NEW l \in Seq(Printable),
         NEW k \in 2 .. Len(EditLine), k <= 2 + Len(l),
         \A i \in 1 .. k - 2 : l[i] = command_buffer[i],
         command_buffer' = l, tty' = tty,
         out' = [i \in 1 .. Len(EditLine) - k + (2 + Len(l)) - k |->
                   IF i <= Len(EditLine) - k THEN Backspace
                   ELSE l[k - 2 + i - (Len(EditLine) - k)]]
  PROVE  LineAhead'
  <1> DEFINE len == Len(EditLine)
  <1>0. PICK n : n = Len(EditLine) - k
    OBVIOUS
  <1>1. /\ len = 2 + Len(command_buffer) /\ Len(command_buffer) \in Nat
        /\ EditLine[1] = Prompt[1] /\ EditLine[2] = Prompt[2]
        /\ \A i \in 1 .. Len(command_buffer) : EditLine[i + 2] = command_buffer[i]
    BY EditLineFacts DEF EditLine, TypeOK
  <1>2. /\ Len(EditLine') = 2 + Len(l) /\ Len(l) \in Nat
        /\ EditLine'[1] = Prompt[1] /\ EditLine'[2] = Prompt[2]
        /\ \A i \in 1 .. Len(l) : EditLine'[i + 2] = l[i]
    BY EditLineFacts DEF EditLine
  <1>3. Len(LineOf(tty)) = len /\ \A i \in 1 .. len : LineOf(tty)[i] = EditLine[i]
    BY AtRest
  <1>4. k \in Nat /\ k >= 2 /\ k <= len /\ n \in Nat /\ n + k = len
    BY <1>0, <1>1
  <1> HIDE DEF len
  <1>5. ASSUME NEW i \in 1 .. k PROVE LineOf(tty')[i] = EditLine'[i]
    <2>1. LineOf(tty')[i] = EditLine[i]
      BY <1>1, <1>3, <1>4
    <2>2. CASE i = 1 \/ i = 2
      BY <1>1, <1>2, <2>1, <2>2
    <2>3. CASE i > 2
      <3>1. /\ i - 2 \in 1 .. k - 2 /\ i - 2 \in 1 .. Len(command_buffer)
            /\ i - 2 \in 1 .. Len(l) /\ i - 2 + 2 = i
        BY <1>1, <1>2, <1>4, <2>3
      <3>2. EditLine[i] = command_buffer[i - 2] /\ EditLine'[i] = l[i - 2]
        BY <1>1, <1>2, <3>1
      <3>3. QED
        BY <2>1, <3>1, <3>2
    <2>4. i = 1 \/ i = 2 \/ i > 2
      BY <1>4
    <2>5. QED
      BY <2>2, <2>3, <2>4
  <1> DEFINE left == n + Len(EditLine') - k
  <1>6. left \in Nat /\ n <= left /\ left = n + (2 + Len(l)) - k
    BY <1>2, <1>4
  <1>7. ASSUME NEW i \in 1 .. left, ~(i <= n)
        PROVE  l[k - 2 + i - n] = EditLine'[k + i - n]
    <2>1. k - 2 + i - n \in 1 .. Len(l) /\ k - 2 + i - n + 2 = k + i - n
      BY <1>2, <1>4, <1>6, <1>7
    <2>2. QED
      BY <1>2, <2>1
  <1>8. out' = [i \in 1 .. left |-> IF i <= n THEN Backspace ELSE EditLine'[k + i - n]]
    <2>1. out' = [i \in 1 .. left |-> IF i <= n THEN Backspace ELSE l[k - 2 + i - n]]
      BY <1>0, <1>6
    <2> HIDE DEF left
    <2>2. QED
      BY <1>7, <2>1
  <1> HIDE DEF left
  <1>9. Len(out') = left
    BY <1>6, <1>8
  <1>10. BackToLine(n, k)'
    <2>1. n > 0 => k >= Len(Prompt)
      BY <1>4, LineWords
    <2>2. Len(LineOf(tty')) = k + n
      BY <1>3, <1>4
    <2>3. QED
      BY <1>5, <1>8, <2>1, <2>2 DEF BackToLine, left
  <1>11. n \in 0 .. Len(out') /\ k \in 0 .. Len(EditLine')
    BY <1>2, <1>4, <1>6, <1>9
  <1>12. QED
    BY <1>10, <1>11 DEF LineAhead

LEMMA RuboutAhead == ASSUME IInv, LineInv, Rubout PROVE LineInv'
  <1> DEFINE l == SubSeq(command_buffer, 1, Len(command_buffer) - 1)
  <1>1. /\ TypeOK /\ command_buffer \in Seq(Printable) /\ Len(command_buffer) \in Nat
        /\ Len(command_buffer) > 0
    BY HistoryFacts DEF IInv, Rubout
  <1>2. /\ out = <<>> /\ out' = <<Backspace>> /\ tty' = tty /\ history' = history
        /\ command_buffer' = l
    BY DEF Rubout
  <1>3. /\ l \in Seq(Printable) /\ Len(l) = Len(command_buffer) - 1
        /\ \A i \in 1 .. Len(l) : l[i] = command_buffer[i]
    <2>1. l = [i \in 1 .. Len(command_buffer) - 1 |-> command_buffer[i]]
      BY <1>1
    <2>2. Len(command_buffer) - 1 \in Nat
          /\ \A i \in 1 .. Len(command_buffer) - 1 : command_buffer[i] \in Printable
      BY <1>1
    <2> DEFINE m == Len(command_buffer) - 1
    <2> HIDE DEF l, m
    <2>3. l \in Seq(Printable) /\ Len(l) = m /\ \A i \in 1 .. m : l[i] = command_buffer[i]
      BY <2>1, <2>2 DEF m
    <2>4. QED
      BY <2>3 DEF m
  <1> HIDE DEF l
  <1>4. Len(EditLine) = 2 + Len(command_buffer)
    BY <1>1, EditLineFacts DEF EditLine
  <1> DEFINE k == Len(EditLine) - 1
  <1>5. k \in 2 .. Len(EditLine) /\ k <= 2 + Len(l) /\ k - 2 = Len(l)
    BY <1>1, <1>3, <1>4
  <1>6. Len(EditLine) - k = 1 /\ Len(EditLine) - k + (2 + Len(l)) - k = 1
    BY <1>1, <1>3, <1>4
  <1>7. out' = [i \in 1 .. Len(EditLine) - k + (2 + Len(l)) - k |->
                  IF i <= Len(EditLine) - k THEN Backspace
                  ELSE l[k - 2 + i - (Len(EditLine) - k)]]
    <2> HIDE DEF k
    <2>1. [i \in 1 .. 1 |-> IF i <= 1 THEN Backspace ELSE l[k - 2 + i - 1]]
            = [i \in 1 .. 1 |-> Backspace]
      OBVIOUS
    <2>2. QED
      BY <1>2, <1>6, <2>1
  <1> HIDE DEF k
  <1>8. LineAhead'
    BY <1>1, <1>2, <1>3, <1>5, <1>7, OtherLine DEF LineInv
  <1>9. FitRow'
    <2>1. Len(EditLine') = 2 + Len(l)
      BY <1>2, <1>3, EditLineFacts DEF EditLine
    <2>2. Len(EditLine) < VGA_WIDTH
      BY DEF LineInv, FitRow
    <2>3. Len(EditLine') < VGA_WIDTH
      BY <1>1, <1>3, <1>4, <2>1, <2>2, TtyAssumption
    <2>4. QED
      BY <1>2, <2>3 DEF LineInv, FitRow
  <1>10. QED
    BY <1>8, <1>9 DEF LineInv

LEMMA ReplaceAhead ==
  ASSUME IInv, LineInv, out = <<>>, NEW l \in Seq(Printable), ReplaceLine(l),
         Len(Prompt) + Len(l) < VGA_WIDTH
  PROVE  LineInv'
  <1>1. TypeOK /\ command_buffer \in Seq(Printable) /\ Len(command_buffer) \in Nat
    BY DEF IInv, TypeOK
  <1>2. /\ out' = Backspaces(Len(command_buffer)) \o l /\ tty' = tty
        /\ history' = history /\ command_buffer' = l
    BY DEF ReplaceLine
  <1>3. Len(EditLine) = 2 + Len(command_buffer) /\ Len(l) \in Nat
    BY <1>1, EditLineFacts DEF EditLine
  <1> DEFINE n == Len(command_buffer)
  <1>4. 2 \in 2 .. Len(EditLine) /\ 2 <= 2 + Len(l) /\ Len(EditLine) - 2 = n
        /\ Len(EditLine) - 2 + (2 + Len(l)) - 2 = n + Len(l)
    BY <1>1, <1>3
  <1>5. out' = [i \in 1 .. n + Len(l) |-> IF i <= n THEN Backspace ELSE l[i - n]]
    <2>1. Backspaces(n) \in Seq(Letters) /\ Len(Backspaces(n)) = n
          /\ \A i \in 1 .. n : Backspaces(n)[i] = Backspace
      BY <1>1, Letterwise DEF Backspaces
    <2>2. l \in Seq(Letters)
      BY Letterwise
    <2> HIDE DEF n
    <2>3. Backspaces(n) \o l = [i \in 1 .. n + Len(l) |->
                                  IF i <= n THEN Backspaces(n)[i] ELSE l[i - n]]
      <3>1. Backspaces(n) \o l \in Seq(Letters) /\ Len(Backspaces(n) \o l) = n + Len(l)
            /\ \A i \in 1 .. n + Len(l) : (Backspaces(n) \o l)[i] =
                 IF i <= n THEN Backspaces(n)[i] ELSE l[i - n]
        <4>1. n \in Nat /\ Len(l) \in Nat
          BY <1>1, <1>3 DEF n
        <4> DEFINE bs == Backspaces(n)
        <4>2. bs \in Seq(Letters) /\ Len(bs) = n
          BY <2>1
        <4> HIDE DEF bs
        <4>3. /\ bs \o l \in Seq(Letters) /\ Len(bs \o l) = Len(bs) + Len(l)
              /\ \A i \in 1 .. Len(bs) + Len(l) :
                   (bs \o l)[i] = IF i <= Len(bs) THEN bs[i] ELSE l[i - Len(bs)]
          BY <2>2, <4>2, ConcatProperties
        <4>4. QED
          BY <4>2, <4>3 DEF bs
      <3>2. Backspaces(n) \o l = [i \in 1 .. n + Len(l) |-> (Backspaces(n) \o l)[i]]
        BY <3>1, LenProperties
      <3>3. QED
        BY <3>1, <3>2
    <2>4. \A i \in 1 .. n + Len(l) : i <= n => i \in 1 .. n
      OBVIOUS
    <2>5. QED
      BY <1>2, <2>1, <2>3, <2>4 DEF n
  <1> HIDE DEF n
  <1>6. out' = [i \in 1 .. Len(EditLine) - 2 + (2 + Len(l)) - 2 |->
                  IF i <= Len(EditLine) - 2 THEN Backspace
                  ELSE l[2 - 2 + i - (Len(EditLine) - 2)]]
    <2>1. n \in Nat
      BY <1>1 DEF n
    <2>2. \A i \in 1 .. n + Len(l) : 2 - 2 + i - n = i - n
      BY <1>3, <2>1
    <2>3. [i \in 1 .. n + Len(l) |-> IF i <= n THEN Backspace ELSE l[2 - 2 + i - n]]
            = [i \in 1 .. n + Len(l) |-> IF i <= n THEN Backspace ELSE l[i - n]]
      BY <2>2
    <2>4. QED
      BY <1>4, <1>5, <2>3
  <1>7. \A i \in 1 .. 2 - 2 : l[i] = command_buffer[i]
    OBVIOUS
  <1>8. LineAhead'
    BY <1>1, <1>2, <1>4, <1>6, <1>7, OtherLine DEF LineInv
  <1>9. FitRow'
    <2>1. Len(EditLine') = 2 + Len(l)
      BY <1>2, EditLineFacts DEF EditLine
    <2>2. QED
      BY <1>2, <2>1, LineWords DEF LineInv, FitRow
  <1>10. QED
    BY <1>8, <1>9 DEF LineInv

LEMMA HistoryAhead ==
  ASSUME IInv, LineInv, PromptErasable, Len(Prompt) < VGA_WIDTH,
         handle_history_up \/ handle_history_down
  PROVE  LineInv'
  <1>1. TypeOK /\ out = <<>>
    BY DEF IInv, handle_history_up, handle_history_down
  <1>2. ASSUME NEW i \in 1 .. Len(history), ReplaceLine(history[i]) PROVE LineInv'
    <2>1. history[i] \in Seq(Printable)
      BY <1>1, HistoryFacts
    <2>2. Len(Prompt) + Len(history[i]) < VGA_WIDTH
      BY DEF LineInv, FitRow
    <2>3. QED
      BY <1>1, <1>2, <2>1, <2>2, ReplaceAhead
  <1>3. CASE handle_history_up
    <2>1. history # <<>> /\ ReplaceLine(history[history_index' + 1])
      BY <1>3 DEF handle_history_up
    <2>2. history_index' \in 0 .. Len(history) - 1
      BY <1>1, <1>3, <2>1, HistoryFacts DEF handle_history_up
    <2>3. history_index' + 1 \in 1 .. Len(history)
      <3> DEFINE i == history_index' m == Len(history)
      <3>1. m \in Nat /\ i \in 0 .. m - 1
        BY <1>1, <2>2, HistoryFacts
      <3> HIDE DEF i, m
      <3>2. i + 1 \in 1 .. m
        BY <3>1
      <3>3. QED
        BY <3>2 DEF i, m
    <2>4. QED
      BY <1>2, <2>1, <2>3
  <1>4. CASE handle_history_down
    <2>1. CASE history_index + 1 < Len(history)
      <3>1. history_index' = history_index + 1 /\ ReplaceLine(history[history_index' + 1])
        BY <1>4, <2>1 DEF handle_history_down
      <3>2. history_index' + 1 \in 1 .. Len(history)
        BY <1>1, <1>4, <2>1, <3>1, HistoryFacts DEF handle_history_down
      <3>3. QED
        BY <1>2, <3>1, <3>2
    <2>2. CASE ~(history_index + 1 < Len(history))
      <3>1. ReplaceLine(<<>>)
        BY <1>4, <2>2 DEF handle_history_down
      <3>2. <<>> \in Seq(Printable) /\ Len(Prompt) + Len(<<>>) < VGA_WIDTH
        BY LineWords
      <3>3. QED
        BY <1>1, <3>1, <3>2, ReplaceAhead
    <2>3. QED
      BY <2>1, <2>2
  <1>5. QED
    BY <1>3, <1>4

\* A text that a new prompt can follow.
EndsLine(text) == text = <<>> \/ text[Len(text)] \in {Newline, ClearScreen}

\* Behind a newline and such a text the prompt is at the start of a row.
LEMMA PromptBehind ==
  ASSUME NEW text \in Seq(Letters), EndsLine(text), command_buffer' = <<>>,
         out' = <<Newline>> \o (text \o Prompt)
  PROVE  NewPromptAhead'
  <1> DEFINE tail == text \o Prompt
  <1>1. /\ Prompt \in Seq(Letters) /\ Len(Prompt) = 2
        /\ <<Newline>> \in Seq(Letters) /\ Len(<<Newline>>) = 1
        /\ Len(text) \in Nat
    BY Letterwise, LineWords
  <1>2. /\ tail \in Seq(Letters) /\ Len(tail) = Len(text) + 2
        /\ \A i \in 1 .. Len(text) + 2 :
             tail[i] = IF i <= Len(text) THEN text[i] ELSE Prompt[i - Len(text)]
    <2>1. /\ tail \in Seq(Letters) /\ Len(tail) = Len(text) + Len(Prompt)
          /\ \A i \in 1 .. Len(text) + Len(Prompt) :
               tail[i] = IF i <= Len(text) THEN text[i] ELSE Prompt[i - Len(text)]
      BY <1>1, ConcatProperties
    <2> HIDE DEF tail
    <2>2. QED
      BY <1>1, <2>1
  <1> HIDE DEF tail
  <1>3. /\ Len(out') = Len(text) + 3 /\ out'[1] = Newline
        /\ \A i \in 2 .. Len(text) + 3 : out'[i] = tail[i - 1]
    <2>1. /\ Len(<<Newline>> \o tail) = 1 + Len(tail)
          /\ \A i \in 1 .. 1 + Len(tail) :
               (<<Newline>> \o tail)[i] = IF i <= 1 THEN Newline ELSE tail[i - 1]
      <3>1. <<Newline>>[1] = Newline
        OBVIOUS
      <3>2. \A i \in 1 .. 1 + Len(tail) : i <= 1 => i = 1
        BY <1>1, <1>2
      <3>3. QED
        BY <1>1, <1>2, <3>1, <3>2, ConcatProperties
    <2>2. out' = <<Newline>> \o tail
      BY DEF tail
    <2>3. QED
      BY <1>1, <1>2, <2>1, <2>2
  <1>4. out'[Len(text) + 1] \in {Newline, ClearScreen}
    <2>1. CASE text = <<>>
      <3>1. Len(text) + 1 = 1
        BY <2>1
      <3>2. QED
        BY <1>3, <3>1
    <2>2. CASE text # <<>>
      <3>1. Len(text) > 0
        BY <1>1, <2>2, EmptySeq
      <3>2. out'[Len(text) + 1] = tail[Len(text)] /\ tail[Len(text)] = text[Len(text)]
        BY <1>1, <1>2, <1>3, <3>1
      <3>3. QED
        BY <2>2, <3>2 DEF EndsLine
    <2>3. QED
      BY <2>1, <2>2
  <1>5. out'[Len(text) + 2] = Prompt[1] /\ out'[Len(text) + 3] = Prompt[2]
    <2>1. out'[Len(text) + 2] = tail[Len(text) + 1]
          /\ out'[Len(text) + 3] = tail[Len(text) + 2]
      BY <1>1, <1>3
    <2>2. tail[Len(text) + 1] = Prompt[1] /\ tail[Len(text) + 2] = Prompt[2]
      BY <1>1, <1>2
    <2>3. QED
      BY <2>1, <2>2
  <1>6. Len(out') - 2 = Len(text) + 1 /\ Len(text) + 1 > 0
        /\ Len(text) + 1 + 1 = Len(text) + 2 /\ Len(text) + 1 + 2 = Len(text) + 3
    BY <1>1, <1>3
  <1>7. QED
    BY <1>4, <1>5, <1>6 DEF NewPromptAhead

\* What each command prints ends the line, or the machine.
LEMMA CommandEnds ==
  ASSUME TypeOK,
         CmdHelp \/ CmdPlain \/ CmdClear \/ CmdName \/ CmdWrite \/ CmdShutdown
           \/ CmdAlloc \/ CmdDealloc \/ CmdUnknown
  PROVE  \/ \E text \in Seq(Letters) : EndsLine(text) /\ Process(text)
         \/ \E text \in Seq(Letters) : Save(text \o <<PowerOff>>)
  <1> DEFINE Ends == \E text \in Seq(Letters) : EndsLine(text) /\ Process(text)
  <1>1. ASSUME \E text \in Replies : Process(text) PROVE Ends
    <2>1. PICK text \in Replies : Process(text)
      BY <1>1
    <2>2. text \in Seq(Letters) /\ EndsLine(text)
      BY Letterwise, ShellAssumption DEF EndsLine
    <2>3. QED
      BY <2>1, <2>2
  <1>2. ASSUME NEW callee, Answer(callee) PROVE Ends
    BY <1>1, <1>2 DEF Answer
  <1>3. CASE CmdHelp
    BY <1>2, <1>3 DEF CmdHelp
  <1>4. CASE CmdPlain
    BY <1>2, <1>4 DEF CmdPlain
  <1>5. CASE CmdClear
    <2>1. EndsLine(<<ClearScreen>>)
      BY DEF EndsLine
    <2>2. QED
      BY <1>5, <2>1, Letterwise DEF CmdClear
  <1>6. CASE CmdName
    BY <1>2, <1>6 DEF CmdName
  <1>7. CASE CmdWrite
    BY <1>2, <1>7 DEF CmdWrite
  <1>8. CASE CmdShutdown
    BY <1>8, Letterwise DEF CmdShutdown
  <1>9. CASE CmdAlloc
    <2>1. EndsLine(<<>>)
      BY DEF EndsLine
    <2>2. QED
      BY <1>1, <1>9, <2>1, Letterwise DEF CmdAlloc
  <1>10. CASE CmdDealloc
    BY <1>1, <1>10 DEF CmdDealloc
  <1>11. CASE CmdUnknown
    <2> DEFINE text == command_buffer \o <<Newline>>
    <2>1. command_buffer \in Seq(Letters) /\ <<Newline>> \in Seq(Letters)
      BY Letterwise DEF TypeOK
    <2>2. text \in Seq(Letters) /\ Len(text) = Len(command_buffer) + 1
          /\ text[Len(command_buffer) + 1] = Newline
      <3>1. Len(<<Newline>>) = 1 /\ <<Newline>>[1] = Newline /\ Len(command_buffer) \in Nat
        BY <2>1
      <3>2. QED
        BY <2>1, <3>1, ConcatProperties
    <2>3. EndsLine(text)
      BY <2>2 DEF EndsLine
    <2>4. QED
      BY <1>11, <2>2, <2>3 DEF CmdUnknown
  <1>12. QED
    BY <1>3, <1>4, <1>5, <1>6, <1>7, <1>8, <1>9, <1>10, <1>11

\* The last that a command prints is the prompt, or it switches the machine off.
LEMMA LastPrinted ==
  ASSUME TypeOK,
         CmdHelp \/ CmdPlain \/ CmdClear \/ CmdName \/ CmdWrite \/ CmdShutdown
           \/ CmdAlloc \/ CmdDealloc \/ CmdUnknown
  PROVE  out'[Len(out')] # StackOverrun
  <1>1. \/ \E text \in Seq(Letters) : Process(text)
        \/ \E text \in Seq(Letters) : Save(text \o <<PowerOff>>)
    BY CommandEnds
  <1>2. PICK body \in Seq(Letters), tail \in Seq(Letters) :
          /\ out' = body \o tail /\ Len(tail) > 0 /\ tail[Len(tail)] # StackOverrun
    <2>1. ASSUME NEW text \in Seq(Letters), NEW tail \in Seq(Letters), Save(text \o tail)
          PROVE  out' = (<<Newline>> \o text) \o tail /\ <<Newline>> \o text \in Seq(Letters)
      <3>1. out' = <<Newline>> \o (text \o tail) /\ <<Newline>> \in Seq(Letters)
        BY <2>1, Letterwise DEF Save
      <3>2. QED
        BY <3>1, ConcatAssociative, ConcatProperties
    <2>2. Len(Prompt) = 2 /\ Prompt[2] # StackOverrun /\ Prompt \in Seq(Letters)
      <3>1. Blank \in Printable /\ StackOverrun \in NoReturn
        BY DEF Printable, NoReturn
      <3>2. QED
        BY <3>1, LineWords, Letterwise
    <2>3. /\ Len(<<PowerOff>>) = 1 /\ <<PowerOff>>[1] # StackOverrun
          /\ <<PowerOff>> \in Seq(Letters)
      BY LineWords, Letterwise
    <2>4. CASE \E text \in Seq(Letters) : Process(text)
      <3> PICK text \in Seq(Letters) : Save(text \o Prompt)
        BY <2>4 DEF Process
      <3>1. out' = (<<Newline>> \o text) \o Prompt /\ <<Newline>> \o text \in Seq(Letters)
        BY <2>1, <2>2
      <3> DEFINE body == <<Newline>> \o text
      <3> HIDE DEF body
      <3>2. out' = body \o Prompt /\ body \in Seq(Letters)
        BY <3>1 DEF body
      <3>3. Len(Prompt) > 0 /\ Prompt[Len(Prompt)] # StackOverrun /\ Prompt \in Seq(Letters)
        BY <2>2
      <3>4. QED
        BY <3>2, <3>3, Zenon
    <2>5. CASE \E text \in Seq(Letters) : Save(text \o <<PowerOff>>)
      <3> PICK text \in Seq(Letters) : Save(text \o <<PowerOff>>)
        BY <2>5
      <3> DEFINE tail == <<PowerOff>>
      <3>1. Len(tail) = 1 /\ tail[1] # StackOverrun /\ tail \in Seq(Letters)
        BY <2>3
      <3>2. Save(text \o tail)
        OBVIOUS
      <3> HIDE DEF tail
      <3>3. out' = (<<Newline>> \o text) \o tail /\ <<Newline>> \o text \in Seq(Letters)
        BY <2>1, <3>1, <3>2
      <3> DEFINE body == <<Newline>> \o text
      <3> HIDE DEF body
      <3>4. out' = body \o tail /\ body \in Seq(Letters)
        BY <3>3 DEF body
      <3>5. Len(tail) > 0 /\ tail[Len(tail)] # StackOverrun
        BY <3>1
      <3>6. QED
        BY <3>1, <3>4, <3>5, Zenon
    <2>6. QED
      BY <1>1, <2>4, <2>5
  <1>3. Len(out') = Len(body) + Len(tail) /\ out'[Len(body) + Len(tail)] = tail[Len(tail)]
    BY <1>2, ConcatProperties
  <1>4. QED
    BY <1>2, <1>3

\* A copy runs over its array only if the line is at least as long as the array.
LEMMA OverrunContained == ASSUME IInv, Overrun PROVE Contained
  <1>1. command_buffer \in Seq(Printable) /\ Len(command_buffer) \in Nat
    BY DEF IInv, TypeOK
  <1>2. /\ Command.cmd \in Seq(Printable) /\ Len(Command.cmd) <= Len(command_buffer)
        /\ Command.arg \in Seq(Printable) /\ Len(Command.arg) <= Len(command_buffer)
    BY <1>1, ParseShorter DEF Command
  <1>3. /\ File.cmd \in Seq(Printable) /\ Len(File.cmd) <= Len(Command.arg)
        /\ File.arg \in Seq(Printable) /\ Len(File.arg) <= Len(Command.arg)
    BY <1>2, ParseShorter DEF File
  <1>4. /\ Len(Command.cmd) \in Nat /\ Len(Command.arg) \in Nat
        /\ Len(File.cmd) \in Nat /\ Len(File.arg) \in Nat
    BY <1>2, <1>3
  <1>5. /\ CMD_SIZE \in Nat /\ ARG_SIZE \in Nat
        /\ FILENAME_SIZE \in Nat /\ CONTENT_SIZE \in Nat
    BY ShellAssumption
  <1>6. \/ ~(Len(Command.cmd) < CMD_SIZE) \/ ~(Len(Command.arg) < ARG_SIZE)
        \/ ~(Len(File.cmd) < FILENAME_SIZE) \/ ~(Len(File.arg) < CONTENT_SIZE)
    BY DEF Overrun, CommandFits, FileFits, Fits
  <1>7. QED
    BY <1>1, <1>2, <1>3, <1>4, <1>5, <1>6 DEF Contained

LEMMA CallStep ==
  IInv /\ [Next]_vars =>
    [process_command /\ command_buffer # <<>> => Faithful /\ Contained]_vars
  <1> SUFFICES ASSUME IInv, process_command, command_buffer # <<>>
               PROVE  Faithful /\ Contained
    BY DEF vars
  <1>1. ~EmptyLine /\ TypeOK
    BY DEF EmptyLine, IInv
  <1>2. Faithful
    <2>1. CASE CmdName
      BY <2>1, NameFaithful
    <2>2. CASE CmdWrite
      BY <2>2, WriteFaithful
    <2>3. CASE called' = <<>> \/ called'[1] \notin OfAName \cup {"write"}
      BY <2>3 DEF Faithful
    <2>4. CASE Overrun \/ CmdHelp \/ CmdUnknown
      BY <2>3, <2>4 DEF Overrun, CmdHelp, CmdUnknown, Answer
    <2>5. CASE CmdPlain
      BY <2>3, <2>5 DEF CmdPlain, Answer, OfOneWord, OfAName
    <2>6. CASE CmdClear \/ CmdShutdown
      BY <2>3, <2>6 DEF CmdClear, CmdShutdown, OfAName
    <2>7. CASE CmdAlloc \/ CmdDealloc
      BY <2>3, <2>7 DEF CmdAlloc, CmdDealloc, OfAName
    <2>8. QED
      BY <1>1, <2>1, <2>2, <2>4, <2>5, <2>6, <2>7 DEF process_command
  <1>3. Contained
    <2>1. CASE Overrun
      BY <2>1, OverrunContained
    <2>2. CASE ~Overrun
      BY <1>1, <2>2, LastPrinted DEF process_command, Contained
    <2>3. QED
      BY <2>1, <2>2
  <1>4. QED
    BY <1>2, <1>3

\* A command on files passes on its arguments as they were typed, and only if they
\* fit their arrays, and a line shorter than each of the arrays is copied within
\* them; for every spelling of the commands and every size of the arrays
\* (shell.c:62-71, 131 and 173-200).
THEOREM PassesArguments == Spec => CallsAsTyped
  BY Invariance, CallStep, PTL DEF Spec, CallsAsTyped, Faithful, Contained

\* The line that is saved fitted the row.
LEMMA SavedFits ==
  ASSUME TypeOK, FitRow, command_buffer # <<>>, history' = Saved(command_buffer),
         command_buffer' = <<>>, Len(Prompt) < VGA_WIDTH
  PROVE  FitRow'
  <1>1. /\ HISTORY_MAX \in Nat \ {0} /\ history \in Seq(Seq(Printable))
        /\ Len(history) <= HISTORY_MAX /\ command_buffer \in Seq(Printable)
        /\ Len(history) \in Nat
    BY ShellAssumption DEF TypeOK
  <1>2. Len(Prompt) + Len(command_buffer) < VGA_WIDTH
    BY <1>1, EditLineFacts, LineWords DEF FitRow, EditLine
  <1>3. \A i \in 1 .. Len(history') : Len(Prompt) + Len(history'[i]) < VGA_WIDTH
    <2>1. CASE Len(history) < HISTORY_MAX
      <3>1. history' = [j \in 1 .. Len(history) + 1 |->
                          IF j <= Len(history) THEN history[j] ELSE command_buffer]
        BY <1>1, <2>1, AppendIs DEF Saved
      <3>2. Len(history') = Len(history) + 1
        BY <1>1, <3>1
      <3>3. QED
        BY <1>1, <1>2, <3>1, <3>2 DEF FitRow
    <2>2. CASE ~(Len(history) < HISTORY_MAX)
      <3>1. Len(history) = HISTORY_MAX
        BY <1>1, <2>2
      <3>2. history' = [i \in 1 .. HISTORY_MAX |->
                          IF i < HISTORY_MAX THEN history[i + 1] ELSE command_buffer]
        BY <2>2 DEF Saved
      <3>3. Len(history') = HISTORY_MAX
        BY <1>1, <3>2
      <3>4. \A i \in 1 .. HISTORY_MAX : i < HISTORY_MAX => i + 1 \in 1 .. Len(history)
        BY <1>1, <3>1
      <3>5. QED
        BY <1>2, <3>2, <3>3, <3>4 DEF FitRow
    <2>3. QED
      BY <2>1, <2>2
  <1>4. Len(EditLine') = 2
    <2>1. <<>> \in Seq(Printable) /\ Len(<<>>) = 0
      BY EmptySeq
    <2>2. Len(Prompt \o <<>>) = 2 + Len(<<>>)
      BY <2>1, EditLineFacts
    <2>3. QED
      BY <2>1, <2>2 DEF EditLine
  <1>5. QED
    BY <1>3, <1>4, LineWords DEF FitRow

LEMMA CommandAhead ==
  ASSUME IInv, LineInv, process_command, Len(Prompt) < VGA_WIDTH PROVE LineInv'
  <1>1. TypeOK /\ FitRow
    BY DEF IInv, LineInv
  <1>2. CASE EmptyLine
    <2>1. command_buffer' = <<>> /\ history' = history /\ out' = <<Newline>> \o Prompt
          /\ command_buffer' = command_buffer
      BY <1>2 DEF EmptyLine, lineVars
    <2>2. <<>> \o Prompt = Prompt /\ <<>> \in Seq(Letters) /\ EndsLine(<<>>)
      BY LineWords, Letterwise DEF EndsLine
    <2>3. NewPromptAhead'
      BY <2>1, <2>2, PromptBehind
    <2>4. FitRow'
      BY <1>1, <2>1 DEF FitRow, EditLine
    <2>5. QED
      BY <2>3, <2>4 DEF LineInv, LineAhead
  <1>3. CASE ~EmptyLine
    <2>1. \/ \E text \in Seq(Letters) : EndsLine(text) /\ Process(text)
          \/ \E text \in Seq(Letters), w \in NoReturn : Save(text \o <<w>>)
      <3>1. CASE Overrun
        <4>1. <<StackOverrun>> \in Seq(Letters) /\ <<>> \o <<StackOverrun>> = <<StackOverrun>>
              /\ <<>> \in Seq(Letters) /\ StackOverrun \in NoReturn
          BY Letterwise DEF NoReturn
        <4>2. QED
          BY <3>1, <4>1 DEF Overrun
      <3>2. CASE ~Overrun
        BY <1>1, <1>3, <3>2, CommandEnds DEF process_command, NoReturn
      <3>3. QED
        BY <3>1, <3>2
    <2>2. ASSUME NEW text, Save(text) PROVE FitRow'
      <3>1. /\ command_buffer # <<>> /\ history' = Saved(command_buffer)
            /\ command_buffer' = <<>>
        BY <2>2 DEF Save
      <3>2. QED
        BY <1>1, <3>1, SavedFits
    <2>3. ASSUME NEW text \in Seq(Letters), EndsLine(text), Process(text)
          PROVE  LineInv'
      <3>1. Save(text \o Prompt)
        BY <2>3 DEF Process
      <3>2. command_buffer' = <<>> /\ out' = <<Newline>> \o (text \o Prompt)
        BY <3>1 DEF Save
      <3>3. NewPromptAhead'
        BY <2>3, <3>2, PromptBehind
      <3>4. QED
        BY <2>2, <3>1, <3>3 DEF LineInv, LineAhead
    <2>4. ASSUME NEW text \in Seq(Letters), NEW w \in NoReturn, Save(text \o <<w>>)
          PROVE  LineInv'
      <3> DEFINE body == <<Newline>> \o text
      <3>1. out' = <<Newline>> \o (text \o <<w>>)
        BY <2>4 DEF Save
      <3>2. <<Newline>> \in Seq(Letters) /\ <<w>> \in Seq(Letters)
        BY Letterwise DEF Letters
      <3>3. body \in Seq(Letters) /\ out' = body \o <<w>>
        BY <3>1, <3>2, ConcatAssociative
      <3> HIDE DEF body
      <3>4. Len(<<w>>) = 1 /\ <<w>>[1] = w /\ Len(body) \in Nat
        BY <3>3
      <3>5. /\ Len(out') = Len(body) + 1 /\ out' \in Seq(Letters)
            /\ out'[Len(body) + 1] = w
        BY <3>2, <3>3, <3>4, ConcatProperties
      <3>6. NoReturnAhead'
        BY <3>4, <3>5, EmptySeq DEF NoReturnAhead
      <3>7. QED
        BY <2>2, <2>4, <3>6 DEF LineInv, LineAhead
    <2>5. QED
      BY <2>1, <2>3, <2>4
  <1>4. QED
    BY <1>2, <1>3

\* Every step keeps what is still to print in line with the line.
LEMMA StepAhead ==
  ASSUME LinesFitRow, PromptErasable
  PROVE  IInv /\ LineInv /\ [Next]_vars => LineInv'
  <1> SUFFICES ASSUME IInv, LineInv, [Next]_vars PROVE LineInv'
    OBVIOUS
  <1>0. Len(Prompt) < VGA_WIDTH
    BY LineWords DEF LinesFitRow
  <1>1. CASE kprint
    BY <1>1, kprintAhead
  <1>2. CASE User
    BY <1>2, TypeAhead, RuboutAhead DEF User
  <1>3. CASE handle_history_up \/ handle_history_down
    BY <1>0, <1>3, HistoryAhead
  <1>4. CASE process_command
    BY <1>0, <1>4, CommandAhead
  <1>5. CASE UNCHANGED vars
    BY <1>5 DEF vars, lineVars, LineInv, FitRow, LineAhead, NoReturnAhead, NoReturn,
                NewPromptAhead, BackToLine, EditLine
  <1>6. QED
    BY <1>1, <1>2, <1>3, <1>4, <1>5 DEF Next

\* When all is printed the cursor's row shows the prompt and the line in the
\* buffer, whatever was typed, erased, recalled and entered, and however the
\* screen scrolled; for every screen that is wide enough for the lines, and
\* every margin that leaves the line to be erased (shell.c:82-129, tty.c:27-72).
THEOREM ShowsTheLine ==
  ASSUME LinesFitRow, PromptErasable
  PROVE  Spec => []LineShown
  <1>1. Init => LineInv
    BY LineInvInit
  <1>2. IInv /\ LineInv /\ [Next]_vars => LineInv'
    BY StepAhead
  <1>3. IInv /\ LineInv => LineShown
    BY LineAheadShows DEF IInv, LineInv
  <1>4. QED
    BY <1>1, <1>2, <1>3, Invariance, PTL DEF Spec
===============================================================================
