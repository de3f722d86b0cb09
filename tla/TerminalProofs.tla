---------------------------- MODULE TerminalProofs ----------------------------
(***************************************************************************)
(* Proofs about Terminal, for every size of screen and of input line: what *)
(* terminal_write_line does to a screen is the lemma WriteLine, and all    *)
(* the rest follows from it.                                               *)
(***************************************************************************)
EXTENDS Terminal, SequenceTheorems, TLAPS

\* A screen as TypeOK and BlankBelow describe it.
Sound(s) ==
  /\ s = Screen(s.rows, s.cursor)
  /\ s.rows = [r \in RowSet |-> s.rows[r]]
  /\ s.cursor \in 0 .. TERM_ROWS
  /\ \A r \in RowSet : r >= s.cursor <=> s.rows[r] = NoText

\* The lines a screen shows.
Lines(s) == [i \in 1 .. s.cursor |-> s.rows[i - 1]]

\* Append on a sequence given by its elements.
LEMMA AppendTo ==
  ASSUME NEW n \in Nat, NEW f, NEW text
  PROVE  /\ Append([i \in 1 .. n |-> f[i - 1]], text)
               = [i \in 1 .. n + 1 |-> IF i = n + 1 THEN text ELSE f[i - 1]]
         /\ Len(Append([i \in 1 .. n |-> f[i - 1]], text)) = n + 1
<1> DEFINE l == [i \in 1 .. n |-> f[i - 1]]
           T == {f[i - 1] : i \in 1 .. n}
           a == Append(l, text)
<1>1. l \in [1 .. n -> T]
  OBVIOUS
<1>2. l \in Seq(T) /\ Len(l) = n
  <2>1. l \in Seq(T)
    BY <1>1, SeqDef, Zenon
  <2>2. Len(l) = n
    OBVIOUS
  <2> QED BY <2>1, <2>2
<1> HIDE DEF T
<1>3. a = [i \in 1 .. n + 1 |-> IF i = n + 1 THEN text ELSE l[i]] /\ Len(a) = n + 1
  BY <1>2
<1>4. \A i \in 1 .. n : l[i] = f[i - 1]
  OBVIOUS
<1>5. a = [i \in 1 .. n + 1 |-> IF i = n + 1 THEN text ELSE f[i - 1]]
  <2>1. \A i \in 1 .. n + 1 : (IF i = n + 1 THEN text ELSE l[i])
                              = (IF i = n + 1 THEN text ELSE f[i - 1])
    BY <1>4
  <2> QED BY <1>3, <2>1
<1> QED BY <1>3, <1>5

LEMMA SubSeqFrom2 ==
  ASSUME NEW a, NEW m \in Nat
  PROVE  SubSeq(a, 2, m) = [i \in 1 .. m - 1 |-> a[i + 1]]
<1>1. SubSeq(a, 2, m) = [i \in 1 .. (1 + m - 2) |-> a[i + 2 - 1]]
  OBVIOUS
<1>2. 1 + m - 2 = m - 1 /\ \A i \in 1 .. m - 1 : i + 2 - 1 = i + 1
  OBVIOUS
<1> QED BY <1>1, <1>2

\* A line written to a screen leaves a sound screen that shows the last
\* TERM_ROWS of its lines and the new one (terminal.c:17-38).
LEMMA WriteLine ==
  ASSUME NEW s, Sound(s), NEW text, text # NoText
  PROVE  /\ Sound(terminal_write_line(s, text))
         /\ Lines(terminal_write_line(s, text)) = S!Write(Lines(s), text)
<1> DEFINE w == terminal_write_line(s, text)
           a == Append(Lines(s), text)
<1>1. /\ TERM_ROWS \in Nat /\ TERM_ROWS >= 2 /\ s.cursor \in 0 .. TERM_ROWS
      /\ s.rows = [r \in RowSet |-> s.rows[r]]
      /\ \A r \in RowSet : r >= s.cursor <=> s.rows[r] = NoText
  BY TerminalAssumption DEF Sound
<1>2. /\ a = [i \in 1 .. s.cursor + 1 |->
                IF i = s.cursor + 1 THEN text ELSE s.rows[i - 1]]
      /\ Len(a) = s.cursor + 1
  <2>1. s.cursor \in Nat
    BY <1>1
  <2>2. Lines(s) = [i \in 1 .. s.cursor |-> s.rows[i - 1]]
    BY DEF Lines
  <2> QED BY <2>1, <2>2, AppendTo
<1>3. S!Write(Lines(s), text) =
        IF Len(a) <= TERM_ROWS THEN a
        ELSE SubSeq(a, Len(a) - TERM_ROWS + 1, Len(a))
  BY DEF S!Write, S!Keep
<1>4. CASE s.cursor < TERM_ROWS
  <2>1. /\ w = Screen(w.rows, w.cursor)
        /\ w.rows = [s.rows EXCEPT ![s.cursor] = text] /\ w.cursor = s.cursor + 1
    BY <1>1, <1>4 DEF terminal_write_line, Screen
  <2> HIDE DEF w, a
  <2>2. w.rows = [r \in RowSet |-> IF r = s.cursor THEN text ELSE s.rows[r]]
    BY <1>1, <2>1
  <2>3. \A r \in RowSet : w.rows[r] = IF r = s.cursor THEN text ELSE s.rows[r]
    BY <2>2
  <2>4. \A r \in RowSet : r >= w.cursor <=> w.rows[r] = NoText
    <3> SUFFICES ASSUME NEW r \in RowSet PROVE r >= w.cursor <=> w.rows[r] = NoText
      OBVIOUS
    <3>1. r \in Int /\ s.cursor \in Int
      BY <1>1 DEF RowSet
    <3>2. r >= s.cursor <=> s.rows[r] = NoText
      BY <1>1
    <3>3. w.rows[r] = IF r = s.cursor THEN text ELSE s.rows[r]
      BY <2>3
    <3>4. CASE r = s.cursor
      BY <2>1, <3>1, <3>3, <3>4
    <3>5. CASE r # s.cursor
      BY <2>1, <3>1, <3>2, <3>3, <3>5
    <3> QED BY <3>4, <3>5
  <2>5. Sound(w)
    <3>1. w.rows = [r \in RowSet |-> w.rows[r]]
      BY <2>2
    <3>2. w.cursor \in 0 .. TERM_ROWS
      BY <1>1, <1>4, <2>1
    <3> QED BY <2>1, <2>4, <3>1, <3>2 DEF Sound
  <2>6. Lines(w) = a
    <3>1. \A i \in 1 .. s.cursor + 1 :
            w.rows[i - 1] = IF i = s.cursor + 1 THEN text ELSE s.rows[i - 1]
      <4> SUFFICES ASSUME NEW i \in 1 .. s.cursor + 1
                   PROVE  w.rows[i - 1] = IF i = s.cursor + 1 THEN text ELSE s.rows[i - 1]
        OBVIOUS
      <4>1. i - 1 \in RowSet /\ (i - 1 = s.cursor <=> i = s.cursor + 1)
        BY <1>1, <1>4 DEF RowSet
      <4> QED BY <2>3, <4>1
    <3> QED BY <1>2, <2>1, <3>1 DEF Lines
  <2>7. Len(a) <= TERM_ROWS
    BY <1>1, <1>2, <1>4
  <2> QED BY <1>3, <2>5, <2>6, <2>7 DEF w
<1>5. CASE s.cursor = TERM_ROWS
  <2>1. /\ w = Screen(w.rows, w.cursor) /\ w.cursor = TERM_ROWS
        /\ w.rows = [Shifted(s.rows) EXCEPT ![TERM_ROWS - 1] = text]
    BY <1>1, <1>5 DEF terminal_write_line, Screen
  <2> HIDE DEF w, a
  <2>2. w.rows = [r \in RowSet |-> IF r = TERM_ROWS - 1 THEN text ELSE Shifted(s.rows)[r]]
    BY <2>1 DEF Shifted
  <2>3. \A r \in RowSet : w.rows[r] = IF r = TERM_ROWS - 1 THEN text ELSE s.rows[r + 1]
    <3> SUFFICES ASSUME NEW r \in RowSet
                 PROVE  w.rows[r] = IF r = TERM_ROWS - 1 THEN text ELSE s.rows[r + 1]
      OBVIOUS
    <3>1. Shifted(s.rows)[r] = IF r < TERM_ROWS - 1 THEN s.rows[r + 1] ELSE s.rows[r]
      BY DEF Shifted
    <3>2. r # TERM_ROWS - 1 => r < TERM_ROWS - 1
      BY <1>1 DEF RowSet
    <3> QED BY <2>2, <3>1, <3>2
  <2>4. \A r \in RowSet : ~(r >= w.cursor) /\ w.rows[r] # NoText
    <3> SUFFICES ASSUME NEW r \in RowSet PROVE ~(r >= w.cursor) /\ w.rows[r] # NoText
      OBVIOUS
    <3>1. ~(r >= TERM_ROWS)
      BY <1>1 DEF RowSet
    <3>2. CASE r = TERM_ROWS - 1
      BY <2>1, <2>3, <3>1, <3>2
    <3>3. CASE r # TERM_ROWS - 1
      <4>1. r + 1 \in RowSet /\ ~(r + 1 >= TERM_ROWS)
        BY <1>1, <3>3 DEF RowSet
      <4>2. s.rows[r + 1] # NoText
        BY <1>1, <1>5, <4>1
      <4> QED BY <2>1, <2>3, <3>1, <3>3, <4>2
    <3> QED BY <2>1, <3>1, <3>2, <3>3
  <2>5. Sound(w)
    <3>1. w.rows = [r \in RowSet |-> w.rows[r]]
      BY <2>2
    <3>2. w.cursor \in 0 .. TERM_ROWS
      BY <1>1, <2>1
    <3> QED BY <2>1, <2>4, <3>1, <3>2 DEF Sound
  <2>6. S!Write(Lines(s), text) = [i \in 1 .. TERM_ROWS |-> a[i + 1]]
    <3>1. Len(a) = TERM_ROWS + 1 /\ ~(Len(a) <= TERM_ROWS) /\ Len(a) - TERM_ROWS + 1 = 2
      BY <1>1, <1>2, <1>5
    <3>2. SubSeq(a, 2, TERM_ROWS + 1) = [i \in 1 .. (TERM_ROWS + 1) - 1 |-> a[i + 1]]
      BY <1>1, SubSeqFrom2
    <3>3. (TERM_ROWS + 1) - 1 = TERM_ROWS
      BY <1>1
    <3> QED BY <1>3, <3>1, <3>2, <3>3
  <2>7. \A i \in 1 .. TERM_ROWS : a[i + 1] = w.rows[i - 1]
    <3> SUFFICES ASSUME NEW i \in 1 .. TERM_ROWS PROVE a[i + 1] = w.rows[i - 1]
      OBVIOUS
    <3>1. /\ i + 1 \in 1 .. s.cursor + 1 /\ i - 1 \in RowSet
          /\ (i + 1) - 1 = i /\ (i - 1) + 1 = i
          /\ (i + 1 = s.cursor + 1 <=> i - 1 = TERM_ROWS - 1)
      BY <1>1, <1>5 DEF RowSet
    <3>2. a[i + 1] = IF i + 1 = s.cursor + 1 THEN text ELSE s.rows[(i + 1) - 1]
      BY <1>2, <3>1
    <3>3. w.rows[i - 1] = IF i - 1 = TERM_ROWS - 1 THEN text ELSE s.rows[(i - 1) + 1]
      BY <2>3, <3>1
    <3> QED BY <3>1, <3>2, <3>3
  <2>8. Lines(w) = [i \in 1 .. TERM_ROWS |-> a[i + 1]]
    BY <2>1, <2>7 DEF Lines
  <2> QED BY <2>5, <2>6, <2>8 DEF w
<1>6. s.cursor < TERM_ROWS \/ s.cursor = TERM_ROWS
  BY <1>1
<1> QED BY <1>4, <1>5, <1>6

LEMMA BlankScreen == Sound(Screen(Blank, 0)) /\ Lines(Screen(Blank, 0)) = <<>>
BY TerminalAssumption DEF Sound, Screen, Blank, RowSet, Lines

LEMMA Texts ==
  ASSUME NEW t
  PROVE  Reply(t) # NoText /\ Echo(t) # NoText
BY DEF Reply, Echo, NoText

\* The state's screen, and what the invariants say of it.
Now == Screen(buffer, cursor_row)

IInv == TypeOK /\ BlankBelow

LEMMA NowSound == IInv => Sound(Now) /\ Now.rows = buffer /\ Now.cursor = cursor_row
BY DEF IInv, TypeOK, BlankBelow, Sound, Now, Screen

\* What Enter does: the echo is whole, and at most one answer follows it.
LEMMA ExecutedLines ==
  ASSUME NEW s, Sound(s), TypeOK
  PROVE  LET e == S!Write(Lines(s), S!Echo(input))
         IN  /\ Sound(Executed(s))
             /\ \/ input = <<>> /\ Lines(Executed(s)) = e
                \/ input # <<>> /\ Lines(Executed(s)) = <<>>
                \/ /\ input # <<>>
                   /\ \E n \in {"help", "ver", "about", "unknown"} :
                        Lines(Executed(s)) = S!Write(e, Reply(n))
<1> DEFINE echoed == terminal_write_line(s, Echo(input))
           Answered(name) == terminal_write_line(echoed, Reply(name))
           e == S!Write(Lines(s), S!Echo(input))
<1>1. Echo(input) = S!Echo(input)
  <2>1. Len(input) \in Nat /\ Len(input) <= TERM_COLS - 3
    BY TerminalAssumption DEF TypeOK
  <2> QED BY <2>1 DEF Echo, S!Echo
<1>2. Sound(echoed) /\ Lines(echoed) = e
  BY <1>1, WriteLine, Texts
<1> DEFINE Names == {"help", "ver", "about", "unknown"}
<1>3. \A n \in Names :
        Sound(Answered(n)) /\ Lines(Answered(n)) = S!Write(e, Reply(n))
  BY <1>2, WriteLine, Texts
<1>4. Sound(Home(echoed)) /\ Lines(Home(echoed)) = <<>>
  BY BlankScreen DEF Home
<1>5. Len(input) > 0 <=> input # <<>>
  BY DEF TypeOK
<1>6. Help # <<>> /\ Clear # <<>> /\ Ver # <<>> /\ About # <<>>
  BY TerminalAssumption
<1>7. Executed(s) =
        IF input = Help THEN Answered("help")
        ELSE IF input = Clear THEN Home(echoed)
        ELSE IF input = Ver THEN Answered("ver")
        ELSE IF input = About THEN Answered("about")
        ELSE IF Len(input) > 0 THEN Answered("unknown")
        ELSE echoed
  BY DEF Executed
<1> DEFINE x == Executed(s)
<1>8. \/ input # <<>> /\ \E n \in Names : x = Answered(n)
      \/ input # <<>> /\ x = Home(echoed)
      \/ input = <<>> /\ x = echoed
  <2>1. "help" \in Names /\ "ver" \in Names /\ "about" \in Names /\ "unknown" \in Names
    OBVIOUS
  <2> HIDE DEF Names, Answered, echoed
  <2> QED BY <1>5, <1>6, <1>7, <2>1, Zenon
<1> HIDE DEF Names, Answered, echoed, e, x
<1>9. /\ Sound(x)
      /\ \/ input = <<>> /\ Lines(x) = e
         \/ input # <<>> /\ Lines(x) = <<>>
         \/ input # <<>> /\ \E n \in Names : Lines(x) = S!Write(e, Reply(n))
  BY <1>2, <1>3, <1>4, <1>8, Zenon
<1> QED BY <1>9 DEF e, x, Names

-----------------------------------------------------------------------------
\* Enter, in terms of the screens before and after.
LEMMA EnterScreens ==
  ASSUME IInv, Enter
  PROVE  LET e == S!Write(Lines(Now), S!Echo(input))
         IN  /\ Sound(Now)'
             /\ input' = <<>>
             /\ \/ input = <<>> /\ Lines(Now)' = e
                \/ input # <<>> /\ Lines(Now)' = <<>>
                \/ /\ input # <<>>
                   /\ \E n \in {"help", "ver", "about", "unknown"} :
                        Lines(Now)' = S!Write(e, Reply(n))
<1> DEFINE after == Executed(Now)
<1>1. Sound(Now) /\ TypeOK
  BY NowSound DEF IInv
<1>2. after = Screen(after.rows, after.cursor)
  BY <1>1, ExecutedLines DEF Sound
<1>3. Now' = after
  BY <1>2 DEF Enter, Now
<1>4. Sound(Now)' = Sound(after) /\ Lines(Now)' = Lines(after)
  BY <1>3 DEF Sound, Lines, RowSet
<1>5. input' = <<>>
  BY DEF Enter
<1> QED BY <1>1, <1>4, <1>5, ExecutedLines

LEMMA SoundScreen ==
  ASSUME NEW rows, NEW c, Sound(Screen(rows, c))
  PROVE  /\ rows = [r \in RowSet |-> rows[r]]
         /\ c \in 0 .. TERM_ROWS
         /\ \A r \in RowSet : r >= c <=> rows[r] = NoText
BY DEF Sound, Screen

LEMMA InitScreen ==
  ASSUME Init
  PROVE  Sound(Now) /\ Lines(Now) = Banner
<1> DEFINE one == terminal_write_line(Screen(Blank, 0), Banner[1])
<1>1. Banner[1] # NoText /\ Banner[2] # NoText
  BY Texts DEF Banner
<1>2. Sound(one) /\ Lines(one) = S!Write(<<>>, Banner[1])
  BY <1>1, BlankScreen, WriteLine
<1>3. Sound(StartScreen)
      /\ Lines(StartScreen) = S!Write(S!Write(<<>>, Banner[1]), Banner[2])
  BY <1>1, <1>2, WriteLine DEF StartScreen
<1>4. Now = StartScreen
  BY <1>3 DEF Init, Now, Sound
<1>5. S!Write(S!Write(<<>>, Banner[1]), Banner[2]) = Banner
  <2>1. /\ Append(<<>>, Banner[1]) = <<Banner[1]>>
        /\ Append(<<Banner[1]>>, Banner[2]) = <<Banner[1], Banner[2]>>
        /\ Len(<<Banner[1]>>) = 1 /\ Len(<<Banner[1], Banner[2]>>) = 2
    <3> SUFFICES ASSUME NEW x, NEW y
                 PROVE  /\ Append(<<>>, x) = <<x>> /\ Append(<<x>>, y) = <<x, y>>
                        /\ Len(<<x>>) = 1 /\ Len(<<x, y>>) = 2
      OBVIOUS
    <3>1. Append(<<>>, x) = <<x>>
      OBVIOUS
    <3>2. Append(<<x>>, y) = <<x, y>>
      <4>1. <<x>> \in Seq({x, y}) /\ <<x, y>> \in Seq({x, y}) /\ Len(<<x>>) = 1
        OBVIOUS
      <4>2. /\ Append(<<x>>, y) \in Seq({x, y}) /\ Len(Append(<<x>>, y)) = 2
            /\ Append(<<x>>, y)[1] = x /\ Append(<<x>>, y)[2] = y
        BY <4>1, AppendProperties
      <4>3. Len(<<x, y>>) = 2 /\ <<x, y>>[1] = x /\ <<x, y>>[2] = y
        OBVIOUS
      <4> DEFINE a == Append(<<x>>, y)
                 b == <<x, y>>
      <4> HIDE DEF a, b
      <4>4. \A i \in 1 .. 2 : a[i] = b[i]
        BY <4>2, <4>3 DEF a, b
      <4>5. /\ a \in Seq({x, y}) /\ b \in Seq({x, y}) /\ Len(a) = Len(b)
            /\ \A i \in 1 .. Len(a) : a[i] = b[i]
        BY <4>1, <4>2, <4>3, <4>4 DEF a, b
      <4>6. a = b
        BY <4>5, SeqEqual
      <4> QED BY <4>6 DEF a, b
    <3>3. Len(<<x>>) = 1 /\ Len(<<x, y>>) = 2
      OBVIOUS
    <3> QED BY <3>1, <3>2, <3>3
  <2>2. <<Banner[1], Banner[2]>> = Banner
    BY DEF Banner
  <2>3. 1 <= TERM_ROWS /\ 2 <= TERM_ROWS
    BY TerminalAssumption
  <2> QED BY <2>1, <2>2, <2>3 DEF S!Write, S!Keep
<1> QED BY <1>3, <1>4, <1>5

LEMMA InvInit == Init => IInv
<1> SUFFICES ASSUME Init PROVE IInv
  OBVIOUS
<1>1. input \in Seq(Chars) /\ Len(input) <= MAX_INPUT_LEN - 1
  BY TerminalAssumption DEF Init
<1>2. Sound(Screen(buffer, cursor_row))
  BY InitScreen DEF Now
<1> QED BY <1>1, <1>2, SoundScreen DEF IInv, TypeOK, BlankBelow

LEMMA InvNext == IInv /\ [Next]_vars => IInv'
<1> SUFFICES ASSUME IInv, [Next]_vars PROVE IInv'
  OBVIOUS
<1>1. MAX_INPUT_LEN \in Nat \ {0} /\ input \in Seq(Chars) /\ Len(input) <= MAX_INPUT_LEN - 1
  BY TerminalAssumption DEF IInv, TypeOK
<1>2. ASSUME UNCHANGED <<buffer, cursor_row>>,
             input' \in Seq(Chars), Len(input') <= MAX_INPUT_LEN - 1
      PROVE  IInv'
  BY <1>2 DEF IInv, TypeOK, BlankBelow, RowSet
<1>3. CASE Enter
  <2>1. Sound(Now)' /\ input' = <<>>
    BY <1>3, EnterScreens
  <2>2. input' \in Seq(Chars) /\ Len(input') <= MAX_INPUT_LEN - 1
    BY <1>1, <2>1
  <2>3. Sound(Screen(buffer', cursor_row'))
    BY <2>1 DEF Now, Screen, Sound, RowSet
  <2>4. /\ buffer' = [r \in RowSet |-> buffer'[r]]
        /\ cursor_row' \in 0 .. TERM_ROWS
        /\ \A r \in RowSet : r >= cursor_row' <=> buffer'[r] = NoText
    BY <2>3, SoundScreen
  <2> QED BY <2>2, <2>4 DEF IInv, TypeOK, BlankBelow, RowSet
<1>4. CASE Backspace
  <2>1. \A i \in 1 .. Len(input) - 1 : input[i] \in Chars
    BY <1>1
  <2>2. input' = SubSeq(input, 1, Len(input) - 1) /\ Len(input) \in Nat \ {0}
    BY <1>1, <1>4 DEF Backspace
  <2>3. input' \in Seq(Chars) /\ Len(input') = Len(input) - 1
    <3> DEFINE n == Len(input) - 1
               q == SubSeq(input, 1, n)
    <3>1. n \in Nat /\ 1 \in Int
      BY <2>2
    <3> HIDE DEF n
    <3>2. q \in Seq(Chars) /\ Len(q) = IF 1 <= n THEN n - 1 + 1 ELSE 0
      BY <2>1, <3>1, SubSeqProperties DEF n
    <3>3. Len(q) = n
      BY <3>1, <3>2
    <3> QED BY <2>2, <3>2, <3>3 DEF n
  <2> QED BY <1>1, <1>2, <1>4, <2>2, <2>3 DEF Backspace
<1>5. CASE \E c \in Chars : Type(c)
  <2> PICK c \in Chars : Type(c)
    BY <1>5
  <2>1. input' \in Seq(Chars) /\ Len(input') = Len(input) + 1
    BY <1>1 DEF Type
  <2> QED BY <1>1, <1>2, <2>1 DEF Type
<1>6. CASE UNCHANGED vars
  BY <1>1, <1>2, <1>6 DEF vars
<1> QED BY <1>3, <1>4, <1>5, <1>6 DEF Next

\* The inductive invariant holds in every state.
THEOREM Invariance == Spec => []IInv
BY InvInit, InvNext, PTL DEF Spec

\* The cursor never leaves the screen, the input line keeps room for its end
\* mark (terminal.c:21-37 and 106-108).
THEOREM TypeCorrect == Spec => []TypeOK
<1>1. IInv => TypeOK
  BY DEF IInv
<1> QED BY <1>1, Invariance, PTL

\* The prompt is never drawn over a text (terminal.c:134).
THEOREM PromptRowBlank == Spec => []BlankBelow
<1>1. IInv => BlankBelow
  BY DEF IInv
<1> QED BY <1>1, Invariance, PTL

\* The screen shows the last TERM_ROWS lines written since the last clear and
\* every command is echoed whole, for every size of screen and line.
THEOREM ImplementsScrollback == Spec => RefinesScrollback
<1>1. Init => S!Init
  <2>1. Init => Lines(Now) = [i \in 1 .. cursor_row |-> buffer[i - 1]]
    BY DEF Lines, Now, Screen
  <2> QED BY <2>1, InitScreen DEF Init, S!Init
<1>2. IInv /\ [Next]_vars => [S!Next]_(S!vars)
  <2> SUFFICES ASSUME IInv, [Next]_vars PROVE S!Next \/ UNCHANGED S!vars
    BY DEF S!vars
  <2>1. ASSUME UNCHANGED <<buffer, cursor_row>>
        PROVE  UNCHANGED [i \in 1 .. cursor_row |-> buffer[i - 1]]
    BY <2>1
  <2>2. CASE Enter
    <3>1. Lines(Now) = [i \in 1 .. cursor_row |-> buffer[i - 1]]
      BY DEF Lines, Now, Screen
    <3>2. Lines(Now)' = [i \in 1 .. cursor_row |-> buffer[i - 1]]'
      BY DEF Lines, Now, Screen
    <3>3. \A n \in {"help", "ver", "about", "unknown"} :
            Reply(n) \in {Reply(m) : m \in {"help", "ver", "about", "unknown"}}
      OBVIOUS
    <3>4. S!Enter
      BY <2>2, <3>1, <3>2, <3>3, EnterScreens DEF S!Enter
    <3> QED BY <3>4 DEF S!Next
  <2>3. CASE Backspace
    <3>1. input # <<>>
      BY <2>3 DEF Backspace
    <3> QED BY <2>1, <2>3, <3>1 DEF Backspace, S!Next, S!Erase
  <2>4. CASE \E c \in Chars : Type(c)
    BY <2>1, <2>4 DEF Type, S!Next, S!Type
  <2>5. CASE UNCHANGED vars
    BY <2>1, <2>5 DEF vars, S!vars
  <2> QED BY <2>2, <2>3, <2>4, <2>5 DEF Next
<1> QED BY <1>1, <1>2, Invariance, PTL DEF Spec, RefinesScrollback, S!Spec
=============================================================================
