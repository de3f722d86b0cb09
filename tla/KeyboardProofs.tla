---------------------------- MODULE KeyboardProofs ----------------------------
(***************************************************************************)
(* Proofs about Keyboard for every set of keys; those about shift_pressed, *)
(* for one with a single shift key.                                        *)
(***************************************************************************)
EXTENDS Keyboard, SequenceTheorems, TLAPS

\* The keyboard has one shift key: two share shift_pressed, which the one that
\* comes up first clears (keyboard.c:60-61).
OneShift == \A j, k \in Keys : IsShift(j) /\ IsShift(k) => j = k

-----------------------------------------------------------------------------
(* The handler as a function of what it remembers and the byte it reads.   *)

Modes == [shift : BOOLEAN, lock : BOOLEAN, ext : BOOLEAN]
Bytes == 1 .. 255
Events == 0 .. 257

AsciiIn(m, b) ==
  IF m.shift # (is_letter(b) /\ m.lock)
  THEN scancode_to_ascii_shift[b] ELSE scancode_to_ascii[b]

Arrow(b) ==
  IF b = ArrowUp THEN HistoryUp ELSE IF b = ArrowDown THEN HistoryDown ELSE Nothing

\* What a byte calls in mode m, and the mode after it.
Meant(m, b) ==
  IF b = E0 THEN Nothing
  ELSE IF m.ext THEN Arrow(b)
  ELSE IF IsModifier(b) \/ b >= Release THEN Nothing
  ELSE AsciiIn(m, b)

After(m, b) ==
  IF b = E0 THEN [shift |-> m.shift, lock |-> m.lock, ext |-> TRUE]
  ELSE IF m.ext THEN [shift |-> m.shift, lock |-> m.lock, ext |-> FALSE]
  ELSE IF b \in {LShift, RShift} THEN [shift |-> TRUE, lock |-> m.lock, ext |-> FALSE]
  ELSE IF b \in {LShift + Release, RShift + Release}
       THEN [shift |-> FALSE, lock |-> m.lock, ext |-> FALSE]
  ELSE IF b = CapsLock THEN [shift |-> m.shift, lock |-> ~m.lock, ext |-> FALSE]
  ELSE m

\* The mode the handler is in, and the one it will be in with the bytes on the
\* way read.
Now == [shift |-> shift_pressed, lock |-> caps_lock_active, ext |-> is_extended]
Aim == [shift |-> ShiftHeld, lock |-> caps, ext |-> FALSE]

\* Reading w leads from one mode to the other, and each byte means what was meant.
Leads(w, from, to) ==
  \E st \in [0 .. Len(w) -> Modes] :
    /\ st[0] = from /\ st[Len(w)] = to
    /\ \A i \in 1 .. Len(w) :
         /\ st[i] = After(st[i - 1], w[i].byte)
         /\ w[i].means = Meant(st[i - 1], w[i].byte)

IInv == TypeOK /\ Leads(wire, Now, Aim)

LEMMA AfterType == ASSUME NEW m \in Modes, NEW b \in Bytes PROVE After(m, b) \in Modes
  BY DEF After, Modes

Sents == [byte : Bytes, means : Events]

\* One byte more on the way.
LEMMA LeadsOn ==
  ASSUME NEW w \in Seq(Sents), NEW from \in Modes, NEW to \in Modes,
         NEW b \in Bytes, NEW means \in Events,
         Leads(w, from, to), means = Meant(to, b)
  PROVE  Leads(Append(w, [byte |-> b, means |-> means]), from, After(to, b))
  <1> DEFINE n == Len(w)
             e == [byte |-> b, means |-> means]
             u == Append(w, e)
  <1>1. PICK st \in [0 .. n -> Modes] :
          /\ st[0] = from /\ st[n] = to
          /\ \A i \in 1 .. n : /\ st[i] = After(st[i - 1], w[i].byte)
                               /\ w[i].means = Meant(st[i - 1], w[i].byte)
    BY DEF Leads
  <1>2. n \in Nat /\ After(to, b) \in Modes /\ e \in Sents
    BY AfterType DEF Sents
  <1>3. /\ Len(u) = n + 1 /\ u[n + 1] = e /\ \A i \in 1 .. n : u[i] = w[i]
    BY <1>2, AppendProperties
  <1> HIDE DEF u
  <1> DEFINE to_st == [i \in 0 .. n + 1 |-> IF i <= n THEN st[i] ELSE After(to, b)]
  <1>4. to_st \in [0 .. n + 1 -> Modes]
    BY <1>2
  <1>5. to_st[0] = from /\ to_st[n + 1] = After(to, b)
    BY <1>1, <1>2
  <1>6. ASSUME NEW i \in 1 .. n + 1
        PROVE  /\ to_st[i] = After(to_st[i - 1], u[i].byte)
               /\ u[i].means = Meant(to_st[i - 1], u[i].byte)
    <2>1. CASE i <= n
      <3>1. to_st[i] = st[i] /\ to_st[i - 1] = st[i - 1] /\ u[i] = w[i]
        BY <1>2, <1>3, <2>1
      <3>2. i \in 1 .. n
        BY <1>2, <2>1
      <3>3. QED
        BY <1>1, <3>1, <3>2
    <2>2. CASE i = n + 1
      <3>1. to_st[i] = After(to, b) /\ to_st[i - 1] = to /\ u[i] = e
        BY <1>1, <1>2, <1>3, <2>2
      <3>2. e.byte = b /\ e.means = Meant(to, b)
        OBVIOUS
      <3>3. QED
        BY <3>1, <3>2
    <2>3. QED
      BY <1>2, <2>1, <2>2
  <1> HIDE DEF to_st
  <1>7. Leads(u, from, After(to, b))
    BY <1>3, <1>4, <1>5, <1>6 DEF Leads
  <1>8. QED
    BY <1>7 DEF u

\* One byte less.
LEMMA LeadsFrom ==
  ASSUME NEW w \in Seq(Sents), w # <<>>, NEW from \in Modes, NEW to \in Modes,
         Leads(w, from, to)
  PROVE  /\ Head(w).means = Meant(from, Head(w).byte)
         /\ Leads(Tail(w), After(from, Head(w).byte), to)
  <1> DEFINE n == Len(w)
             u == Tail(w)
  <1>1. PICK st \in [0 .. n -> Modes] :
          /\ st[0] = from /\ st[n] = to
          /\ \A i \in 1 .. n : /\ st[i] = After(st[i - 1], w[i].byte)
                               /\ w[i].means = Meant(st[i - 1], w[i].byte)
    BY DEF Leads
  <1>2. /\ n \in Nat /\ n > 0 /\ Head(w) = w[1]
        /\ Len(u) = n - 1 /\ \A i \in 1 .. n - 1 : u[i] = w[i + 1]
    BY HeadTailProperties, EmptySeq
  <1> HIDE DEF n, u
  <1> DEFINE rest == [i \in 0 .. n - 1 |-> st[i + 1]]
  <1>3. rest \in [0 .. n - 1 -> Modes]
    BY <1>2
  <1>4. st[1] = After(from, Head(w).byte) /\ Head(w).means = Meant(from, Head(w).byte)
    <2>1. 1 \in 1 .. n /\ 1 - 1 = 0
      BY <1>2
    <2>2. st[1] = After(st[0], w[1].byte) /\ w[1].means = Meant(st[0], w[1].byte)
      BY <1>1, <2>1
    <2>3. QED
      BY <1>1, <1>2, <2>2
  <1>5. rest[0] = st[1] /\ rest[n - 1] = to
    BY <1>1, <1>2
  <1>6. ASSUME NEW i \in 1 .. n - 1
        PROVE  /\ rest[i] = After(rest[i - 1], u[i].byte)
               /\ u[i].means = Meant(rest[i - 1], u[i].byte)
    <2>1. i + 1 \in 1 .. n /\ (i + 1) - 1 = i /\ (i - 1) + 1 = i
      BY <1>2
    <2>2. rest[i] = st[i + 1] /\ rest[i - 1] = st[i] /\ u[i] = w[i + 1]
      BY <1>2, <2>1
    <2>3. st[i + 1] = After(st[i], w[i + 1].byte) /\ w[i + 1].means = Meant(st[i], w[i + 1].byte)
      BY <1>1, <2>1
    <2>4. QED
      BY <2>2, <2>3
  <1> HIDE DEF rest
  <1>7. Leads(u, After(from, Head(w).byte), to)
    BY <1>2, <1>3, <1>4, <1>5, <1>6 DEF Leads
  <1>8. QED
    BY <1>4, <1>7 DEF u

-----------------------------------------------------------------------------
(* The tables.                                                             *)

LEMMA Tables ==
  \A s \in 0 .. 127 : scancode_to_ascii[s] \in 0 .. 255 /\ scancode_to_ascii_shift[s] \in 0 .. 255
  BY DEF Row, scancode_to_ascii, scancode_to_ascii_shift

LEMMA AsciiType == ASSUME NEW m, NEW b \in 0 .. 127 PROVE AsciiIn(m, b) \in 0 .. 255
  BY Tables DEF AsciiIn

\* The driver's ranges of codes are the letters' keys.
LEMMA LettersKeys ==
  \A s \in 1 .. 95 :
    /\ is_letter(s) <=> scancode_to_ascii[s] \in 97 .. 122
    /\ is_letter(s) => scancode_to_ascii_shift[s] = scancode_to_ascii[s] - 32
  <1>1. \A s \in 1 .. 95 : is_letter(s) <=> scancode_to_ascii[s] \in 97 .. 122
    BY DEF Row, scancode_to_ascii, is_letter
  <1>2. \A s \in 1 .. 95 :
          is_letter(s) => scancode_to_ascii_shift[s] = scancode_to_ascii[s] - 32
    BY DEF Row, scancode_to_ascii, scancode_to_ascii_shift, is_letter
  <1>3. QED
    BY <1>1, <1>2

\* So the driver's character is the key's.
LEMMA KeysChar ==
  ASSUME NEW k \in Keys, caps \in BOOLEAN
  PROVE  CharOf(k) = AsciiIn(Aim, k.code)
  <1>1. k.code \in 1 .. 95
    BY KeyboardAssumption
  <1>2. Aim.shift = ShiftHeld /\ Aim.lock = caps
    BY DEF Aim
  <1>3. ShiftHeld \in BOOLEAN
    BY DEF ShiftHeld
  <1>4. CASE is_letter(k.code)
    BY <1>1, <1>2, <1>3, <1>4, LettersKeys DEF CharOf, AsciiIn
  <1>5. CASE ~is_letter(k.code)
    BY <1>1, <1>2, <1>3, <1>5, LettersKeys DEF CharOf, AsciiIn
  <1>6. QED
    BY <1>4, <1>5

-----------------------------------------------------------------------------
(* The keyboard.                                                           *)

LEMMA InitInv == Init => IInv
  <1> SUFFICES ASSUME Init PROVE IInv
    OBVIOUS
  <1>1. TypeOK
    <2>1. wire \in Seq([byte : 1 .. 255, means : 0 .. 257])
      BY EmptySeq DEF Init
    <2>2. last_ascii_char \in 0 .. 255 /\ delivered \in 0 .. 257
      BY DEF Init, Nothing
    <2>3. QED
      BY <2>1, <2>2, Zenon DEF Init, TypeOK
  <1>2. Now = Aim /\ Now \in Modes
    BY DEF Init, Now, Aim, ShiftHeld, Modes
  <1>3. Leads(wire, Now, Aim)
    <2> DEFINE st == [i \in 0 .. 0 |-> Now]
    <2>1. st \in [0 .. Len(wire) -> Modes] /\ st[0] = Now /\ st[Len(wire)] = Aim
          /\ Len(wire) = 0
      BY <1>2 DEF Init
    <2> HIDE DEF st
    <2>2. QED
      BY <2>1 DEF Leads
  <1>4. QED
    BY <1>1, <1>3 DEF IInv

LEMMA ModeTypes == ASSUME TypeOK PROVE Now \in Modes /\ Aim \in Modes /\ wire \in Seq(Sents)
  BY DEF TypeOK, Now, Aim, ShiftHeld, Modes, Sents, Bytes, Events

LEMMA SentTypes ==
  ASSUME TypeOK, NEW k \in Keys, NEW code \in Bytes, NEW means \in Events
  PROVE  /\ Sent(k, code, means) \in Seq(Sents)
         /\ wire \o Sent(k, code, means) \in Seq(Sents)
  <1> DEFINE last == [byte |-> code, means |-> means]
             first == [byte |-> E0, means |-> Nothing]
  <1>1. wire \in Seq(Sents) /\ first \in Sents /\ last \in Sents
    BY ModeTypes DEF Sents, E0, Bytes, Nothing, Events
  <1>2. Sent(k, code, means) = (IF k.ext THEN <<first>> ELSE <<>>) \o <<last>>
    BY DEF Sent
  <1> HIDE DEF first, last
  <1>3. Sent(k, code, means) \in Seq(Sents)
    BY <1>1, <1>2
  <1> DEFINE s == Sent(k, code, means)
  <1> HIDE DEF s
  <1>4. wire \o s \in Seq(Sents)
    BY <1>1, <1>3, ConcatProperties DEF s
  <1>5. QED
    BY <1>3, <1>4 DEF s

\* A key's bytes take the handler where it would go without them, or where the
\* one byte of a plain key takes it.
LEMMA SentLeads ==
  ASSUME IInv, NEW k \in Keys, NEW code \in Bytes, code # E0, NEW means \in Events,
         means = IF k.ext THEN Arrow(code) ELSE Meant(Aim, code)
  PROVE  Leads(wire \o Sent(k, code, means), Now, IF k.ext THEN Aim ELSE After(Aim, code))
  <1> DEFINE last == [byte |-> code, means |-> means]
             first == [byte |-> E0, means |-> Nothing]
  <1>1. /\ Now \in Modes /\ Aim \in Modes /\ wire \in Seq(Sents)
        /\ Leads(wire, Now, Aim) /\ last \in Sents
    BY ModeTypes DEF IInv, Sents
  <1>2. CASE ~k.ext
    <2>1. wire \o Sent(k, code, means) = Append(wire, last)
      BY <1>1, <1>2 DEF Sent
    <2>2. Leads(Append(wire, last), Now, After(Aim, code))
      BY <1>1, <1>2, LeadsOn
    <2> HIDE DEF last
    <2>3. QED
      BY <1>2, <2>1, <2>2, Zenon
  <1>3. CASE k.ext
    <2> DEFINE mid == [shift |-> Aim.shift, lock |-> Aim.lock, ext |-> TRUE]
               w == Append(wire, first)
    <2>1. /\ E0 \in Bytes /\ Nothing \in Events /\ Nothing = Meant(Aim, E0)
          /\ After(Aim, E0) = mid /\ first \in Sents
      BY DEF E0, Bytes, Nothing, Events, Meant, After, Sents
    <2>2. Leads(w, Now, mid)
      BY <1>1, <2>1, LeadsOn
    <2>3. /\ mid \in Modes /\ means = Meant(mid, code) /\ After(mid, code) = Aim
      BY <1>1, <1>3 DEF Meant, After, Modes, Aim
    <2>4. w \in Seq(Sents)
      BY <1>1, <2>1
    <2>5. wire \o Sent(k, code, means) = Append(w, last)
      <3>1. Sent(k, code, means) = <<first>> \o <<last>>
        BY <1>3 DEF Sent
      <3> HIDE DEF first, last
      <3>2. wire \o (<<first>> \o <<last>>) = Append(Append(wire, first), last)
        BY <1>1, <2>1
      <3>3. QED
        BY <3>1, <3>2
    <2> HIDE DEF w, mid
    <2>6. Leads(Append(w, last), Now, Aim)
      BY <1>1, <2>2, <2>3, <2>4, LeadsOn
    <2> HIDE DEF last
    <2>7. QED
      BY <1>3, <2>5, <2>6, Zenon
  <1>4. QED
    BY <1>2, <1>3

\* What a key that goes down or up does to the modes.
LEMMA AimPress ==
  ASSUME TypeOK, NEW k \in Keys, PressKey(k)
  PROVE  Aim' = IF k.ext THEN Aim ELSE After(Aim, k.code)
  <1>1. k.code \in 1 .. 95 /\ k.ext \in BOOLEAN /\ held \subseteq Keys
    BY KeyboardAssumption DEF TypeOK
  <1>2. held' = held \cup {k} /\ caps' = (caps # IsCaps(k)) /\ caps \in BOOLEAN
    BY DEF PressKey, TypeOK
  <1>3. ShiftHeld' = (ShiftHeld \/ IsShift(k))
    BY <1>2, Zenon DEF ShiftHeld
  <1>4. ShiftHeld \in BOOLEAN
    BY DEF ShiftHeld
  <1>5. /\ Aim.shift = ShiftHeld /\ Aim.lock = caps /\ Aim.ext = FALSE
        /\ Aim' = [shift |-> ShiftHeld', lock |-> caps', ext |-> FALSE]
        /\ Aim = [shift |-> ShiftHeld, lock |-> caps, ext |-> FALSE]
    BY DEF Aim
  <1>6. CASE k.ext
    <2>1. IsShift(k) = FALSE /\ IsCaps(k) = FALSE
      BY <1>6 DEF IsShift, IsCaps
    <2>2. ShiftHeld' = ShiftHeld /\ caps' = caps
      BY <1>2, <1>3, <1>4, <2>1
    <2>3. QED
      BY <1>5, <1>6, <2>2
  <1>7. CASE ~k.ext /\ k.code \in {LShift, RShift}
    <2>1. IsShift(k) = TRUE /\ IsCaps(k) = FALSE /\ k.code # E0
      BY <1>7 DEF IsShift, IsCaps, LShift, RShift, CapsLock, E0
    <2>2. ShiftHeld' = TRUE /\ caps' = caps
      BY <1>2, <1>3, <2>1
    <2>3. After(Aim, k.code) = [shift |-> TRUE, lock |-> caps, ext |-> FALSE]
      BY <1>5, <1>7, <2>1 DEF After
    <2>4. QED
      BY <1>5, <1>7, <2>2, <2>3
  <1>8. CASE ~k.ext /\ k.code \notin {LShift, RShift}
    <2>1. /\ IsShift(k) = FALSE /\ k.code # E0 /\ IsCaps(k) = (k.code = CapsLock)
          /\ k.code \notin {LShift + Release, RShift + Release}
      BY <1>1, <1>8 DEF IsShift, IsCaps, LShift, RShift, E0, Release
    <2>2. ShiftHeld' = ShiftHeld
      BY <1>3, <1>4, <2>1
    <2>3. CASE k.code = CapsLock
      <3>1. caps' = ~caps
        <4>1. IsCaps(k) = TRUE
          BY <2>1, <2>3
        <4>2. QED
          BY <1>2, <4>1
      <3>2. After(Aim, k.code) = [shift |-> ShiftHeld, lock |-> ~caps, ext |-> FALSE]
        BY <1>5, <1>8, <2>1, <2>3, Zenon DEF After
      <3>3. QED
        BY <1>5, <1>8, <2>2, <3>1, <3>2
    <2>4. CASE k.code # CapsLock
      <3>1. caps' = caps
        <4>1. IsCaps(k) = FALSE
          BY <2>1, <2>4
        <4>2. QED
          BY <1>2, <4>1
      <3>2. After(Aim, k.code) = Aim
        BY <1>5, <1>8, <2>1, <2>4, Zenon DEF After
      <3>3. QED
        BY <1>5, <1>8, <2>2, <3>1, <3>2
    <2>5. QED
      BY <2>3, <2>4
  <1>9. QED
    BY <1>1, <1>6, <1>7, <1>8

LEMMA AimRelease ==
  ASSUME OneShift, TypeOK, NEW k \in Keys, ReleaseKey(k)
  PROVE  Aim' = IF k.ext THEN Aim ELSE After(Aim, k.code + Release)
  <1>1. k.code \in 1 .. 95 /\ k.ext \in BOOLEAN /\ held \subseteq Keys
    BY KeyboardAssumption DEF TypeOK
  <1>2. held' = held \ {k} /\ caps' = caps /\ k \in held
    BY DEF ReleaseKey
  <1>3. CASE IsShift(k)
    <2>1. ~ShiftHeld'
      BY <1>1, <1>2, <1>3, Zenon DEF ShiftHeld, OneShift
    <2>2. ShiftHeld' = FALSE
      BY <2>1, Zenon DEF ShiftHeld
    <2>3. Aim' = [shift |-> FALSE, lock |-> caps, ext |-> FALSE]
      BY <1>2, <2>2 DEF Aim
    <2>4. /\ ~k.ext /\ k.code + Release # E0 /\ k.code + Release \notin {LShift, RShift}
          /\ k.code + Release \in {LShift + Release, RShift + Release}
      BY <1>1, <1>3 DEF IsShift, LShift, RShift, E0, Release
    <2>5. Aim.lock = caps /\ Aim.ext = FALSE
      BY DEF Aim
    <2>6. After(Aim, k.code + Release) = [shift |-> FALSE, lock |-> caps, ext |-> FALSE]
      BY <2>4, <2>5, Zenon DEF After
    <2>7. QED
      BY <2>3, <2>4, <2>6
  <1>4. CASE ~IsShift(k)
    <2>1. ShiftHeld' = ShiftHeld
      BY <1>2, <1>4, Zenon DEF ShiftHeld
    <2>2. QED
      BY <1>1, <1>2, <1>4, <2>1
      DEF Aim, After, IsShift, LShift, RShift, CapsLock, E0, Release
  <1>5. QED
    BY <1>3, <1>4

\* What a key means is what its last byte makes the handler call.
LEMMA PressMeans ==
  ASSUME TypeOK, NEW k \in Keys
  PROVE  /\ Meaning(k) = IF k.ext THEN Arrow(k.code) ELSE Meant(Aim, k.code)
         /\ Meaning(k) \in Events
  <1>1. k.code \in 1 .. 95 /\ k.ext \in BOOLEAN /\ caps \in BOOLEAN
    BY KeyboardAssumption DEF TypeOK
  <1>2. CharOf(k) = AsciiIn(Aim, k.code)
    BY <1>1, KeysChar
  <1>3. AsciiIn(Aim, k.code) \in Events
    <2> DEFINE c == k.code
    <2>1. c \in 0 .. 127
      BY <1>1
    <2> HIDE DEF c
    <2>2. AsciiIn(Aim, c) \in Events
      BY <2>1, AsciiType DEF Events
    <2>3. QED
      BY <2>2 DEF c
  <1>4. ~Aim.ext
    BY DEF Aim
  <1>5. CASE k.ext
    BY <1>5 DEF Meaning, Arrow, Events, HistoryUp, HistoryDown, Nothing, ArrowUp, ArrowDown
  <1>6. CASE ~k.ext /\ (IsShift(k) \/ IsCaps(k))
    BY <1>1, <1>4, <1>6 DEF Meaning, Meant, IsShift, IsCaps, IsModifier, Events, Nothing, E0,
                            LShift, RShift, CapsLock
  <1>7. CASE ~k.ext /\ ~(IsShift(k) \/ IsCaps(k))
    BY <1>1, <1>2, <1>3, <1>4, <1>7
    DEF Meaning, Meant, IsShift, IsCaps, IsModifier, E0, LShift, RShift, CapsLock, Release
  <1>8. QED
    BY <1>5, <1>6, <1>7

LEMMA UserTypes == ASSUME TypeOK, User PROVE TypeOK' /\ \E s \in Seq(Sents) : wire' = wire \o s
  <1>1. PICK k \in Keys : PressKey(k) \/ ReleaseKey(k)
    BY DEF User
  <1>2. k.code \in 1 .. 95
    BY KeyboardAssumption
  <1>3. UNCHANGED <<shift_pressed, caps_lock_active, is_extended, last_ascii_char, delivered>>
    BY DEF User
  <1>4. wire' \in Seq(Sents) /\ \E s \in Seq(Sents) : wire' = wire \o s
    <2>1. CASE PressKey(k)
      <3>1. k.code \in Bytes /\ Meaning(k) \in Events
        BY <1>2, PressMeans DEF Bytes
      <3>2. QED
        BY <2>1, <3>1, SentTypes DEF PressKey
    <2>2. CASE ReleaseKey(k)
      <3>1. k.code + Release \in Bytes /\ Nothing \in Events
        BY <1>2 DEF Bytes, Release, Events, Nothing
      <3>2. QED
        BY <2>2, <3>1, SentTypes DEF ReleaseKey
    <2>3. QED
      BY <1>1, <2>1, <2>2
  <1>5. held' \subseteq Keys /\ caps' \in BOOLEAN
    BY <1>1 DEF TypeOK, PressKey, ReleaseKey
  <1>6. QED
    BY <1>3, <1>4, <1>5 DEF TypeOK, Sents, Bytes, Events

LEMMA UserInv == ASSUME OneShift, IInv, User PROVE IInv'
  <1>1. PICK k \in Keys : PressKey(k) \/ ReleaseKey(k)
    BY DEF User
  <1>2. TypeOK /\ k.code \in 1 .. 95
    BY KeyboardAssumption DEF IInv
  <1>3. Now' = Now
    BY DEF User, Now
  <1>4. Leads(wire', Now', Aim')
    <2>1. CASE PressKey(k)
      <3>1. /\ k.code \in Bytes /\ k.code # E0 /\ Meaning(k) \in Events
            /\ Meaning(k) = IF k.ext THEN Arrow(k.code) ELSE Meant(Aim, k.code)
        BY <1>2, PressMeans DEF Bytes, E0
      <3>2. wire' = wire \o Sent(k, k.code, Meaning(k))
        BY <2>1 DEF PressKey
      <3>3. Leads(wire', Now, IF k.ext THEN Aim ELSE After(Aim, k.code))
        BY <3>1, <3>2, SentLeads
      <3>4. QED
        BY <1>2, <1>3, <2>1, <3>3, AimPress
    <2>2. CASE ReleaseKey(k)
      <3> DEFINE code == k.code + Release
      <3>1. /\ code \in Bytes /\ code # E0 /\ Nothing \in Events
            /\ Nothing = IF k.ext THEN Arrow(code) ELSE Meant(Aim, code)
        BY <1>2 DEF Bytes, E0, Release, Events, Nothing, Arrow, Meant, Aim, ArrowUp, ArrowDown
      <3>2. wire' = wire \o Sent(k, code, Nothing)
        BY <2>2 DEF ReleaseKey
      <3>3. Leads(wire', Now, IF k.ext THEN Aim ELSE After(Aim, code))
        BY <3>1, <3>2, SentLeads
      <3>4. QED
        BY <1>2, <1>3, <2>2, <3>3, AimRelease
    <2>3. QED
      BY <1>1, <2>1, <2>2
  <1>5. QED
    BY <1>2, <1>4, UserTypes DEF IInv, Leads

-----------------------------------------------------------------------------
(* The handler.                                                            *)

\* The handler does what Meant and After say of the byte it reads.
LEMMA HandlerDoes ==
  ASSUME TypeOK, keyboard_handler_c
  PROVE  /\ wire # <<>> /\ Head(wire) \in Sents /\ wire' = Tail(wire)
         /\ Now' = After(Now, Head(wire).byte)
         /\ delivered' = Meant(Now, Head(wire).byte)
         /\ delivered' \in Events
         /\ last_ascii_char' = IF IsChar(delivered') THEN delivered' ELSE last_ascii_char
         /\ shift_pressed' \in BOOLEAN /\ caps_lock_active' \in BOOLEAN /\ is_extended' \in BOOLEAN
  <1> DEFINE b == Head(wire).byte
  <1>1. wire # <<>> /\ wire' = Tail(wire) /\ wire \in Seq(Sents)
    BY ModeTypes DEF keyboard_handler_c
  <1>2. Head(wire) \in Sents /\ b \in Bytes
    <2>1. Head(wire) \in Sents
      BY <1>1, HeadTailProperties
    <2>2. QED
      BY <2>1 DEF Sents
  <1>3. /\ shift_pressed \in BOOLEAN /\ caps_lock_active \in BOOLEAN /\ is_extended \in BOOLEAN
    BY DEF TypeOK
  <1>4. \/ Prefix(b) \/ Extended(b) \/ Shift(b) \/ Caps(b) \/ KeyPress(b) \/ KeyRelease(b)
    BY DEF keyboard_handler_c
  <1> HIDE DEF b
  <1>5. /\ Now.shift = shift_pressed /\ Now.lock = caps_lock_active /\ Now.ext = is_extended
        /\ Now' = [shift |-> shift_pressed', lock |-> caps_lock_active', ext |-> is_extended']
        /\ Now = [shift |-> shift_pressed, lock |-> caps_lock_active, ext |-> is_extended]
    BY DEF Now
  <1> DEFINE Kept ==
         last_ascii_char' = IF IsChar(delivered') THEN delivered' ELSE last_ascii_char
             Silent ==
         delivered' = Nothing /\ last_ascii_char' = last_ascii_char
  <1>6. Nothing \in Events /\ ~IsChar(Nothing)
    BY DEF Nothing, Events, IsChar
  <1>7. Silent => Kept /\ delivered' \in Events
    BY <1>6
  <1>8. CASE Prefix(b)
    <2>1. b = E0 /\ is_extended' = TRUE /\ Silent
          /\ UNCHANGED <<shift_pressed, caps_lock_active>>
      BY <1>8 DEF Prefix
    <2>2. Meant(Now, b) = Nothing
          /\ After(Now, b) = [shift |-> shift_pressed, lock |-> caps_lock_active, ext |-> TRUE]
      BY <1>5, <2>1, Zenon DEF Meant, After
    <2>3. QED
      BY <1>1, <1>2, <1>3, <1>5, <1>7, <2>1, <2>2 DEF b
  <1>9. CASE Extended(b)
    <2>1. /\ b # E0 /\ is_extended /\ is_extended' = FALSE
          /\ UNCHANGED <<shift_pressed, caps_lock_active, last_ascii_char>>
      BY <1>9 DEF Extended
    <2>2. delivered' = Arrow(b)
      BY <1>9 DEF Extended, Arrow, ArrowUp, ArrowDown
    <2>3. Arrow(b) \in {0, 256, 257}
      BY DEF Arrow, HistoryUp, HistoryDown, Nothing
    <2>4. delivered' \in Events /\ Kept
      BY <2>1, <2>2, <2>3 DEF Events, IsChar
    <2>5. Meant(Now, b) = Arrow(b)
          /\ After(Now, b) = [shift |-> shift_pressed, lock |-> caps_lock_active, ext |-> FALSE]
      BY <1>5, <2>1, Zenon DEF Meant, After
    <2>6. QED
      BY <1>1, <1>2, <1>3, <1>5, <2>1, <2>2, <2>4, <2>5 DEF b
  <1>10. CASE Shift(b)
    <2>1. /\ b # E0 /\ ~is_extended /\ Silent
          /\ caps_lock_active' = caps_lock_active /\ is_extended' = FALSE
          /\ IsModifier(b) \/ b >= Release
          /\ \/ b \in {LShift, RShift} /\ shift_pressed' = TRUE
             \/ /\ b \in {LShift + Release, RShift + Release} /\ b \notin {LShift, RShift}
                /\ shift_pressed' = FALSE
      BY <1>3, <1>10 DEF Shift, Plain, IsModifier, LShift, RShift, Release
    <2>2. Meant(Now, b) = Nothing
      BY <1>5, <2>1, Zenon DEF Meant
    <2>3. After(Now, b) = [shift |-> shift_pressed', lock |-> caps_lock_active, ext |-> FALSE]
      BY <1>5, <2>1, Zenon DEF After
    <2>4. shift_pressed' \in BOOLEAN
      BY <2>1
    <2>5. QED
      BY <1>1, <1>2, <1>3, <1>5, <1>7, <2>1, <2>2, <2>3, <2>4 DEF b
  <1>11. CASE Caps(b)
    <2>1. /\ b # E0 /\ ~is_extended /\ Silent
          /\ shift_pressed' = shift_pressed /\ is_extended' = FALSE
          /\ caps_lock_active' = ~caps_lock_active
          /\ b = CapsLock /\ IsModifier(b)
          /\ b \notin {LShift, RShift} /\ b \notin {LShift + Release, RShift + Release}
      BY <1>3, <1>11 DEF Caps, Plain, IsModifier, LShift, RShift, CapsLock, Release
    <2>2. Meant(Now, b) = Nothing
      BY <1>5, <2>1, Zenon DEF Meant
    <2>3. After(Now, b) = [shift |-> shift_pressed, lock |-> ~caps_lock_active, ext |-> FALSE]
      BY <1>5, <2>1, Zenon DEF After
    <2>4. QED
      BY <1>1, <1>2, <1>3, <1>5, <1>7, <2>1, <2>2, <2>3 DEF b
  <1>12. ASSUME b # E0, ~is_extended, b \notin {LShift, RShift, CapsLock},
                b \notin {LShift + Release, RShift + Release},
                UNCHANGED <<shift_pressed, caps_lock_active, is_extended>>
         PROVE  Now' = After(Now, b) /\ is_extended' \in BOOLEAN
    <2>1. After(Now, b) = Now
      BY <1>5, <1>12, Zenon DEF After
    <2>2. QED
      BY <1>3, <1>5, <1>12, <2>1
  <1>13. CASE KeyPress(b)
    <2>1. /\ b \in 0 .. 127 /\ ~IsModifier(b) /\ b # E0 /\ ~is_extended /\ ~(b >= Release)
          /\ b \notin {LShift, RShift, CapsLock}
          /\ b \notin {LShift + Release, RShift + Release}
      BY <1>2, <1>13 DEF KeyPress, Plain, Bytes, Release, IsModifier, LShift, RShift
    <2>2. Ascii(b) = AsciiIn(Now, b)
      BY <1>5 DEF Ascii, AsciiIn
    <2>3. Ascii(b) \in 0 .. 255
      BY <2>1, <2>2, AsciiType
    <2>4. delivered' = Ascii(b)
          /\ last_ascii_char' = (IF Ascii(b) # 0 THEN Ascii(b) ELSE last_ascii_char)
          /\ UNCHANGED <<shift_pressed, caps_lock_active, is_extended>>
      BY <1>13 DEF KeyPress
    <2>5. Meant(Now, b) = AsciiIn(Now, b)
      BY <1>5, <2>1, Zenon DEF Meant
    <2>6. Ascii(b) \in Events /\ (IsChar(Ascii(b)) <=> Ascii(b) # 0)
      BY <2>3 DEF IsChar, Events
    <2>7. delivered' \in Events /\ Kept
      BY <2>4, <2>6, Zenon
    <2>8. Now' = After(Now, b)
      BY <1>12, <2>1, <2>4
    <2>9. delivered' = Meant(Now, b)
      BY <2>2, <2>4, <2>5
    <2>10. QED
      BY <1>1, <1>2, <1>3, <2>4, <2>7, <2>8, <2>9 DEF b
  <1>14. CASE KeyRelease(b)
    <2>1. /\ b >= Release /\ b # E0 /\ ~is_extended /\ Silent
          /\ b \notin {LShift, RShift, CapsLock}
          /\ b \notin {LShift + Release, RShift + Release}
          /\ UNCHANGED <<shift_pressed, caps_lock_active, is_extended>>
      BY <1>2, <1>14 DEF KeyRelease, Plain, LShift, RShift, CapsLock, Release, Bytes
    <2>2. Meant(Now, b) = Nothing
      BY <1>5, <2>1, Zenon DEF Meant
    <2>3. Now' = After(Now, b)
      BY <1>12, <2>1
    <2>4. QED
      BY <1>1, <1>2, <1>3, <1>7, <2>1, <2>2, <2>3 DEF b
  <1>15. QED
    BY <1>4, <1>8, <1>9, <1>10, <1>11, <1>13, <1>14

LEMMA HandlerTypes == ASSUME TypeOK, keyboard_handler_c PROVE TypeOK'
  <1>1. wire' \in Seq(Sents)
    BY HandlerDoes, ModeTypes, HeadTailProperties
  <1>2. last_ascii_char' \in 0 .. 255
    <2>1. last_ascii_char \in 0 .. 255
      BY DEF TypeOK
    <2>2. CASE IsChar(delivered')
      BY <2>2, HandlerDoes DEF IsChar
    <2>3. CASE ~IsChar(delivered')
      BY <2>1, <2>3, HandlerDoes
    <2>4. QED
      BY <2>2, <2>3
  <1>3. held' = held /\ caps' = caps
    BY DEF keyboard_handler_c
  <1>4. QED
    BY <1>1, <1>2, <1>3, HandlerDoes DEF TypeOK, Sents, Bytes, Events

LEMMA HandlerInv == ASSUME IInv, keyboard_handler_c PROVE IInv'
  <1>1. /\ TypeOK /\ wire # <<>> /\ wire' = Tail(wire) /\ wire \in Seq(Sents)
        /\ Now \in Modes /\ Aim \in Modes /\ Leads(wire, Now, Aim)
    BY HandlerDoes, ModeTypes DEF IInv
  <1>2. Leads(wire', Now', Aim)
    BY <1>1, LeadsFrom, HandlerDoes
  <1>3. Aim' = Aim
    BY DEF keyboard_handler_c, Aim, ShiftHeld
  <1>4. QED
    BY <1>1, <1>2, <1>3, HandlerTypes DEF IInv, Leads

LEMMA GetTypes == ASSUME TypeOK, get_last_key PROVE TypeOK'
  <1>1. last_ascii_char' \in 0 .. 255
        /\ UNCHANGED <<shift_pressed, caps_lock_active, is_extended, delivered>>
    BY DEF get_last_key
  <1>2. UNCHANGED <<held, caps, wire>>
    BY DEF get_last_key, keyboard
  <1>3. QED
    BY <1>1, <1>2, Zenon DEF TypeOK

LEMMA TypesStep == TypeOK /\ [Next]_vars => TypeOK'
  <1> SUFFICES ASSUME TypeOK, [Next]_vars PROVE TypeOK'
    OBVIOUS
  <1>1. CASE UNCHANGED vars
    BY <1>1, Zenon DEF vars, keyboard, TypeOK
  <1>2. QED
    BY <1>1, UserTypes, HandlerTypes, GetTypes DEF Next

LEMMA NextInv == OneShift /\ IInv /\ [Next]_vars => IInv'
  <1> SUFFICES ASSUME OneShift, IInv, [Next]_vars PROVE IInv'
    OBVIOUS
  <1>1. CASE User
    BY <1>1, UserInv
  <1>2. CASE keyboard_handler_c
    BY <1>2, HandlerInv
  <1>3. CASE get_last_key \/ UNCHANGED vars
    <2>1. UNCHANGED <<wire, Now, Aim>>
      BY <1>3 DEF get_last_key, vars, keyboard, Now, Aim, ShiftHeld
    <2>2. QED
      BY <2>1, TypesStep DEF IInv, Leads
  <1>4. QED
    BY <1>1, <1>2, <1>3 DEF Next

-----------------------------------------------------------------------------
(* The theorems.                                                           *)

\* Bytes, flags and characters have their types in every state, for every set of
\* keys (keyboard.c:8-38).
THEOREM TypeCorrect == Spec => []TypeOK
  <1>1. Init => TypeOK
    BY InitInv DEF IInv
  <1>2. QED
    BY <1>1, TypesStep, PTL DEF Spec

\* The inductive invariant holds in every state of a keyboard with one shift key.
LEMMA Invariance == ASSUME OneShift PROVE Spec => []IInv
  BY InitInv, NextInv, PTL DEF Spec

\* Once it has read every byte the handler has the modifiers as they are, on a
\* keyboard with one shift key, however many bytes it was behind
\* (keyboard.c:45-62).
THEOREM StaysInStep == ASSUME OneShift PROVE Spec => []InStep
  <1>1. IInv => InStep
    <2> SUFFICES ASSUME IInv, wire = <<>>
                 PROVE  ~is_extended /\ shift_pressed = ShiftHeld /\ caps_lock_active = caps
      BY DEF InStep
    <2>1. Now = Aim
      BY DEF IInv, Leads
    <2>2. QED
      BY <2>1 DEF Now, Aim
  <1>2. QED
    BY <1>1, Invariance, PTL

\* What Translates says of one step.
AsMeant ==
  Len(wire') < Len(wire) =>
    /\ delivered' = Head(wire).means
    /\ IsChar(delivered') => last_ascii_char' = delivered'

\* On a keyboard with one shift key each byte makes the handler call what the
\* user meant by it (keyboard.c:41-84).
THEOREM TranslatesKeys == ASSUME OneShift PROVE Spec => Translates
  <1>1. IInv /\ [Next]_vars => [AsMeant]_vars
    <2> SUFFICES ASSUME IInv, Next PROVE AsMeant
      BY DEF vars
    <2>1. CASE keyboard_handler_c
      <3>1. Head(wire).means = Meant(Now, Head(wire).byte)
        BY <2>1, ModeTypes, HandlerDoes, LeadsFrom DEF IInv
      <3>2. QED
        BY <2>1, <3>1, HandlerDoes DEF IInv, AsMeant
    <2>2. CASE get_last_key
      BY <2>2, ModeTypes DEF get_last_key, keyboard, AsMeant, IInv
    <2>3. CASE User
      <3>1. TypeOK /\ wire \in Seq(Sents)
        BY ModeTypes DEF IInv
      <3>2. PICK s \in Seq(Sents) : wire' = wire \o s
        BY <2>3, <3>1, UserTypes
      <3>3. Len(wire') >= Len(wire)
        BY <3>1, <3>2
      <3>4. ~(Len(wire') < Len(wire))
        BY <3>1, <3>2, <3>3
      <3>5. QED
        BY <3>4 DEF AsMeant
    <2>4. QED
      BY <2>1, <2>2, <2>3 DEF Next
  <1>2. QED
    BY <1>1, Invariance, PTL DEF Spec, Translates, AsMeant

-----------------------------------------------------------------------------
(* Any number of shift keys.                                               *)

\* The bytes of w lead from one mode to the other, whatever was meant by them.
Reaches(w, from, to) ==
  \E u \in Seq(Sents) :
    /\ Len(u) = Len(w) /\ \A i \in 1 .. Len(w) : u[i].byte = w[i].byte
    /\ Leads(u, from, to)

\* Once it has read every byte the handler is in no shift that has ended.
ShiftEnds ==
  wire = <<>> => /\ ~is_extended /\ caps_lock_active = caps
                 /\ shift_pressed => ShiftHeld

\* The bytes on the way take the handler to a mode with the lock as it is, and
\* without shift unless a shift key is down.
Approaches ==
  \E goal \in Modes : /\ goal.lock = caps /\ ~goal.ext /\ (goal.shift => ShiftHeld)
                      /\ Reaches(wire, Now, goal)

\* Where a key's bytes lead.
Goes(k, to, code) == IF k.ext THEN to ELSE After(to, code)

LEMMA MeantType == ASSUME NEW m \in Modes, NEW b \in Bytes PROVE Meant(m, b) \in Events
  <1>1. Arrow(b) \in Events /\ Nothing \in Events
    BY DEF Arrow, Events, Nothing, HistoryUp, HistoryDown
  <1>2. CASE b < Release
    <2>1. b \in 0 .. 127
      BY <1>2 DEF Bytes, Release
    <2>2. AsciiIn(m, b) \in Events
      BY <2>1, AsciiType DEF Events
    <2>3. QED
      BY <1>1, <2>2 DEF Meant
  <1>3. CASE b >= Release
    BY <1>1, <1>3 DEF Meant
  <1>4. QED
    BY <1>2, <1>3 DEF Bytes, Release

LEMMA ReachesOn ==
  ASSUME NEW w \in Seq(Sents), NEW from \in Modes, NEW to \in Modes, NEW e \in Sents,
         Reaches(w, from, to)
  PROVE  Reaches(Append(w, e), from, After(to, e.byte))
  <1>1. PICK u \in Seq(Sents) :
          /\ Len(u) = Len(w) /\ \A i \in 1 .. Len(w) : u[i].byte = w[i].byte
          /\ Leads(u, from, to)
    BY DEF Reaches
  <1> DEFINE b == e.byte
             f == [byte |-> b, means |-> Meant(to, b)]
  <1>2. b \in Bytes /\ Meant(to, b) \in Events
    <2>1. b \in Bytes
      BY DEF Sents
    <2>2. QED
      BY <2>1, MeantType
  <1>3. f \in Sents /\ f.byte = b
    BY <1>2 DEF Sents
  <1>4. Leads(Append(u, f), from, After(to, b))
    BY <1>1, <1>2, LeadsOn
  <1> HIDE DEF f
  <1>5. Append(u, f) \in Seq(Sents) /\ Len(Append(u, f)) = Len(Append(w, e))
    BY <1>1, <1>3
  <1>6. \A i \in 1 .. Len(Append(w, e)) : Append(u, f)[i].byte = Append(w, e)[i].byte
    BY <1>1, <1>3
  <1>7. QED
    BY <1>4, <1>5, <1>6 DEF Reaches

LEMMA ReachesFrom ==
  ASSUME NEW w \in Seq(Sents), w # <<>>, NEW from \in Modes, NEW to \in Modes,
         Reaches(w, from, to)
  PROVE  Reaches(Tail(w), After(from, Head(w).byte), to)
  <1>1. PICK u \in Seq(Sents) :
          /\ Len(u) = Len(w) /\ \A i \in 1 .. Len(w) : u[i].byte = w[i].byte
          /\ Leads(u, from, to)
    BY DEF Reaches
  <1>2. Len(w) \in Nat /\ Len(w) > 0 /\ u # <<>>
    BY <1>1, EmptySeq
  <1>3. Head(u).byte = Head(w).byte
    BY <1>1, <1>2
  <1>4. Leads(Tail(u), After(from, Head(w).byte), to)
    BY <1>1, <1>2, <1>3, LeadsFrom
  <1>5. /\ Tail(u) \in Seq(Sents) /\ Len(Tail(u)) = Len(Tail(w))
        /\ \A i \in 1 .. Len(Tail(w)) : Tail(u)[i].byte = Tail(w)[i].byte
    BY <1>1, <1>2
  <1>6. QED
    BY <1>4, <1>5 DEF Reaches

\* A key's bytes take the handler on from where the bytes before them do.
LEMMA SentReaches ==
  ASSUME NEW w \in Seq(Sents), NEW from \in Modes, NEW to \in Modes, ~to.ext,
         NEW k \in Keys, NEW code \in Bytes, code # E0, NEW means \in Events,
         Reaches(w, from, to)
  PROVE  Reaches(w \o Sent(k, code, means), from, Goes(k, to, code))
  <1> DEFINE last == [byte |-> code, means |-> means]
             first == [byte |-> E0, means |-> Nothing]
             mid == After(to, E0)
  <1>1. last \in Sents /\ first \in Sents /\ last.byte = code /\ first.byte = E0
    BY DEF Sents, Bytes, E0, Events, Nothing
  <1>2. mid = [shift |-> to.shift, lock |-> to.lock, ext |-> TRUE] /\ mid \in Modes
    BY DEF After, Modes
  <1>3. After(mid, code) = to
    BY <1>2 DEF After, Modes
  <1>4. Sent(k, code, means) = (IF k.ext THEN <<first>> ELSE <<>>) \o <<last>>
    BY DEF Sent
  <1> HIDE DEF last, first, mid
  <1>5. CASE k.ext
    <2>1. w \o Sent(k, code, means) = Append(Append(w, first), last)
          /\ Append(w, first) \in Seq(Sents)
      <3>1. Sent(k, code, means) = <<first>> \o <<last>>
        BY <1>4, <1>5
      <3>2. w \o (<<first>> \o <<last>>) = Append(Append(w, first), last)
            /\ Append(w, first) \in Seq(Sents)
        BY <1>1
      <3>3. QED
        BY <3>1, <3>2
    <2>2. Reaches(Append(w, first), from, mid)
      BY <1>1, ReachesOn DEF mid
    <2>3. Reaches(Append(Append(w, first), last), from, After(mid, code))
      BY <1>1, <1>2, <2>1, <2>2, ReachesOn
    <2>4. QED
      BY <1>3, <1>5, <2>1, <2>3 DEF Goes
  <1>6. CASE ~k.ext
    <2>1. w \o Sent(k, code, means) = Append(w, last)
      BY <1>1, <1>4, <1>6
    <2>2. Reaches(Append(w, last), from, After(to, code))
      BY <1>1, ReachesOn
    <2>3. QED
      BY <1>6, <2>1, <2>2 DEF Goes
  <1>7. QED
    BY <1>5, <1>6

\* A key that goes down or up keeps the goal within what is held.
LEMMA GoalPress ==
  ASSUME TypeOK, NEW k \in Keys, PressKey(k),
         NEW goal \in Modes, goal.lock = caps, ~goal.ext, goal.shift => ShiftHeld
  PROVE  /\ Goes(k, goal, k.code) \in Modes
         /\ Goes(k, goal, k.code).lock = caps'
         /\ ~Goes(k, goal, k.code).ext
         /\ Goes(k, goal, k.code).shift => ShiftHeld'
  <1> DEFINE new == Goes(k, goal, k.code)
  <1>0. new = IF k.ext THEN goal ELSE After(goal, k.code)
    BY DEF Goes
  <1> HIDE DEF new
  <1> SUFFICES new \in Modes /\ new.lock = caps' /\ ~new.ext /\ (new.shift => ShiftHeld')
    BY DEF new
  <1>1. k.code \in 1 .. 95 /\ k.ext \in BOOLEAN /\ caps \in BOOLEAN
    BY KeyboardAssumption DEF TypeOK
  <1>2. held' = held \cup {k} /\ caps' = (caps # IsCaps(k))
    BY DEF PressKey
  <1>3. (ShiftHeld => ShiftHeld') /\ (IsShift(k) => ShiftHeld')
    BY <1>2, Zenon DEF ShiftHeld
  <1>4. new \in Modes
    BY <1>0, <1>1, AfterType DEF Bytes
  <1>5. CASE k.ext
    <2>1. new = goal /\ IsCaps(k) = FALSE
      BY <1>0, <1>5 DEF IsCaps
    <2>2. caps' = caps
      BY <1>1, <1>2, <2>1
    <2>3. QED
      BY <1>3, <1>4, <2>1, <2>2
  <1>6. CASE ~k.ext
    <2>1. /\ new = After(goal, k.code) /\ k.code # E0
          /\ k.code \notin {LShift + Release, RShift + Release}
      BY <1>0, <1>1, <1>6 DEF E0, LShift, RShift, Release
    <2>2. CASE k.code \in {LShift, RShift}
      <3>1. IsShift(k) /\ IsCaps(k) = FALSE
        BY <1>6, <2>2 DEF IsShift, IsCaps, LShift, RShift, CapsLock
      <3>2. new = [shift |-> TRUE, lock |-> caps, ext |-> FALSE]
        BY <2>1, <2>2 DEF After
      <3>3. caps' = caps
        BY <1>1, <1>2, <3>1
      <3>4. QED
        BY <1>3, <1>4, <3>1, <3>2, <3>3
    <2>3. CASE k.code = CapsLock
      <3>1. IsCaps(k) = TRUE /\ k.code \notin {LShift, RShift}
        BY <1>6, <2>3 DEF IsCaps, LShift, RShift, CapsLock
      <3>2. new = [shift |-> goal.shift, lock |-> ~caps, ext |-> FALSE]
        BY <2>1, <2>3, <3>1 DEF After
      <3>3. caps' = ~caps
        BY <1>1, <1>2, <3>1
      <3>4. QED
        BY <1>3, <1>4, <3>2, <3>3
    <2>4. CASE k.code \notin {LShift, RShift, CapsLock}
      <3>1. IsCaps(k) = FALSE /\ new = goal
        BY <2>1, <2>4 DEF IsCaps, After
      <3>2. caps' = caps
        BY <1>1, <1>2, <3>1
      <3>3. QED
        BY <1>3, <1>4, <3>1, <3>2
    <2>5. QED
      BY <2>2, <2>3, <2>4
  <1>7. QED
    BY <1>5, <1>6

LEMMA GoalRelease ==
  ASSUME TypeOK, NEW k \in Keys, ReleaseKey(k),
         NEW goal \in Modes, goal.lock = caps, ~goal.ext, goal.shift => ShiftHeld
  PROVE  /\ Goes(k, goal, k.code + Release) \in Modes
         /\ Goes(k, goal, k.code + Release).lock = caps'
         /\ ~Goes(k, goal, k.code + Release).ext
         /\ Goes(k, goal, k.code + Release).shift => ShiftHeld'
  <1> DEFINE new == Goes(k, goal, k.code + Release)
  <1>0. new = IF k.ext THEN goal ELSE After(goal, k.code + Release)
    BY DEF Goes
  <1> HIDE DEF new
  <1> SUFFICES new \in Modes /\ new.lock = caps' /\ ~new.ext /\ (new.shift => ShiftHeld')
    BY DEF new
  <1>1. k.code \in 1 .. 95 /\ k.ext \in BOOLEAN /\ k.code + Release \in Bytes
    BY KeyboardAssumption DEF Release, Bytes
  <1>2. held' = held \ {k} /\ caps' = caps
    BY DEF ReleaseKey
  <1>3. new \in Modes
    BY <1>0, <1>1, AfterType
  <1>4. ~IsShift(k) /\ ShiftHeld => ShiftHeld'
    BY <1>2, Zenon DEF ShiftHeld
  <1>5. CASE IsShift(k)
    <2>1. /\ ~k.ext /\ k.code + Release # E0 /\ k.code + Release \notin {LShift, RShift}
          /\ k.code + Release \in {LShift + Release, RShift + Release}
      BY <1>1, <1>5 DEF IsShift, LShift, RShift, E0, Release
    <2>2. new = [shift |-> FALSE, lock |-> caps, ext |-> FALSE]
      BY <1>0, <2>1 DEF After
    <2>3. QED
      BY <1>2, <1>3, <2>2
  <1>6. CASE ~IsShift(k)
    <2>1. new = goal
      BY <1>0, <1>1, <1>6 DEF After, IsShift, LShift, RShift, CapsLock, E0, Release
    <2>2. QED
      BY <1>2, <1>3, <1>4, <1>6, <2>1
  <1>7. QED
    BY <1>5, <1>6

LEMMA ApproachesUser == ASSUME TypeOK, Approaches, User PROVE Approaches'
  <1>1. PICK k \in Keys : PressKey(k) \/ ReleaseKey(k)
    BY DEF User
  <1>2. /\ k.code \in 1 .. 95 /\ k.code \in Bytes /\ k.code # E0
        /\ k.code + Release \in Bytes /\ k.code + Release # E0
    BY KeyboardAssumption DEF Bytes, E0, Release
  <1>3. PICK goal \in Modes : /\ goal.lock = caps /\ ~goal.ext /\ (goal.shift => ShiftHeld)
                              /\ Reaches(wire, Now, goal)
    BY DEF Approaches
  <1>4. Now' = Now
    BY DEF User, Now
  <1>5. Now \in Modes /\ wire \in Seq(Sents)
    BY ModeTypes
  <1>6. CASE PressKey(k)
    <2> DEFINE new == Goes(k, goal, k.code)
    <2>1. wire' = wire \o Sent(k, k.code, Meaning(k)) /\ Meaning(k) \in Events
      BY <1>6, PressMeans DEF PressKey
    <2>2. Reaches(wire', Now, new)
      BY <1>2, <1>3, <1>5, <2>1, SentReaches
    <2>3. new \in Modes /\ new.lock = caps' /\ ~new.ext /\ (new.shift => ShiftHeld')
      BY <1>3, <1>6, GoalPress
    <2> HIDE DEF new
    <2>4. QED
      BY <1>4, <2>2, <2>3 DEF Approaches
  <1>7. CASE ReleaseKey(k)
    <2> DEFINE new == Goes(k, goal, k.code + Release)
    <2>1. wire' = wire \o Sent(k, k.code + Release, Nothing) /\ Nothing \in Events
      BY <1>7 DEF ReleaseKey, Nothing, Events
    <2>2. Reaches(wire', Now, new)
      BY <1>2, <1>3, <1>5, <2>1, SentReaches
    <2>3. new \in Modes /\ new.lock = caps' /\ ~new.ext /\ (new.shift => ShiftHeld')
      BY <1>3, <1>7, GoalRelease
    <2> HIDE DEF new
    <2>4. QED
      BY <1>4, <2>2, <2>3 DEF Approaches
  <1>8. QED
    BY <1>1, <1>6, <1>7

LEMMA ApproachesStep == TypeOK /\ Approaches /\ [Next]_vars => Approaches'
  <1> SUFFICES ASSUME TypeOK, Approaches, [Next]_vars PROVE Approaches'
    OBVIOUS
  <1>1. PICK goal \in Modes : /\ goal.lock = caps /\ ~goal.ext /\ (goal.shift => ShiftHeld)
                              /\ Reaches(wire, Now, goal)
    BY DEF Approaches
  <1>2. CASE keyboard_handler_c
    <2>1. /\ wire # <<>> /\ wire' = Tail(wire) /\ wire \in Seq(Sents) /\ Now \in Modes
          /\ Now' = After(Now, Head(wire).byte)
      BY <1>2, HandlerDoes, ModeTypes
    <2>2. Reaches(wire', Now', goal)
      BY <1>1, <2>1, ReachesFrom
    <2>3. caps' = caps /\ (ShiftHeld' <=> ShiftHeld)
      BY <1>2 DEF keyboard_handler_c, ShiftHeld
    <2>4. QED
      BY <1>1, <2>2, <2>3 DEF Approaches
  <1>3. CASE get_last_key \/ UNCHANGED vars
    <2>1. UNCHANGED <<wire, Now, caps>> /\ (ShiftHeld' <=> ShiftHeld)
      BY <1>3 DEF get_last_key, vars, keyboard, Now, ShiftHeld
    <2>2. QED
      BY <1>1, <2>1 DEF Approaches
  <1>4. QED
    BY <1>2, <1>3, ApproachesUser DEF Next

\* However many shift keys there are and however many bytes the handler is
\* behind, it never goes on shifting once they have been read and none is down:
\* only the other way round can it be wrong, when of two shift keys one comes up
\* (keyboard.c:60-61).
THEOREM NoShiftSticks == Spec => []ShiftEnds
  <1>1. Init => TypeOK /\ Approaches
    <2> SUFFICES ASSUME Init PROVE TypeOK /\ Approaches
      OBVIOUS
    <2>1. TypeOK /\ Leads(wire, Now, Aim) /\ Aim \in Modes /\ wire \in Seq(Sents)
      BY InitInv, ModeTypes DEF IInv
    <2>2. Reaches(wire, Now, Aim)
      BY <2>1 DEF Reaches
    <2>3. Aim.lock = caps /\ ~Aim.ext /\ (Aim.shift => ShiftHeld)
      BY DEF Aim
    <2>4. QED
      BY <2>1, <2>2, <2>3 DEF Approaches
  <1>2. TypeOK /\ Approaches => ShiftEnds
    <2> SUFFICES ASSUME Approaches, wire = <<>>
                 PROVE  ~is_extended /\ caps_lock_active = caps /\ (shift_pressed => ShiftHeld)
      BY DEF ShiftEnds
    <2>1. PICK goal \in Modes : /\ goal.lock = caps /\ ~goal.ext /\ (goal.shift => ShiftHeld)
                                /\ Reaches(wire, Now, goal)
      BY DEF Approaches
    <2>2. PICK u \in Seq(Sents) : Len(u) = 0 /\ Leads(u, Now, goal)
      BY <2>1 DEF Reaches
    <2>3. Now = goal
      BY <2>2 DEF Leads
    <2>4. /\ Now.shift = shift_pressed /\ Now.lock = caps_lock_active
          /\ Now.ext = is_extended
      BY DEF Now
    <2>5. QED
      BY <2>1, <2>3, <2>4, Zenon
  <1>3. QED
    BY <1>1, <1>2, TypesStep, ApproachesStep, PTL DEF Spec
===============================================================================
