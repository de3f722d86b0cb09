------------------------------- MODULE Keyboard -------------------------------
(***************************************************************************)
(* The keyboard driver of drivers/keyboard.c.  The keyboard sends one or   *)
(* two bytes when a key goes down and when it comes up; each raises an     *)
(* interrupt, and keyboard_handler_c turns the bytes into characters for   *)
(* the terminal and into calls of the shell's history.  The handler runs   *)
(* with interrupts masked, and so is one step.                             *)
(***************************************************************************)
EXTENDS Integers, Sequences, FiniteSets

CONSTANTS
  Keys,      \* the keys: a code, and whether E0 goes before it
  MaxHeld,   \* bound: how many keys other than shift are down at a time
  MaxWire    \* bound: how many bytes may wait for the handler

E0 == 224
Release == 128   \* what is added to the code of a key that comes up
LShift == 42
RShift == 54
CapsLock == 58
ArrowUp == 72
ArrowDown == 80

\* No code reaches 96, whose release would look like E0.
ASSUME KeyboardAssumption ==
  /\ Keys \subseteq [code : 1 .. 95, ext : BOOLEAN]
  /\ MaxHeld \in Nat /\ MaxWire \in Nat

VARIABLES
  held, caps,   \* the keys that are down, and whether capitals are locked
  wire,         \* the bytes not handled yet, each with what it means
  shift_pressed, caps_lock_active, is_extended,
  last_ascii_char,
  delivered     \* what the last run of the handler called, and with what

keyboard == <<held, caps, wire>>
vars == <<keyboard, shift_pressed, caps_lock_active, is_extended,
          last_ascii_char, delivered>>

\* What a byte makes the handler call: nothing, one of the history's two
\* functions, or terminal_handle_key with a character.
Nothing == 0
HistoryUp == 256
HistoryDown == 257
IsChar(e) == e \in 1 .. 255

\* A table's entry; the entries behind those it lists are 0.
Row(s, table) == IF s < Len(table) THEN table[s + 1] ELSE 0

\* The two tables, in ASCII.
scancode_to_ascii == [s \in 0 .. 127 |-> Row(s,
  <<0, 27, 49, 50, 51, 52, 53, 54, 55, 56, 57, 48, 45, 61, 8,
    9, 113, 119, 101, 114, 116, 121, 117, 105, 111, 112, 91, 93, 10,
    0, 97, 115, 100, 102, 103, 104, 106, 107, 108, 59, 39, 96, 0,
    92, 122, 120, 99, 118, 98, 110, 109, 44, 46, 47, 0, 42, 0, 32>>)]

scancode_to_ascii_shift == [s \in 0 .. 127 |-> Row(s,
  <<0, 27, 33, 64, 35, 36, 37, 94, 38, 42, 40, 41, 95, 43, 8,
    9, 81, 87, 69, 82, 84, 89, 85, 73, 79, 80, 123, 125, 10,
    0, 65, 83, 68, 70, 71, 72, 74, 75, 76, 58, 34, 126, 0,
    124, 90, 88, 67, 86, 66, 78, 77, 60, 62, 63, 0, 42, 0, 32>>)]

Init ==
  /\ held = {} /\ caps = FALSE /\ wire = <<>>
  /\ shift_pressed = FALSE /\ caps_lock_active = FALSE /\ is_extended = FALSE
  /\ last_ascii_char = 0 /\ delivered = Nothing

-----------------------------------------------------------------------------
(* The keyboard and its user.                                              *)

IsShift(k) == ~k.ext /\ k.code \in {LShift, RShift}
IsCaps(k) == ~k.ext /\ k.code = CapsLock
ShiftHeld == \E k \in held : IsShift(k)

\* The character on a key: a letter is a capital under one of shift and the
\* lock, and another key has its upper character under shift.
CharOf(k) ==
  LET lower == scancode_to_ascii[k.code]
  IN  IF lower \in 97 .. 122
      THEN IF caps # ShiftHeld THEN lower - 32 ELSE lower
      ELSE IF ShiftHeld THEN scancode_to_ascii_shift[k.code] ELSE lower

\* What pressing a key means.
Meaning(k) ==
  IF k.ext THEN CASE k.code = ArrowUp -> HistoryUp
                  [] k.code = ArrowDown -> HistoryDown
                  [] OTHER -> Nothing
  ELSE IF IsShift(k) \/ IsCaps(k) THEN Nothing
  ELSE CharOf(k)

\* A key's bytes, the last of which has its meaning.
Sent(k, code, means) ==
  (IF k.ext THEN <<[byte |-> E0, means |-> Nothing]>> ELSE <<>>)
    \o <<[byte |-> code, means |-> means]>>

\* A key that is held goes on being sent; the lock is pressed anew each time.
PressKey(k) ==
  /\ IsCaps(k) => k \notin held
  /\ IsShift(k) \/ Cardinality({j \in held : ~IsShift(j)} \cup {k}) <= MaxHeld
  /\ held' = held \cup {k}
  /\ caps' = (caps # IsCaps(k))
  /\ wire' = wire \o Sent(k, k.code, Meaning(k))

ReleaseKey(k) ==
  /\ k \in held
  /\ held' = held \ {k}
  /\ wire' = wire \o Sent(k, k.code + Release, Nothing)
  /\ UNCHANGED caps

User ==
  /\ \E k \in Keys : PressKey(k) \/ ReleaseKey(k)
  /\ Len(wire') <= MaxWire
  /\ UNCHANGED <<shift_pressed, caps_lock_active, is_extended, last_ascii_char, delivered>>

-----------------------------------------------------------------------------
(* keyboard_handler_c, for the byte it reads; and get_last_key.            *)

Prefix(scancode) ==
  /\ scancode = E0
  /\ is_extended' = TRUE /\ delivered' = Nothing
  /\ UNCHANGED <<shift_pressed, caps_lock_active, last_ascii_char>>

\* Fault: the prefix is not forgotten.
ExtendedAgain(scancode) ==
  /\ scancode # E0 /\ is_extended
  /\ delivered' = CASE scancode = ArrowUp -> HistoryUp
                    [] scancode = ArrowDown -> HistoryDown
                    [] OTHER -> Nothing
  /\ UNCHANGED <<is_extended, shift_pressed, caps_lock_active, last_ascii_char>>

\* Fault: an arrow is left for get_last_key.
ExtendedKept(scancode) ==
  /\ scancode # E0 /\ is_extended
  /\ is_extended' = FALSE
  /\ delivered' = CASE scancode = ArrowUp -> HistoryUp
                    [] scancode = ArrowDown -> HistoryDown
                    [] OTHER -> Nothing
  /\ last_ascii_char' = delivered'
  /\ UNCHANGED <<shift_pressed, caps_lock_active>>

Extended(scancode) ==
  /\ scancode # E0 /\ is_extended
  /\ is_extended' = FALSE
  /\ delivered' = CASE scancode = ArrowUp -> HistoryUp
                    [] scancode = ArrowDown -> HistoryDown
                    [] OTHER -> Nothing
  /\ UNCHANGED <<shift_pressed, caps_lock_active, last_ascii_char>>

Plain(scancode) == scancode # E0 /\ ~is_extended

Shift(scancode) ==
  /\ Plain(scancode)
  /\ \/ scancode \in {LShift, RShift} /\ shift_pressed' = TRUE
     \/ scancode \in {LShift + Release, RShift + Release} /\ shift_pressed' = FALSE
  /\ delivered' = Nothing
  /\ UNCHANGED <<caps_lock_active, is_extended, last_ascii_char>>

Caps(scancode) ==
  /\ Plain(scancode) /\ scancode = CapsLock
  /\ caps_lock_active' = ~caps_lock_active
  /\ delivered' = Nothing
  /\ UNCHANGED <<shift_pressed, is_extended, last_ascii_char>>

is_letter(scancode) == scancode \in 16 .. 25 \cup 30 .. 38 \cup 44 .. 50

\* Fault: shift wins over the lock.
AsciiCapsOr(scancode) ==
  IF shift_pressed \/ (is_letter(scancode) /\ caps_lock_active)
  THEN scancode_to_ascii_shift[scancode] ELSE scancode_to_ascii[scancode]

Ascii(scancode) ==
  IF shift_pressed # (is_letter(scancode) /\ caps_lock_active)
  THEN scancode_to_ascii_shift[scancode] ELSE scancode_to_ascii[scancode]

IsModifier(scancode) == scancode \in {LShift, RShift, CapsLock}

KeyPress(scancode) ==
  /\ Plain(scancode) /\ ~IsModifier(scancode) /\ scancode < Release
  /\ delivered' = Ascii(scancode)
  /\ last_ascii_char' = IF Ascii(scancode) # 0 THEN Ascii(scancode) ELSE last_ascii_char
  /\ UNCHANGED <<shift_pressed, caps_lock_active, is_extended>>

KeyRelease(scancode) ==
  /\ Plain(scancode) /\ scancode >= Release
  /\ scancode \notin {LShift + Release, RShift + Release}
  /\ delivered' = Nothing
  /\ UNCHANGED <<shift_pressed, caps_lock_active, is_extended, last_ascii_char>>

keyboard_handler_c ==
  /\ wire # <<>>
  /\ LET scancode == Head(wire).byte
     IN  \/ Prefix(scancode) \/ Extended(scancode) \/ Shift(scancode)
         \/ Caps(scancode) \/ KeyPress(scancode) \/ KeyRelease(scancode)
  /\ wire' = Tail(wire)
  /\ UNCHANGED <<held, caps>>

get_last_key ==
  /\ last_ascii_char' = 0
  /\ UNCHANGED <<keyboard, shift_pressed, caps_lock_active, is_extended, delivered>>

Next == User \/ keyboard_handler_c \/ get_last_key

Spec == Init /\ [][Next]_vars

-----------------------------------------------------------------------------
(* Properties.                                                             *)

TypeOK ==
  /\ held \subseteq Keys /\ caps \in BOOLEAN
  /\ wire \in Seq([byte : 1 .. 255, means : 0 .. 257])
  /\ shift_pressed \in BOOLEAN /\ caps_lock_active \in BOOLEAN
  /\ is_extended \in BOOLEAN
  /\ last_ascii_char \in 0 .. 255 /\ delivered \in 0 .. 257

\* Each byte makes the handler call just what the user meant by it, and leaves
\* the character, if it is one, for get_last_key: whatever keys go down and up
\* together and however many bytes behind the handler is (keyboard.c:41-84).
Translates ==
  [][Len(wire') < Len(wire) =>
       /\ delivered' = Head(wire).means
       /\ IsChar(delivered') => last_ascii_char' = delivered']_vars

\* The handler is between the two bytes of a key exactly when the keyboard is,
\* and has the modifiers as they are, up to the bytes on the way
\* (keyboard.c:45-62).
InStep ==
  wire = <<>> =>
    /\ ~is_extended
    /\ shift_pressed = ShiftHeld
    /\ caps_lock_active = caps
=============================================================================
