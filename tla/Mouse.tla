-------------------------------- MODULE Mouse --------------------------------
(***************************************************************************)
(* The PS/2 mouse driver of drivers/mouse.c.  The mouse sends packets of   *)
(* three bytes and the keyboard sends scancodes; both arrive one byte at a *)
(* time in the controller's output buffer, where mouse_handler polls them  *)
(* and assembles packets again.  The right and middle buttons, which no    *)
(* code reads, are left out.                                               *)
(***************************************************************************)
EXTENDS Integers

CONSTANTS
  ScreenW, ScreenH,   \* the screen the pointer is clamped to, 1024 x 768
  StartX, StartY,     \* where the pointer starts, (512, 384)
  Packets,            \* the packets the mouse may send, three bytes each
  Scancodes,          \* the bytes the keyboard may send
  LateAcks            \* acknowledgements mouse_init may have left unread

\* The bit of byte b whose value is mask.
Bit(b, mask) == (b \div mask) % 2 = 1

ASSUME MouseAssumption ==
  /\ ScreenW \in Nat \ {0} /\ ScreenH \in Nat \ {0}
  /\ StartX \in 0 .. ScreenW - 1 /\ StartY \in 0 .. ScreenH - 1
  /\ Packets \subseteq [1 .. 3 -> 0 .. 255]
  /\ \A p \in Packets : Bit(p[1], 8)
  /\ Scancodes \subseteq 0 .. 255 /\ LateAcks \subseteq 0 .. 255

VARIABLES
  packet, sent,   \* the packet the mouse is sending, and how much it has sent
  obf,            \* the controller's output buffer: a byte and whose it is
  mouse_cycle, mouse_packet,   \* the packet being assembled
  mouse           \* mouse_state

device == <<packet, sent>>
driver == <<mouse_cycle, mouse_packet, mouse>>
mouseVars == <<device, obf, driver>>

Empty == [data |-> 0, aux |-> FALSE, full |-> FALSE]
FromMouse(b) == [data |-> b, aux |-> TRUE, full |-> TRUE]
FromKeyboard(b) == [data |-> b, aux |-> FALSE, full |-> TRUE]

\* mouse_init gives up waiting for an answer after a while (mouse_wait), so the
\* acknowledgement of its last command may arrive when the kernel polls already.
MouseInit ==
  /\ packet = <<0, 0, 0>> /\ sent = 3
  /\ obf \in {Empty} \cup {FromMouse(a) : a \in LateAcks}
  /\ mouse_cycle = 0 /\ mouse_packet = [i \in 0 .. 2 |-> 0]
  /\ mouse = [x |-> StartX, y |-> StartY, left |-> FALSE]

-----------------------------------------------------------------------------
(* The devices.  A packet is sent in full before the next one starts.      *)

NewPacket(p) ==
  /\ obf = Empty /\ sent = 3
  /\ packet' = p /\ sent' = 1 /\ obf' = FromMouse(p[1])
  /\ UNCHANGED driver

NextByte ==
  /\ obf = Empty /\ sent < 3
  /\ sent' = sent + 1 /\ obf' = FromMouse(packet[sent + 1])
  /\ UNCHANGED <<packet, driver>>

KeyByte(s) ==
  /\ obf = Empty
  /\ obf' = FromKeyboard(s)
  /\ UNCHANGED <<device, driver>>

Devices ==
  \/ \E p \in Packets : NewPacket(p)
  \/ NextByte
  \/ \E s \in Scancodes : KeyByte(s)

-----------------------------------------------------------------------------
(* mouse_handler.                                                          *)

Clamp(v, hi) == IF v < 0 THEN 0 ELSE IF v > hi THEN hi ELSE v

\* (int) of a char, which is signed.
SignedChar(b) == IF b >= 128 THEN b - 256 ELSE b

\* Fault: a negative movement is not extended to the sign bits.
RelZeroExtended(b, negative) == SignedChar(b)

\* rel |= 0xFFFFFF00 when the packet says the movement is negative.
Rel(b, negative) == IF negative THEN b - 256 ELSE SignedChar(b)

\* Fault: the bit of the right button is taken for the left one's.
DecodeRight(m, p) ==
  [x |-> Clamp(m.x + Rel(p[1], Bit(p[0], 16)), ScreenW - 1),
   y |-> Clamp(m.y - Rel(p[2], Bit(p[0], 32)), ScreenH - 1),
   left |-> Bit(p[0], 2)]

\* What three assembled bytes do to the pointer; y grows downwards.
Decode(m, p) ==
  [x |-> Clamp(m.x + Rel(p[1], Bit(p[0], 16)), ScreenW - 1),
   y |-> Clamp(m.y - Rel(p[2], Bit(p[0], 32)), ScreenH - 1),
   left |-> Bit(p[0], 1)]

\* No byte, or one that is not the mouse's between two packets.
Ignored == ~obf.full \/ (~obf.aux /\ mouse_cycle = 0)

Ignore == Ignored /\ UNCHANGED driver

OutOfSync ==
  /\ ~Ignored /\ mouse_cycle = 0 /\ ~Bit(obf.data, 8)
  /\ UNCHANGED driver

\* Fault: any byte starts a packet.
StoreUnsynced ==
  /\ ~Ignored
  /\ mouse_cycle \in {0, 1}
  /\ mouse_packet' = [mouse_packet EXCEPT ![mouse_cycle] = obf.data]
  /\ mouse_cycle' = mouse_cycle + 1
  /\ UNCHANGED mouse

\* Fault: the first byte of a packet is not counted.
StoreUncounted ==
  /\ ~Ignored
  /\ mouse_cycle = 1 \/ (mouse_cycle = 0 /\ Bit(obf.data, 8))
  /\ mouse_packet' = [mouse_packet EXCEPT ![mouse_cycle] = obf.data]
  /\ mouse_cycle' = 1
  /\ UNCHANGED mouse

Store ==
  /\ ~Ignored
  /\ mouse_cycle = 1 \/ (mouse_cycle = 0 /\ Bit(obf.data, 8))
  /\ mouse_packet' = [mouse_packet EXCEPT ![mouse_cycle] = obf.data]
  /\ mouse_cycle' = mouse_cycle + 1
  /\ UNCHANGED mouse

\* Fault: the cycle counts on when the packet is complete.
CompleteNoReset ==
  /\ ~Ignored /\ mouse_cycle = 2
  /\ mouse_packet' = [mouse_packet EXCEPT ![2] = obf.data]
  /\ mouse_cycle' = mouse_cycle + 1
  /\ mouse' = Decode(mouse, mouse_packet')

Complete ==
  /\ ~Ignored /\ mouse_cycle = 2
  /\ mouse_packet' = [mouse_packet EXCEPT ![2] = obf.data]
  /\ mouse_cycle' = 0
  /\ mouse' = Decode(mouse, mouse_packet')

mouse_handler ==
  /\ Ignore \/ OutOfSync \/ Store \/ Complete
  /\ obf' = Empty
  /\ UNCHANGED device

MouseNext == Devices \/ mouse_handler

\* The kernel polls for ever, and the mouse finishes a packet it has begun.
MouseSpec ==
  /\ MouseInit /\ [][MouseNext]_mouseVars
  /\ WF_mouseVars(mouse_handler) /\ WF_mouseVars(NextByte)

\* ... and the user keeps moving the mouse.
MovingSpec == MouseSpec /\ WF_mouseVars(\E p \in Packets : NewPacket(p))

-----------------------------------------------------------------------------
(* Properties.                                                             *)

\* Whatever bytes arrive, in step or out of it, the pointer stays on the screen
\* (mouse.c:132-139).
OnScreen == mouse.x \in 0 .. ScreenW - 1 /\ mouse.y \in 0 .. ScreenH - 1

MouseTypeOK ==
  /\ packet \in [1 .. 3 -> 0 .. 255] /\ sent \in 1 .. 3
  /\ obf \in [data : 0 .. 255, aux : BOOLEAN, full : BOOLEAN]
  /\ mouse_cycle \in 0 .. 2
  /\ mouse_packet \in [0 .. 2 -> 0 .. 255]
  /\ mouse \in [x : Int, y : Int, left : BOOLEAN]
  /\ OnScreen

\* The driver is at the byte of the packet the mouse is at.
Framing ==
  mouse_cycle = (sent - IF obf.full /\ obf.aux THEN 1 ELSE 0) % 3

KeyWaits == obf.full /\ ~obf.aux

\* A driver that is in step with the packets stays in step, unless a byte of the
\* keyboard comes in the middle of a packet (mouse.c:102-118).
StaysInStep ==
  [][Framing /\ ~(KeyWaits /\ mouse_cycle # 0) => Framing']_mouseVars

\* Out of step, for an acknowledgement that mouse_init did not wait for or a
\* byte of the keyboard, the driver finds the packets' boundaries again if no
\* more keys come and bit 3 of the movement bytes is clear (mouse.c:106-107).
Resyncs == <>[]~KeyWaits => <>[]Framing

\* The driver assembles packets from the mouse's bytes only: "Cek apakah data
\* berasal dari AUX (Mouse)" (mouse.c:101).
OnlyMouseBytes == [][driver' # driver => obf.aux]_mouseVars

\* The nine-bit movement of a PS/2 packet: a byte and the sign bit beside it.
Movement(b, negative) == IF negative THEN b - 256 ELSE b

SentX == Movement(packet[2], Bit(packet[1], 16))
SentY == Movement(packet[3], Bit(packet[1], 32))

\* The pointer after a movement, with the button the mouse has sent.
MovedBy(dx, dy) ==
  [x |-> Clamp(mouse.x + dx, ScreenW - 1), y |-> Clamp(mouse.y - dy, ScreenH - 1),
   left |-> Bit(packet[1], 1)]

PacketRead == Framing /\ ~KeyWaits /\ mouse_cycle = 2 /\ mouse_cycle' = 0

\* A movement above 127 is taken for one 256 lower: the byte is a signed char, and
\* nothing takes its sign away when the packet's sign bit is clear.
Taken(d) == IF d > 127 THEN d - 256 ELSE d

\* In step, a packet sets the button the mouse sent and moves the pointer by the
\* movement the mouse sent, on each axis, if it is one of -256 .. 127, and by 256
\* less if it is one of 128 .. 255 (mouse.c:121-133).
Decodes == [][PacketRead => mouse' = MovedBy(Taken(SentX), Taken(SentY))]_mouseVars


\* In step, a press the mouse reports is seen as a press by the kernel, unless a
\* key gets between.
PressSeen ==
  (Framing /\ sent = 1 /\ obf.full /\ Bit(packet[1], 1)) ~> (mouse.left \/ KeyWaits)
=============================================================================
