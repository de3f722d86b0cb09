---------------------------- MODULE DesktopProofs ----------------------------
(***************************************************************************)
(* Proofs about Mouse, and about Desktop, whose device it is, for every    *)
(* screen, window and menu geometry.                                       *)
(***************************************************************************)
EXTENDS Desktop, TLAPS

\* Clamping keeps a coordinate between 0 and the bound.
LEMMA ClampRange ==
  ASSUME NEW v \in Int, NEW hi \in Nat PROVE Clamp(v, hi) \in 0 .. hi
  BY DEF Clamp

LEMMA RelType == ASSUME NEW b \in 0 .. 255, NEW n \in BOOLEAN PROVE Rel(b, n) \in Int
  BY DEF Rel, SignedChar

LEMMA BitType == ASSUME NEW b, NEW mask PROVE Bit(b, mask) \in BOOLEAN
  BY DEF Bit

\* The pointer decoded from any three bytes is a pointer on the screen.
LEMMA DecodeOnScreen ==
  ASSUME NEW m \in [x : Int, y : Int, left : BOOLEAN],
         NEW p \in [0 .. 2 -> 0 .. 255]
  PROVE  /\ Decode(m, p).x \in 0 .. ScreenW - 1 /\ Decode(m, p).y \in 0 .. ScreenH - 1
         /\ Decode(m, p) \in [x : Int, y : Int, left : BOOLEAN]
  <1>1. Rel(p[1], Bit(p[0], 16)) \in Int /\ Rel(p[2], Bit(p[0], 32)) \in Int
    BY RelType, BitType
  <1>2. ScreenW - 1 \in Nat /\ ScreenH - 1 \in Nat
    BY MouseAssumption
  <1>3. m.x + Rel(p[1], Bit(p[0], 16)) \in Int /\ m.y - Rel(p[2], Bit(p[0], 32)) \in Int
    BY <1>1
  <1>4. /\ Clamp(m.x + Rel(p[1], Bit(p[0], 16)), ScreenW - 1) \in 0 .. ScreenW - 1
        /\ Clamp(m.y - Rel(p[2], Bit(p[0], 32)), ScreenH - 1) \in 0 .. ScreenH - 1
    BY <1>2, <1>3, ClampRange
  <1>5. QED
    BY <1>4, BitType DEF Decode

LEMMA MouseInitInv == MouseInit => MouseTypeOK
  <1> SUFFICES ASSUME MouseInit PROVE MouseTypeOK
    OBVIOUS
  <1>1. packet \in [1 .. 3 -> 0 .. 255] /\ sent \in 1 .. 3
    BY DEF MouseInit
  <1>2. obf \in [data : 0 .. 255, aux : BOOLEAN, full : BOOLEAN]
    <2>1. CASE obf = Empty
      BY <2>1 DEF Empty
    <2>2. CASE \E a \in LateAcks : obf = FromMouse(a)
      BY <2>2, MouseAssumption DEF FromMouse
    <2>3. QED
      BY <2>1, <2>2 DEF MouseInit
  <1>3. mouse_cycle \in 0 .. 2 /\ mouse_packet \in [0 .. 2 -> 0 .. 255]
    BY DEF MouseInit
  <1>4. OnScreen /\ mouse \in [x : Int, y : Int, left : BOOLEAN]
    BY MouseAssumption DEF MouseInit, OnScreen
  <1>5. QED
    BY <1>1, <1>2, <1>3, <1>4 DEF MouseTypeOK

LEMMA HandlerInv == ASSUME MouseTypeOK, mouse_handler PROVE MouseTypeOK'
  <1>1. /\ obf' \in [data : 0 .. 255, aux : BOOLEAN, full : BOOLEAN]
        /\ packet' = packet /\ sent' = sent
    BY DEF mouse_handler, Empty, device
  <1>2. CASE UNCHANGED driver
    BY <1>1, <1>2 DEF driver, MouseTypeOK, OnScreen
  <1>3. CASE Store
    BY <1>1, <1>3 DEF Store, MouseTypeOK, OnScreen
  <1>4. CASE Complete
    <2>1. mouse_packet' \in [0 .. 2 -> 0 .. 255] /\ mouse_cycle' = 0
      BY <1>4 DEF Complete, MouseTypeOK
    <2>2. /\ mouse' \in [x : Int, y : Int, left : BOOLEAN]
          /\ mouse'.x \in 0 .. ScreenW - 1 /\ mouse'.y \in 0 .. ScreenH - 1
      BY <1>4, <2>1, DecodeOnScreen DEF Complete, MouseTypeOK
    <2>3. QED
      BY <1>1, <2>1, <2>2 DEF MouseTypeOK, OnScreen
  <1>5. QED
    BY <1>2, <1>3, <1>4 DEF mouse_handler, Ignore, OutOfSync

LEMMA DevicesInv == ASSUME MouseTypeOK, Devices PROVE MouseTypeOK'
  <1> USE DEF MouseTypeOK, OnScreen, driver, device
  <1>1. ASSUME NEW p \in Packets, NewPacket(p) PROVE MouseTypeOK'
    BY <1>1, MouseAssumption DEF NewPacket, FromMouse
  <1>2. CASE NextByte
    BY <1>2 DEF NextByte, FromMouse
  <1>3. ASSUME NEW s \in Scancodes, KeyByte(s) PROVE MouseTypeOK'
    BY <1>3, MouseAssumption DEF KeyByte, FromKeyboard
  <1>4. QED
    BY <1>1, <1>2, <1>3 DEF Devices

LEMMA MouseNextInv == ASSUME MouseTypeOK, [MouseNext]_mouseVars PROVE MouseTypeOK'
  <1>1. CASE UNCHANGED mouseVars
    BY <1>1 DEF mouseVars, device, driver, MouseTypeOK, OnScreen
  <1>2. QED
    BY <1>1, HandlerInv, DevicesInv DEF MouseNext

\* Bytes stay bytes, the packet under assembly never outgrows its array, and no
\* sequence of bytes, in step or not, moves the pointer off the screen.
THEOREM MouseTypeCorrect == MouseSpec => []MouseTypeOK
  BY MouseInitInv, MouseNextInv, PTL DEF MouseSpec

-----------------------------------------------------------------------------
(* The driver's place in the packets.                                      *)

\* A byte of the mouse that waits is the last one sent of a packet, or the
\* acknowledgement mouse_init left, before the first packet; a packet half sent
\* is one of Packets.
Sending ==
  /\ sent < 3 => packet \in Packets
  /\ obf.full /\ obf.aux =>
       \/ packet \in Packets /\ obf.data = packet[sent]
       \/ sent = 3 /\ mouse_cycle = 0 /\ packet \notin Packets

LEMMA SendingInit == MouseInit => Sending
  <1> SUFFICES ASSUME MouseInit PROVE Sending
    OBVIOUS
  <1>1. ~Bit(0, 8)
    BY DEF Bit
  <1>2. packet \notin Packets
    BY <1>1, MouseAssumption DEF MouseInit
  <1>3. QED
    BY <1>2 DEF MouseInit, Sending, Empty, FromMouse

LEMMA SendingNext ==
  ASSUME MouseTypeOK, Sending, [MouseNext]_mouseVars PROVE Sending'
  <1> USE DEF Sending
  <1>1. ASSUME NEW p \in Packets, NewPacket(p) PROVE Sending'
    BY <1>1 DEF NewPacket, FromMouse
  <1>2. CASE NextByte
    BY <1>2 DEF NextByte, FromMouse, MouseTypeOK
  <1>3. ASSUME NEW s \in Scancodes, KeyByte(s) PROVE Sending'
    BY <1>3 DEF KeyByte, FromKeyboard, device
  <1>4. CASE mouse_handler
    BY <1>4 DEF mouse_handler, Empty, device
  <1>5. CASE UNCHANGED mouseVars
    BY <1>5 DEF mouseVars, device, driver
  <1>6. QED
    BY <1>1, <1>2, <1>3, <1>4, <1>5 DEF MouseNext, Devices

LEMMA InStepByte ==
  ASSUME MouseTypeOK, Sending, Framing, obf.full, obf.aux
  PROVE  /\ mouse_cycle = sent - 1
         /\ packet \in Packets /\ obf.data = packet[sent]
  <1>1. sent \in 1 .. 3 /\ mouse_cycle = (sent - 1) % 3
    BY DEF MouseTypeOK, Framing
  <1>2. mouse_cycle = sent - 1
    BY <1>1
  <1>3. QED
    BY <1>1, <1>2 DEF Sending

LEMMA FramingKept ==
  ASSUME MouseTypeOK, Sending, MouseNext, Framing, ~(KeyWaits /\ mouse_cycle # 0)
  PROVE  Framing'
  <1>1. ASSUME NEW p \in Packets, NewPacket(p) PROVE Framing'
    BY <1>1 DEF NewPacket, FromMouse, Empty, Framing, driver
  <1>2. CASE NextByte
    BY <1>2 DEF NextByte, FromMouse, Empty, Framing, driver, MouseTypeOK
  <1>3. ASSUME NEW s \in Scancodes, KeyByte(s) PROVE Framing'
    BY <1>3 DEF KeyByte, FromKeyboard, Empty, Framing, driver, device
  <1>4. CASE mouse_handler
    <2>1. ~obf'.full /\ sent' = sent
      BY <1>4 DEF mouse_handler, Empty, device
    <2>2. CASE Ignore
      <3>1. ~(obf.full /\ obf.aux)
        BY <2>2 DEF Ignore, Ignored
      <3>2. QED
        BY <2>1, <2>2, <3>1 DEF Ignore, Framing, driver
    <2>3. CASE ~Ignored
      <3>1. obf.full /\ obf.aux
        BY <2>3 DEF Ignored, KeyWaits
      <3>2. /\ mouse_cycle = sent - 1 /\ sent \in 1 .. 3
            /\ packet \in Packets /\ obf.data = packet[sent]
        BY <3>1, InStepByte DEF MouseTypeOK
      <3>3. Bit(packet[1], 8)
        BY <3>2, MouseAssumption
      <3>4. CASE OutOfSync
        BY <3>2, <3>3, <3>4 DEF OutOfSync
      <3>5. CASE Store
        BY <2>1, <3>2, <3>5 DEF Store, Framing
      <3>6. CASE Complete
        BY <2>1, <3>2, <3>6 DEF Complete, Framing
      <3>7. QED
        BY <1>4, <2>3, <3>4, <3>5, <3>6 DEF mouse_handler, Ignore
    <2>4. QED
      BY <1>4, <2>2, <2>3 DEF mouse_handler, OutOfSync, Store, Complete
  <1>5. QED
    BY <1>1, <1>2, <1>3, <1>4 DEF MouseNext, Devices

\* Whatever packets, keys and late answers there are, the driver never loses its
\* place in the packets by itself: only a byte of the keyboard can put it out.
THEOREM KeepsStep == MouseSpec => StaysInStep
  <1>1. MouseInit => MouseTypeOK /\ Sending
    BY MouseInitInv, SendingInit
  <1>2. MouseTypeOK /\ Sending /\ [MouseNext]_mouseVars => (MouseTypeOK /\ Sending)'
    BY MouseNextInv, SendingNext
  <1>3. MouseTypeOK /\ Sending /\ MouseNext =>
          (Framing /\ ~(KeyWaits /\ mouse_cycle # 0) => Framing')
    BY FramingKept
  <1>4. QED
    BY <1>1, <1>2, <1>3, PTL DEF MouseSpec, StaysInStep

\* Movement bytes whose bit 3 is clear: none looks like the start of a packet.
ClearMovements == \A p \in Packets : ~Bit(p[2], 8) /\ ~Bit(p[3], 8)

\* Once the mouse has sent a packet, the driver takes for a packet's first byte
\* only one that is.
StartsAtPackets ==
  [][mouse_cycle = 0 /\ mouse_cycle' = 1 /\ packet \in Packets => Framing']_mouseVars

LEMMA StartsInStep ==
  ASSUME ClearMovements, MouseTypeOK, Sending, MouseNext,
         packet \in Packets, mouse_cycle = 0, mouse_cycle' = 1
  PROVE  Framing'
  <1>1. CASE Devices
    BY <1>1 DEF Devices, NewPacket, NextByte, KeyByte, driver
  <1>2. CASE mouse_handler
    <2>1. Store /\ obf' = Empty /\ sent' = sent
      BY <1>2 DEF mouse_handler, Ignore, OutOfSync, Complete, driver, device
    <2>2. obf.full /\ obf.aux /\ Bit(obf.data, 8)
      BY <2>1 DEF Store, Ignored
    <2>3. obf.data = packet[sent] /\ sent \in 1 .. 3
      BY <2>2 DEF Sending, MouseTypeOK
    <2>4. sent = 1
      <3>1. ~Bit(packet[2], 8) /\ ~Bit(packet[3], 8)
        BY DEF ClearMovements
      <3>2. sent # 2 /\ sent # 3
        BY <2>2, <2>3, <3>1, Zenon
      <3>3. QED
        BY <2>3, <3>2
    <2>5. QED
      BY <2>1, <2>4 DEF Framing, Empty
  <1>3. QED
    BY <1>1, <1>2 DEF MouseNext

\* A driver that is out of step, for a key or a late answer, starts its next
\* packet in step, if bit 3 of the movement bytes is clear (mouse.c:106-107): the
\* part of Resyncs that needs no fairness.
THEOREM RegainsStep == ASSUME ClearMovements PROVE MouseSpec => StartsAtPackets
  <1>1. MouseInit => MouseTypeOK /\ Sending
    BY MouseInitInv, SendingInit
  <1>2. MouseTypeOK /\ Sending /\ [MouseNext]_mouseVars => (MouseTypeOK /\ Sending)'
    BY MouseNextInv, SendingNext
  <1>3. MouseTypeOK /\ Sending /\ MouseNext =>
          (packet \in Packets /\ mouse_cycle = 0 /\ mouse_cycle' = 1 => Framing')
    BY StartsInStep
  <1>4. QED
    BY <1>1, <1>2, <1>3, PTL DEF MouseSpec, StartsAtPackets

-----------------------------------------------------------------------------
(* A mouse alone on the controller.                                        *)

\* In step, the bytes assembled are those of the packet, in their places.
Assembled ==
  /\ ~KeyWaits
  /\ Framing => \A i \in 0 .. 2 : i < mouse_cycle => mouse_packet[i] = packet[i + 1]

LEMMA AssembledInit == MouseInit => Assembled
  BY DEF MouseInit, Assembled, KeyWaits, Empty, FromMouse

LEMMA AssembledNext ==
  ASSUME Scancodes = {}, MouseTypeOK, Sending, Assembled, [MouseNext]_mouseVars
  PROVE  Assembled'
  <1>1. ASSUME NEW p \in Packets, NewPacket(p) PROVE Assembled'
    <2>1. ~KeyWaits' /\ sent' = 1 /\ obf'.full /\ obf'.aux /\ mouse_cycle' = mouse_cycle
      BY <1>1 DEF NewPacket, FromMouse, KeyWaits, driver
    <2>2. Framing' => mouse_cycle' = 0
      BY <2>1 DEF Framing
    <2>3. QED
      BY <2>1, <2>2 DEF Assembled
  <1>2. CASE NextByte
    <2>1. /\ ~KeyWaits' /\ sent' = sent + 1 /\ obf'.full /\ obf'.aux
          /\ ~obf.full /\ sent \in 1 .. 2
          /\ packet' = packet /\ mouse_cycle' = mouse_cycle /\ mouse_packet' = mouse_packet
      BY <1>2 DEF NextByte, FromMouse, Empty, KeyWaits, driver, MouseTypeOK
    <2>2. Framing' => Framing
      BY <2>1 DEF Framing
    <2>3. QED
      BY <2>1, <2>2 DEF Assembled
  <1>3. CASE mouse_handler
    <2>1. /\ ~obf'.full /\ sent' = sent /\ packet' = packet /\ ~KeyWaits'
          /\ ~Ignored => obf.full /\ obf.aux
      BY <1>3 DEF mouse_handler, Empty, device, KeyWaits, Assembled, Ignored
    <2>2. CASE Ignore
      <3>1. ~(obf.full /\ obf.aux)
        BY <2>2 DEF Ignore, Ignored
      <3>2. Framing' => Framing
        BY <2>1, <2>2, <3>1 DEF Ignore, Framing, driver
      <3>3. QED
        BY <2>1, <2>2, <3>2 DEF Ignore, Assembled, driver
    <2>3. CASE OutOfSync \/ Complete
      <3>1. mouse_cycle' = 0
        BY <2>3 DEF OutOfSync, Complete, driver
      <3>2. QED
        BY <2>1, <3>1 DEF Assembled
    <2>4. CASE Store
      <3>1. obf.full /\ obf.aux /\ mouse_cycle \in 0 .. 1 /\ mouse_cycle' = mouse_cycle + 1
        BY <2>1, <2>4 DEF Store
      <3>2. Framing' => Framing
        BY <2>1, <3>1 DEF Framing, MouseTypeOK
      <3>3. ASSUME Framing' PROVE \A i \in 0 .. 2 : i < mouse_cycle' => mouse_packet'[i] = packet'[i + 1]
        <4>1. mouse_cycle = sent - 1 /\ obf.data = packet[sent]
          BY <3>1, <3>2, <3>3, InStepByte
        <4>2. QED
          BY <2>1, <2>4, <3>1, <3>2, <3>3, <4>1 DEF Store, Assembled, MouseTypeOK
      <3>4. QED
        BY <2>1, <3>3 DEF Assembled
    <2>5. QED
      BY <1>3, <2>2, <2>3, <2>4 DEF mouse_handler
  <1>4. CASE UNCHANGED mouseVars
    BY <1>4 DEF mouseVars, device, driver, Assembled, KeyWaits, Framing
  <1>5. QED
    BY <1>1, <1>2, <1>3, <1>4 DEF MouseNext, Devices

\* What the driver makes of a byte and its sign bit is the movement they stand for,
\* or 256 less.
LEMMA TakenMovement ==
  ASSUME NEW b \in 0 .. 255, NEW n \in BOOLEAN PROVE Rel(b, n) = Taken(Movement(b, n))
  BY DEF Rel, SignedChar, Taken, Movement

\* In step, the packet that is completed is the one the mouse has sent.
LEMMA CompletesPacket ==
  ASSUME MouseTypeOK, Sending, Assembled, MouseNext,
         Framing, ~KeyWaits, mouse_cycle = 2, mouse_cycle' = 0
  PROVE  /\ Complete /\ packet \in Packets
         /\ mouse_packet'[0] = packet[1] /\ mouse_packet'[1] = packet[2]
         /\ mouse_packet'[2] = packet[3]
  <1>1. Complete
    BY DEF MouseNext, Devices, NewPacket, NextByte, KeyByte, mouse_handler,
           Ignore, OutOfSync, Store, driver
  <1>2. /\ obf.data = packet[3] /\ packet \in Packets
        /\ mouse_packet[0] = packet[1] /\ mouse_packet[1] = packet[2]
    <2>1. obf.full /\ obf.aux
      BY <1>1 DEF Complete, Ignored, KeyWaits
    <2>2. /\ mouse_cycle = sent - 1 /\ sent \in 1 .. 3
          /\ packet \in Packets /\ obf.data = packet[sent]
      BY <2>1, InStepByte DEF MouseTypeOK
    <2>3. QED
      BY <2>2 DEF Assembled
  <1>3. QED
    BY <1>1, <1>2 DEF Complete, MouseTypeOK

\* With no bytes of the keyboard, each packet the driver is in step with moves the
\* pointer as the mouse meant if the movement is one of -256 .. 127, and by 256
\* less on an axis where it is one of 128 .. 255 (mouse.c:121-133).
THEOREM DecodesPackets == ASSUME Scancodes = {} PROVE MouseSpec => Decodes
  <1> DEFINE Inv == MouseTypeOK /\ Sending /\ Assembled
  <1>1. MouseInit => Inv
    BY MouseInitInv, SendingInit, AssembledInit
  <1>2. Inv /\ [MouseNext]_mouseVars => Inv'
    BY MouseNextInv, SendingNext, AssembledNext
  <1>3. ASSUME Inv, MouseNext, PacketRead
        PROVE  mouse' = MovedBy(Taken(SentX), Taken(SentY))
    <2>1. /\ Complete /\ packet \in Packets
          /\ mouse_packet'[0] = packet[1] /\ mouse_packet'[1] = packet[2]
          /\ mouse_packet'[2] = packet[3]
      BY <1>3, CompletesPacket DEF PacketRead
    <2>2. packet[2] \in 0 .. 255 /\ packet[3] \in 0 .. 255
      BY <2>1, MouseAssumption
    <2>3. /\ Rel(packet[2], Bit(packet[1], 16)) = Taken(SentX)
          /\ Rel(packet[3], Bit(packet[1], 32)) = Taken(SentY)
      BY <2>2, BitType, TakenMovement DEF SentX, SentY
    <2>4. QED
      BY <2>1, <2>3 DEF Complete, Decode, MovedBy
  <1>4. Inv /\ MouseNext => (PacketRead => mouse' = MovedBy(Taken(SentX), Taken(SentY)))
    BY <1>3
  <1> HIDE DEF Inv
  <1>5. QED
    BY <1>1, <1>2, <1>4, PTL DEF MouseSpec, Decodes

-----------------------------------------------------------------------------
(* The desktop's loop.                                                     *)

\* What the loop remembers of the previous turn.
LoopMemory ==
  /\ prev_start_click = mouse.left
  /\ last \in {mouse, [x |-> -1, y |-> -1, left |-> FALSE]}

IInv ==
  /\ TypeOK /\ LoopMemory
  /\ WindowOnDesktop /\ DragHeld /\ DragTracks /\ ScreenFresh

LEMMA WindowRoom ==
  ScreenW - WinW \in Nat /\ DesktopH - WinH \in Nat
  BY MouseAssumption, DesktopAssumption

\* A coordinate within the bounds is not changed by clamping.
LEMMA ClampId == ASSUME NEW hi \in Nat, NEW v \in 0 .. hi PROVE Clamp(v, hi) = v
  BY DEF Clamp

LEMMA InitInv == Init => IInv
  <1> SUFFICES ASSUME Init PROVE IInv
    OBVIOUS
  <1>1. MouseTypeOK
    BY MouseInitInv DEF Init, MouseTypeOK
  <1>2. TypeOK /\ WindowOnDesktop
    <2>1. WinX \in Int /\ WinY \in Int /\ WinX \in 0 .. ScreenW - WinW /\ WinY \in 0 .. DesktopH - WinH
      BY WindowRoom, DesktopAssumption
    <2>2. WindowOnDesktop
      BY <2>1 DEF Init, window_init, WindowOnDesktop
    <2>3. win \in [x : Int, y : Int, is_visible : BOOLEAN, is_dragging : BOOLEAN,
                   drag_offset_x : Int, drag_offset_y : Int]
      BY <2>1 DEF Init, window_init
    <2>4. last \in [x : Int, y : Int, left : BOOLEAN]
      <3>1. last = [x |-> -1, y |-> -1, left |-> FALSE]
        BY DEF Init
      <3>2. QED
        BY <3>1
    <2>5. /\ last_ascii_char = 0
          /\ start_menu \in BOOLEAN /\ prev_start_click \in BOOLEAN /\ power \in BOOLEAN
      BY DEF Init
    <2>6. QED
      BY <1>1, <2>2, <2>3, <2>4, <2>5 DEF TypeOK
  <1>3. LoopMemory
    BY DEF Init, MouseInit, LoopMemory
  <1>4. DragHeld /\ DragTracks /\ ScreenFresh
    BY DEF Init, window_init, DragHeld, DragTracks, ScreenFresh
  <1>5. QED
    BY <1>1, <1>2, <1>3, <1>4 DEF IInv

\* The types of a window and of the pointer.
WindowType ==
  [x : Int, y : Int, is_visible : BOOLEAN, is_dragging : BOOLEAN,
   drag_offset_x : Int, drag_offset_y : Int]

PointerType == [x : Int, y : Int, left : BOOLEAN]

\* What the drag and the window are to each other when the pointer is at m.
WindowGood(w, m) ==
  /\ w \in WindowType
  /\ w.x \in 0 .. ScreenW - WinW /\ w.y \in 0 .. DesktopH - WinH
  /\ w.is_dragging =>
       /\ w.is_visible /\ m.left
       /\ w.x = Clamp(m.x - w.drag_offset_x, ScreenW - WinW)
       /\ w.y = Clamp(m.y - w.drag_offset_y, DesktopH - WinH)

\* A press or a movement handled by window_handle_mouse leaves the window in
\* its bounds and under the pointer, if the drag goes on with the button down.
LEMMA WindowHandled ==
  ASSUME NEW w \in WindowType, NEW m \in PointerType, m.left,
         w.x \in 0 .. ScreenW - WinW, w.y \in 0 .. DesktopH - WinH,
         w.is_dragging => w.is_visible
  PROVE  WindowGood(window_handle_mouse(w, m), m)
  <1> USE DEF WindowType, PointerType
  <1>1. CASE ~w.is_visible
    BY <1>1 DEF window_handle_mouse, WindowGood
  <1>2. CASE w.is_visible /\ w.is_dragging
    <2>1. window_handle_mouse(w, m) = Dragged(w, m)
      BY <1>2 DEF window_handle_mouse
    <2>2. m.x - w.drag_offset_x \in Int /\ m.y - w.drag_offset_y \in Int
      OBVIOUS
    <2>3. /\ Clamp(m.x - w.drag_offset_x, ScreenW - WinW) \in 0 .. ScreenW - WinW
          /\ Clamp(m.y - w.drag_offset_y, DesktopH - WinH) \in 0 .. DesktopH - WinH
      BY <2>2, WindowRoom, ClampRange
    <2>4. PICK v : v = Dragged(w, m)
      OBVIOUS
    <2>5. /\ v.x = Clamp(m.x - w.drag_offset_x, ScreenW - WinW)
          /\ v.y = Clamp(m.y - w.drag_offset_y, DesktopH - WinH)
          /\ v.is_visible /\ v.is_dragging
          /\ v.drag_offset_x = w.drag_offset_x /\ v.drag_offset_y = w.drag_offset_y
      BY <1>2, <2>4 DEF Dragged
    <2>6. v \in WindowType
      <3> DEFINE cx == Clamp(m.x - w.drag_offset_x, ScreenW - WinW)
                 cy == Clamp(m.y - w.drag_offset_y, DesktopH - WinH)
      <3>1. cx \in Int /\ cy \in Int
        BY <2>3, WindowRoom
      <3>2. v = [[w EXCEPT !.x = cx] EXCEPT !.y = cy]
        BY <2>4 DEF Dragged
      <3> HIDE DEF cx, cy
      <3>3. QED
        BY <3>1, <3>2
    <2>7. WindowGood(v, m)
      BY <2>3, <2>5, <2>6 DEF WindowGood
    <2>8. QED
      BY <2>1, <2>4, <2>7
  <1>3. CASE w.is_visible /\ ~w.is_dragging /\ InWindow(m, w, CloseBtn)
    <2>1. window_handle_mouse(w, m) = Closed(w)
      BY <1>3 DEF window_handle_mouse
    <2>2. QED
      BY <2>1 DEF Closed, WindowGood
  <1>4. CASE w.is_visible /\ ~w.is_dragging /\ ~InWindow(m, w, CloseBtn)
    <2>1. window_handle_mouse(w, m) = IF InWindow(m, w, TitleBar) THEN Grabbed(w, m) ELSE w
      BY <1>4 DEF window_handle_mouse
    <2>2. m.x - (m.x - w.x) = w.x /\ m.y - (m.y - w.y) = w.y
      OBVIOUS
    <2>3. /\ Clamp(w.x, ScreenW - WinW) = w.x
          /\ Clamp(w.y, DesktopH - WinH) = w.y
      BY WindowRoom, ClampId
    <2>4. WindowGood(Grabbed(w, m), m)
      <3>1. PICK v : v = Grabbed(w, m)
        OBVIOUS
      <3>2. /\ v.x = w.x /\ v.y = w.y /\ v.is_visible
            /\ v.drag_offset_x = m.x - w.x /\ v.drag_offset_y = m.y - w.y
        BY <1>4, <3>1 DEF Grabbed
      <3>3. v \in WindowType
        <4>1. m.x - w.x \in Int /\ m.y - w.y \in Int
          OBVIOUS
        <4>2. v = [[[w EXCEPT !.is_dragging = TRUE] EXCEPT !.drag_offset_x = m.x - w.x]
                     EXCEPT !.drag_offset_y = m.y - w.y]
          BY <3>1 DEF Grabbed
        <4>3. QED
          BY <4>1, <4>2
      <3>4. WindowGood(v, m)
        BY <2>2, <2>3, <3>2, <3>3 DEF WindowGood
      <3>5. QED
        BY <3>1, <3>4
    <2>5. WindowGood(w, m)
      BY <1>4 DEF WindowGood
    <2>6. QED
      BY <2>1, <2>4, <2>5
  <1>5. QED
    BY <1>1, <1>2, <1>3, <1>4

\* After the events of a turn the window is where the new pointer puts it.
LEMMA ReactGood ==
  ASSUME IInv, NEW m \in PointerType, React(m) PROVE WindowGood(win', m)
  <1> USE DEF IInv, TypeOK, WindowOnDesktop, WindowType, PointerType
  <1>1. WindowGood([win EXCEPT !.is_dragging = FALSE], m)
    BY DEF WindowGood
  <1>2. Press(m) => ~win.is_dragging
    BY DEF Press, DragHeld, LoopMemory
  <1>3. ~win.is_dragging => WindowGood(win, m) /\ WindowGood([win EXCEPT !.is_visible = TRUE], m)
    BY DEF WindowGood
  <1>4. m.left => WindowGood(window_handle_mouse(win, m), m)
    BY WindowHandled DEF DragHeld
  <1>5. CASE ClickStart(m) \/ NoEvent(m) \/ Shutdown(m)
    BY <1>2, <1>3, <1>5 DEF ClickStart, NoEvent, Shutdown, ClickMenu, ui
  <1>6. CASE OpenWindow(m)
    BY <1>2, <1>3, <1>6 DEF OpenWindow, ClickMenu
  <1>7. CASE LeaveMenu(m) \/ ClickWindow(m) \/ Drag(m)
    BY <1>4, <1>7 DEF LeaveMenu, ClickMenu, ClickWindow, Drag, Press
  <1>8. CASE Drop(m)
    BY <1>1, <1>8 DEF Drop
  <1>9. QED
    BY <1>5, <1>6, <1>7, <1>8 DEF React

\* A turn that does not redraw has changed nothing that is drawn.
LEMMA NothingToDraw ==
  ASSUME IInv, NEW m \in PointerType, React(m), m.x >= 0, ~Stale(m)
  PROVE  m = mouse /\ UNCHANGED <<win, start_menu>>
  <1> USE DEF IInv
  <1>1. m = last /\ ~win'.is_dragging
    BY DEF Stale
  <1>2. m = mouse
    BY <1>1 DEF LoopMemory, PointerType
  <1>3. ~Press(m) /\ (win.is_dragging => m.left)
    BY <1>2 DEF Press, LoopMemory, DragHeld
  <1>4. ~Drag(m)
    <2> SUFFICES ASSUME Drag(m) PROVE FALSE
      OBVIOUS
    <2>1. win.is_dragging /\ win.is_visible /\ m.left /\ win' = window_handle_mouse(win, m)
      BY DEF Drag, DragHeld
    <2>2. win' = Dragged(win, m)
      BY <2>1 DEF window_handle_mouse, TypeOK
    <2>3. win'.is_dragging
      BY <2>1, <2>2 DEF Dragged, TypeOK
    <2>4. QED
      BY <1>1, <2>3
  <1>5. NoEvent(m)
    BY <1>3, <1>4 DEF React, ClickStart, OpenWindow, Shutdown, LeaveMenu, ClickMenu,
                      ClickWindow, Drop
  <1>6. QED
    BY <1>2, <1>5 DEF NoEvent, ui

LEMMA TurnInv == ASSUME IInv, Turn PROVE IInv'
  <1>1. /\ MouseTypeOK' /\ mouse' \in PointerType /\ mouse'.x >= 0
    <2>1. MouseTypeOK /\ mouse_handler
      BY DEF IInv, TypeOK, MouseTypeOK, Turn
    <2>2. MouseTypeOK'
      BY <2>1, HandlerInv
    <2>3. QED
      BY <2>2, MouseAssumption DEF MouseTypeOK, OnScreen, PointerType
  <1>2. WindowGood(win', mouse')
    BY <1>1, ReactGood DEF Turn
  <1>3. /\ start_menu' \in BOOLEAN /\ power' \in BOOLEAN
    BY DEF Turn, React, ClickStart, OpenWindow, Shutdown, LeaveMenu, ClickWindow, Drag,
           Drop, NoEvent, ui, IInv, TypeOK
  <1>4. prev_start_click' = mouse'.left /\ last_ascii_char' = 0
    BY DEF Turn
  <1>5. last' = mouse' /\ shown' = Picture(mouse', win', start_menu')
    <2>1. CASE Stale(mouse')
      BY <2>1 DEF Turn, Render
    <2>2. CASE ~Stale(mouse')
      <3>1. mouse' = mouse /\ UNCHANGED <<win, start_menu>>
        BY <1>1, <2>2, NothingToDraw DEF Turn
      <3>2. mouse' = last /\ UNCHANGED <<last, shown>>
        BY <2>2 DEF Turn, Render, Stale
      <3>3. QED
        BY <3>1, <3>2 DEF IInv, ScreenFresh
    <2>3. QED
      BY <2>1, <2>2
  <1>6. TypeOK'
    BY <1>1, <1>2, <1>3, <1>4, <1>5 DEF TypeOK, WindowGood, WindowType, PointerType
  <1>7. LoopMemory'
    BY <1>4, <1>5 DEF LoopMemory
  <1>8. WindowOnDesktop' /\ DragHeld' /\ DragTracks'
    BY <1>2 DEF WindowGood, WindowOnDesktop, DragHeld, DragTracks
  <1>9. ScreenFresh'
    BY <1>5 DEF ScreenFresh, Picture
  <1>10. QED
    BY <1>1, <1>6, <1>7, <1>8, <1>9 DEF IInv

\* A device changes nothing but the controller's buffer.
LEMMA DeviceInv == ASSUME IInv, DeviceStep PROVE IInv'
  <1>1. MouseTypeOK'
    BY DevicesInv DEF IInv, TypeOK, MouseTypeOK, DeviceStep
  <1>2. UNCHANGED <<mouse, ui, loop, power, shown>>
    BY DEF DeviceStep, Devices, NewPacket, NextByte, KeyByte, driver
  <1>3. QED
    BY <1>1, <1>2 DEF IInv, TypeOK, LoopMemory, WindowOnDesktop, DragHeld, DragTracks,
                      ScreenFresh, Picture, ui, loop

LEMMA NextInv == ASSUME IInv, [Next]_vars PROVE IInv'
  <1>1. CASE UNCHANGED vars
    BY <1>1 DEF vars, mouseVars, device, driver, ui, loop, IInv, TypeOK, MouseTypeOK, OnScreen,
                LoopMemory, WindowOnDesktop, DragHeld, DragTracks, ScreenFresh, Picture
  <1>2. QED
    BY <1>1, TurnInv, DeviceInv DEF Next

\* Every turn of the loop and every byte keep the inductive invariant.
THEOREM Invariance == Spec => []IInv
  <1>1. QED
    BY InitInv, NextInv, PTL DEF Spec

\* The kernel's loop keeps its variables in their types.
THEOREM TypeCorrect == Spec => []TypeOK
  <1>1. IInv => TypeOK
    BY DEF IInv
  <1>2. QED
    BY <1>1, Invariance, PTL

\* The window never leaves the desktop, whatever its size and however dragged.
THEOREM StaysOnDesktop == Spec => []WindowOnDesktop
  <1>1. IInv => WindowOnDesktop
    BY DEF IInv
  <1>2. QED
    BY <1>1, Invariance, PTL

\* A drag ends before the window closes and before the button comes up.
THEOREM DragsAreHeld == Spec => []DragHeld
  <1>1. IInv => DragHeld
    BY DEF IInv
  <1>2. QED
    BY <1>1, Invariance, PTL

\* A dragged window follows the pointer at every turn.
THEOREM DragsFollow == Spec => []DragTracks
  <1>1. IInv => DragTracks
    BY DEF IInv
  <1>2. QED
    BY <1>1, Invariance, PTL

\* The loop's four tests are enough to keep the screen up to date.
THEOREM ScreenUpToDate == Spec => []ScreenFresh
  <1>1. IInv => ScreenFresh
    BY DEF IInv
  <1>2. QED
    BY <1>1, Invariance, PTL

\* A button held down acts once.
THEOREM ActsOncePerPress == Spec => OneActionPerPress
  <1>1. ASSUME IInv, Next,
               \/ start_menu' # start_menu
               \/ power' # power
               \/ win'.is_visible # win.is_visible
               \/ win'.is_dragging /\ ~win.is_dragging
        PROVE  ~mouse.left /\ mouse'.left
    <2>1. CASE DeviceStep
      BY <1>1, <2>1 DEF DeviceStep, ui
    <2>2. CASE Turn
      <3> SUFFICES ASSUME ~Press(mouse') PROVE FALSE
        BY <1>1 DEF Press, IInv, LoopMemory
      <3>1. Drag(mouse') \/ Drop(mouse') \/ NoEvent(mouse')
        BY <2>2 DEF Turn, React, ClickStart, OpenWindow, Shutdown, LeaveMenu, ClickMenu,
                    ClickWindow
      <3>2. CASE NoEvent(mouse')
        BY <1>1, <3>2 DEF NoEvent, ui
      <3>3. CASE Drop(mouse')
        BY <1>1, <3>3 DEF Drop, IInv, TypeOK
      <3>4. CASE Drag(mouse')
        <4>1. win.is_dragging /\ mouse'.left /\ win' = window_handle_mouse(win, mouse')
          BY <3>4 DEF Drag
        <4>2. win.is_visible
          BY <1>1, <4>1 DEF IInv, DragHeld
        <4>3. win' = Dragged(win, mouse')
          BY <4>1, <4>2 DEF window_handle_mouse
        <4>4. win'.is_visible = win.is_visible
          BY <4>3 DEF Dragged
        <4>5. QED
          BY <1>1, <3>4, <4>1, <4>4 DEF Drag
      <3>5. QED
        BY <3>1, <3>2, <3>3, <3>4
    <2>3. QED
      BY <1>1, <2>1, <2>2 DEF Next
  <1>2. QED
    BY <1>1, Invariance, PTL DEF Spec, OneActionPerPress

-----------------------------------------------------------------------------
(* The mouse under the desktop's loop.                                     *)

LEMMA MouseStep == ASSUME [Next]_vars PROVE [MouseNext]_mouseVars
  BY DEF Next, Turn, DeviceStep, MouseNext, vars

\* What the devices and the driver do under the loop is what Mouse says they do:
\* a turn runs mouse_handler once (kernel.c:154-155).
LEMMA DesktopMouse == Spec => [](MouseTypeOK /\ Sending)
  <1>1. Init => MouseTypeOK /\ Sending
    BY MouseInitInv, SendingInit DEF Init
  <1>2. MouseTypeOK /\ Sending /\ [Next]_vars => (MouseTypeOK /\ Sending)'
    BY MouseStep, MouseNextInv, SendingNext
  <1>3. QED
    BY <1>1, <1>2, PTL DEF Spec

\* In step, the turn in which a packet with the button up is complete leaves no
\* window dragged.
ReleaseSeen ==
  [][Framing /\ ~KeyWaits /\ mouse_cycle = 2 /\ mouse_cycle' = 0 /\ ~Bit(packet[1], 1)
       => ~win'.is_dragging]_vars

\* With no bytes of the keyboard, a release the mouse reports ends the drag in the
\* turn that reads its last byte, whatever the drag and the menu are at
\* (kernel.c:155 and 189-190): the part of ReleaseDrops that needs no fairness.
THEOREM ReleaseEndsDrag == ASSUME Scancodes = {} PROVE Spec => ReleaseSeen
  <1> DEFINE Inv == MouseTypeOK /\ Sending /\ Assembled
  <1>1. Init => Inv
    BY MouseInitInv, SendingInit, AssembledInit DEF Init
  <1>2. Inv /\ [Next]_vars => Inv'
    BY MouseStep, MouseNextInv, SendingNext, AssembledNext
  <1>3. ASSUME Inv, IInv', Next, Framing, ~KeyWaits, mouse_cycle = 2, mouse_cycle' = 0,
               ~Bit(packet[1], 1)
        PROVE  ~win'.is_dragging
    <2>1. MouseNext
      BY <1>3 DEF Next, Turn, DeviceStep, MouseNext
    <2>2. Complete /\ mouse_packet'[0] = packet[1]
      BY <1>3, <2>1, CompletesPacket
    <2>3. ~mouse'.left
      BY <1>3, <2>2 DEF Complete, Decode
    <2>4. QED
      BY <1>3, <2>3 DEF IInv, DragHeld
  <1>4. Inv /\ IInv' /\ Next =>
          (Framing /\ ~KeyWaits /\ mouse_cycle = 2 /\ mouse_cycle' = 0 /\ ~Bit(packet[1], 1)
             => ~win'.is_dragging)
    BY <1>3
  <1> HIDE DEF Inv
  <1>5. QED
    BY <1>1, <1>2, <1>4, Invariance, PTL DEF Spec, ReleaseSeen

\* Under the loop, too, only a byte of the keyboard puts the driver out of step.
THEOREM DesktopKeepsStep == Spec => StaysInStep
  <1>1. MouseTypeOK /\ Sending /\ [Next]_vars =>
          [Framing /\ ~(KeyWaits /\ mouse_cycle # 0) => Framing']_mouseVars
    BY MouseStep, FramingKept
  <1>2. QED
    BY <1>1, DesktopMouse, PTL DEF Spec, StaysInStep
=============================================================================
