------------------------------ MODULE MCMouse ------------------------------
(* Mouse on a small screen, with packets for every kind of movement. *)
EXTENDS Mouse, SequencesExt

\* The packet a PS/2 mouse sends for a button and a movement within -256 .. 255.
PacketOf(left, dx, dy) ==
  <<8 + (IF left THEN 1 ELSE 0) + (IF dx < 0 THEN 16 ELSE 0) + (IF dy < 0 THEN 32 ELSE 0),
    dx % 256, dy % 256>>

PacketsFor(moves) == {PacketOf(left, d[1], d[2]) : left \in BOOLEAN, d \in moves}

\* Small steps, a stop against every edge, and movements at both ends of each
\* range of bytes, with the sign bit set and clear, in bytes whose bit 3 is clear.
MCPackets == PacketsFor({<<0, 0>>, <<1, 0>>, <<0, 1>>, <<-9, 2>>, <<2, -10>>,
                         <<119, 112>>, <<-256, -16>>, <<128, -128>>, <<1, 247>>})

\* A letter's scancode, and its release code, which has bit 3 set.
OneKey == {30, 158}
NoKeys == {}

\* 0xFA, the mouse's acknowledgement.
Ack == {250}
NoAck == {}
=============================================================================
