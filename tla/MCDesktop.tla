----------------------------- MODULE MCDesktop -----------------------------
(***************************************************************************)
(* Desktop on a screen of a few pixels: the window can be dragged over the *)
(* menu and against every edge, and the menu has a header and gaps beside  *)
(* its items.                                                              *)
(***************************************************************************)
EXTENDS Desktop

\* For each button: no step, one to the right, one down, and two to the left
\* and two up at once.
MCPackets == UNION {{<<b, 0, 0>>, <<b, 1, 0>>, <<b + 32, 0, 255>>, <<b + 16, 254, 2>>}
                    : b \in {8, 9}}
MCCloseBtn == <<2, 0, 2, 1>>
MCTitleBar == <<0, 0, 1, 0>>
MCStartBtn == <<0, 5, 1, 5>>
MCMenuArea == <<0, 0, 2, 4>>
MCItemRows == <<<<1, 1>>, <<2, 2>>, <<4, 4>>>>
NoBytes == {}
=============================================================================
