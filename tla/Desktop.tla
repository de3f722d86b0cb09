------------------------------- MODULE Desktop -------------------------------
(***************************************************************************)
(* The kernel's desktop: the endless loop of kernel_main (kernel.c) over   *)
(* the mouse driver, the start menu (menu.c) and the window (window.c).    *)
(* One action is one turn of the loop: no interrupt can break in, because  *)
(* boot.asm masks them and nothing unmasks them, and the devices only      *)
(* change the controller's buffer, which a turn reads once.                *)
(***************************************************************************)
EXTENDS Mouse

CONSTANTS
  DesktopH,             \* the rows above the taskbar, 728
  WinX, WinY,           \* where the window opens, (300, 200)
  WinW, WinH,           \* its size, 400 x 250
  CloseBtn, TitleBar,   \* rectangles <<left, top, right, bottom>> in the window
  StartBtn, MenuArea,   \* rectangles on the screen
  ItemRows              \* the rows <<top, bottom>> of the menu's three items

ASSUME DesktopAssumption ==
  /\ DesktopH \in Nat /\ DesktopH <= ScreenH
  /\ WinW \in Nat /\ WinH \in Nat
  /\ WinX \in 0 .. ScreenW - WinW /\ WinY \in 0 .. DesktopH - WinH
  /\ {CloseBtn, TitleBar, StartBtn, MenuArea} \subseteq [1 .. 4 -> Int]
  /\ ItemRows \in [1 .. 3 -> [1 .. 2 -> Int]]

VARIABLES
  win,                \* main_win
  start_menu,         \* start_menu.is_visible
  prev_start_click,   \* the button at the end of the previous turn
  last,               \* last_x, last_y, last_btn: the mouse last rendered
  last_ascii_char,    \* the key get_last_key returns, 0 for none
  power,              \* FALSE once outw(0x604, 0x2000) has stopped the machine
  shown               \* the picture vesa_update last put on the screen

ui == <<win, start_menu>>
loop == <<prev_start_click, last, last_ascii_char>>
vars == <<mouseVars, ui, loop, power, shown>>

Inside(p, r) == r[1] <= p.x /\ p.x <= r[3] /\ r[2] <= p.y /\ p.y <= r[4]

InWindow(p, w, r) == Inside([x |-> p.x - w.x, y |-> p.y - w.y], r)

window_init(x, y) ==
  [x |-> x, y |-> y, is_visible |-> TRUE, is_dragging |-> FALSE,
   drag_offset_x |-> 0, drag_offset_y |-> 0]

window_draw(w) == IF w.is_visible THEN {<<w.x, w.y>>} ELSE {}

\* An open menu shows the item under the pointer in another colour.
menu_draw(m, open) ==
  IF open
  THEN {[hover |-> {i \in 1 .. 3 : /\ MenuArea[1] <= m.x /\ m.x <= MenuArea[3]
                                   /\ ItemRows[i][1] <= m.y /\ m.y <= ItemRows[i][2]}]}
  ELSE {}

\* What render_desktop draws from the mouse, the window and the menu.
Picture(m, w, menu) ==
  [window |-> window_draw(w),
   start |-> menu \/ (Inside(m, StartBtn) /\ m.left),
   menu |-> menu_draw(m, menu),
   cursor |-> <<m.x, m.y>>]

Init ==
  /\ MouseInit
  /\ win = window_init(WinX, WinY)
  /\ start_menu = FALSE /\ prev_start_click = FALSE
  /\ last = [x |-> -1, y |-> -1, left |-> FALSE]
  /\ last_ascii_char = 0 /\ power = TRUE
  /\ shown = Picture(mouse, win, start_menu)

-----------------------------------------------------------------------------
(* menu.c and window.c.                                                    *)

\* The action menu_handle_click returns for an open menu; the caller closes it.
menu_handle_click(p) ==
  IF ~Inside(p, MenuArea) THEN 0
  ELSE IF \E i \in 1 .. 3 : p.y \in ItemRows[i][1] .. ItemRows[i][2]
       THEN CHOOSE i \in 1 .. 3 : p.y \in ItemRows[i][1] .. ItemRows[i][2]
       ELSE 0

\* Fault: the size of the window is forgotten at the right and bottom edges.
DraggedOver(w, p) ==
  [w EXCEPT !.x = Clamp(p.x - w.drag_offset_x, ScreenW - 1),
            !.y = Clamp(p.y - w.drag_offset_y, DesktopH - 1)]

Dragged(w, p) ==
  [w EXCEPT !.x = Clamp(p.x - w.drag_offset_x, ScreenW - WinW),
            !.y = Clamp(p.y - w.drag_offset_y, DesktopH - WinH)]

Closed(w) == [w EXCEPT !.is_visible = FALSE, !.is_dragging = FALSE]

\* Fault: the offset of the previous drag is kept.
GrabbedAsBefore(w, p) == [w EXCEPT !.is_dragging = TRUE]

Grabbed(w, p) ==
  [w EXCEPT !.is_dragging = TRUE,
            !.drag_offset_x = p.x - w.x, !.drag_offset_y = p.y - w.y]

window_handle_mouse(w, p) ==
  CASE ~w.is_visible -> w
    [] w.is_visible /\ ~p.left -> [w EXCEPT !.is_dragging = FALSE]
    [] w.is_visible /\ p.left /\ w.is_dragging -> Dragged(w, p)
    [] w.is_visible /\ p.left /\ ~w.is_dragging /\ InWindow(p, w, CloseBtn) -> Closed(w)
    [] w.is_visible /\ p.left /\ ~w.is_dragging /\ ~InWindow(p, w, CloseBtn) ->
         IF InWindow(p, w, TitleBar) THEN Grabbed(w, p) ELSE w

-----------------------------------------------------------------------------
(* The turn of the loop, for the mouse m that mouse_handler left.          *)

\* Fault: the button of the previous turn is not looked at.
PressHeld(m) == m.left

Press(m) == m.left /\ ~prev_start_click

ClickStart(m) ==
  /\ Press(m) /\ Inside(m, StartBtn)
  /\ start_menu' = ~start_menu
  /\ UNCHANGED <<win, power>>

ClickMenu(m) == Press(m) /\ ~Inside(m, StartBtn) /\ start_menu

OpenWindow(m) ==
  /\ ClickMenu(m) /\ menu_handle_click(m) \in {1, 2}
  /\ win' = [win EXCEPT !.is_visible = TRUE]
  /\ start_menu' = FALSE
  /\ UNCHANGED power

Shutdown(m) ==
  /\ ClickMenu(m) /\ menu_handle_click(m) = 3
  /\ start_menu' = FALSE /\ power' = FALSE
  /\ UNCHANGED win

\* The click was not on an item: the menu closes and the window gets the click.
LeaveMenu(m) ==
  /\ ClickMenu(m) /\ menu_handle_click(m) = 0
  /\ start_menu' = FALSE
  /\ win' = window_handle_mouse(win, m)
  /\ UNCHANGED power

ClickWindow(m) ==
  /\ Press(m) /\ ~Inside(m, StartBtn) /\ ~start_menu
  /\ win' = window_handle_mouse(win, m)
  /\ UNCHANGED <<start_menu, power>>

Drag(m) ==
  /\ ~Press(m) /\ m.left /\ win.is_dragging
  /\ win' = window_handle_mouse(win, m)
  /\ UNCHANGED <<start_menu, power>>

\* Fault: the release is noticed but the drag goes on.
DropNothing(m) ==
  /\ ~m.left /\ win.is_dragging
  /\ UNCHANGED <<ui, power>>

Drop(m) ==
  /\ ~m.left /\ win.is_dragging
  /\ win' = [win EXCEPT !.is_dragging = FALSE]
  /\ UNCHANGED <<start_menu, power>>

NoEvent(m) ==
  /\ ~Press(m) /\ ~win.is_dragging
  /\ UNCHANGED <<ui, power>>

React(m) ==
  \/ ClickStart(m) \/ OpenWindow(m) \/ Shutdown(m) \/ LeaveMenu(m)
  \/ ClickWindow(m) \/ Drag(m) \/ Drop(m) \/ NoEvent(m)

\* Fault: a change of the button alone is not drawn.
StaleMoved(m) == m.x # last.x \/ m.y # last.y \/ win'.is_dragging

Stale(m) == m # last \/ win'.is_dragging

Render(m) ==
  IF Stale(m)
  THEN last' = m /\ shown' = Picture(m, win', start_menu')
  ELSE UNCHANGED <<last, shown>>

\* get_last_key empties last_ascii_char; had it held a key, terminal_handle_key
\* would run.  Only the keyboard's interrupt handler fills it, and this kernel has
\* no interrupts: TypeOK says that it stays empty.
Turn ==
  /\ power
  /\ mouse_handler
  /\ last_ascii_char' = 0
  /\ React(mouse')
  /\ prev_start_click' = mouse'.left
  /\ Render(mouse')

DeviceStep == power /\ Devices /\ UNCHANGED <<ui, loop, power, shown>>

Next == Turn \/ DeviceStep

Spec == Init /\ [][Next]_vars

\* The processor never waits, and the mouse finishes a packet it has begun.
FinishPacket == power /\ NextByte /\ UNCHANGED <<ui, loop, power, shown>>

FairSpec == Spec /\ WF_vars(Turn) /\ WF_vars(FinishPacket)

-----------------------------------------------------------------------------
(* Properties.                                                             *)

TypeOK ==
  /\ MouseTypeOK
  /\ win \in [x : Int, y : Int, is_visible : BOOLEAN, is_dragging : BOOLEAN,
              drag_offset_x : Int, drag_offset_y : Int]
  /\ start_menu \in BOOLEAN /\ prev_start_click \in BOOLEAN /\ power \in BOOLEAN
  /\ last \in [x : Int, y : Int, left : BOOLEAN]
  /\ last_ascii_char = 0

\* However it is dragged, the whole window stays on the screen and above the
\* taskbar (window.c:73-77).
WindowOnDesktop ==
  win.x \in 0 .. ScreenW - WinW /\ win.y \in 0 .. DesktopH - WinH

\* A window is dragged only while it is visible and the button is down, through
\* every order of clicks on the menu, the close button and the title bar.
DragHeld == win.is_dragging => win.is_visible /\ mouse.left

\* A dragged window is where the pointer holds it, up to the edges of the
\* desktop, at every turn: no movement is lost and none is applied twice.
DragTracks ==
  win.is_dragging =>
    /\ win.x = Clamp(mouse.x - win.drag_offset_x, ScreenW - WinW)
    /\ win.y = Clamp(mouse.y - win.drag_offset_y, DesktopH - WinH)

\* After every turn the screen shows the pointer, the window and the menu as
\* they are, though the loop redraws only when its four tests of the mouse and
\* the drag say so (kernel.c:196).
ScreenFresh == shown = Picture(mouse, win, start_menu)

\* The menu, the power, the window's visibility and the start of a drag change
\* only in the turn that sees the button go down: holding it and sweeping over
\* buttons does nothing (kernel.c:167 and 193).
OneActionPerPress ==
  [][\/ start_menu' # start_menu
     \/ power' # power
     \/ win'.is_visible # win.is_visible
     \/ win'.is_dragging /\ ~win.is_dragging
     => ~mouse.left /\ mouse'.left]_vars

\* A release the mouse reports ends the drag.
ReleaseDrops == (sent = 1 /\ ~Bit(packet[1], 1)) ~> ~win.is_dragging
=============================================================================
