------------------------------- MODULE Desktop -------------------------------
(***************************************************************************)
(* What the user sees and moves: mouse_on_packet (mouse/mouse.c) turns the *)
(* packets of the mouse into events, ui_task (kernel/kernel.c) takes them  *)
(* out of the event queue and focuses, raises and drags windows            *)
(* (window/window.c), whose layers the compositor draws in the order of    *)
(* the layer manager.                                                      *)
(*                                                                         *)
(* A packet is one step: its interrupt runs to the end of its pushes       *)
(* before the task continues (EventPath).  The handling of an event and    *)
(* the composition are one step each: they touch only state that no        *)
(* interrupt reads, and tasks do not preempt each other (Scheduler).       *)
(***************************************************************************)
EXTENDS Layers

CONSTANTS
    WIDTH, HEIGHT,  \* the screen
    TITLE_HEIGHT,   \* rows of a title bar
    Geometry,       \* x, y, w, h with which kernel_main creates each window
    Button,         \* buttons of the mouse that are used
    MAX_DELTA,      \* packets that move further are dropped (50)
    Moves,          \* movements <<dx, dy>> of a packet that are explored
    Capacity        \* events that the event queue holds

NoWindow == 0
Left == "left"
Xs == 0 .. WIDTH - 1
Ys == 0 .. HEIGHT - 1

ASSUME DesktopAssumption ==
    /\ WIDTH \in Nat \ {0} /\ HEIGHT \in Nat \ {0}
    /\ TITLE_HEIGHT \in Nat
    /\ Window = 1 .. Cardinality(Window)
    /\ Geometry \in [Window -> [x : Nat, y : Nat, w : Nat \ {0}, h : Nat \ {0}]]
    /\ \A w \in Window : /\ Geometry[w].x + Geometry[w].w <= WIDTH
                         /\ Geometry[w].y + Geometry[w].h <= HEIGHT
    /\ Button \subseteq {"left", "right", "middle"}
    \* The cursor is added last, before any renumbering.
    /\ Cardinality(Layer) <= MAX_LAYERS
    /\ Z_RESET_THRESHOLD >= 2 * Cardinality(Window)
    /\ MAX_DELTA \in Nat /\ Moves \subseteq Int \X Int
    /\ Capacity \in Nat

VARIABLES
    lm,         \* the layer manager
    win,        \* the windows: their place, and that of their layer
    created,    \* windows in use; kernel_main creates them in order
    active,     \* g_active_win
    pointer,    \* mouse_x, mouse_y
    held,       \* mouse_buttons, and with it prev_buttons
    cursor,     \* place of the cursor's layer
    queue,      \* the events in the event queue
    ui,         \* where kernel_main, and then ui_task, stands
    drag,       \* g_dragwin with the offset at which it was grabbed
    lost        \* history: an event of the mouse was refused

mouse == <<pointer, held>>
windows == <<lm, win, created, active>>
vars == <<windows, mouse, cursor, queue, ui, drag, lost>>

NoDrag == [on |-> FALSE, win |-> NoWindow, x |-> 0, y |-> 0]
NoPlace == [x |-> 0, y |-> 0]

-----------------------------------------------------------------------------

Init ==
    /\ lm = NoLayers
    /\ win = [w \in Window |-> [place |-> NoPlace, drawn |-> NoPlace]]
    /\ created = {}
    /\ active = NoWindow
    /\ pointer = [x |-> WIDTH \div 2, y |-> HEIGHT \div 2]
    /\ held = {}
    /\ cursor = NoPlace
    /\ queue = << >>
    /\ ui = "create"
    /\ drag = NoDrag
    /\ lost = FALSE

\* wm_focus: the window becomes the active one and is raised.
wm_focus(m, w) == layer_bring_to_front(m, w)

\* kernel_main creates its windows; each is added above the others and then
\* focused, which raises it once more.
wm_create_window(w) ==
    /\ ui = "create" /\ created = 1 .. w - 1
    /\ win' = [win EXCEPT ![w] =
                  [place |-> [x |-> Geometry[w].x, y |-> Geometry[w].y],
                   drawn |-> [x |-> Geometry[w].x, y |-> Geometry[w].y]]]
    /\ created' = created \cup {w}
    /\ lm' = wm_focus(layer_add(lm, w), w)
    /\ active' = w
    /\ UNCHANGED <<mouse, cursor, queue, ui, drag, lost>>

\* cursor_init, on a position read in two steps between which the mouse may
\* move: get_mouse_x, and then get_mouse_y.
GetMouseX ==
    /\ ui = "create" /\ created = Window
    /\ cursor' = [cursor EXCEPT !.x = pointer.x]
    /\ ui' = "cursor"
    /\ UNCHANGED <<windows, mouse, queue, drag, lost>>

cursor_init ==
    /\ ui = "cursor"
    /\ cursor' = [cursor EXCEPT !.y = pointer.y]
    /\ lm' = layer_add(lm, Cursor)
    /\ ui' = "run"
    /\ UNCHANGED <<win, created, active, mouse, queue, drag, lost>>

-----------------------------------------------------------------------------
(* mouse_on_packet *)

Within(v, max) == IF v < 0 THEN 0 ELSE IF v > max THEN max ELSE v

DiagonalMoveEvents(dx, dy, p) ==
    IF dx # 0 /\ dy # 0 THEN <<[type |-> "move", x |-> p.x, y |-> p.y]>>
    ELSE << >>

MoveEvents(dx, dy, p) ==
    IF dx # 0 \/ dy # 0 THEN <<[type |-> "move", x |-> p.x, y |-> p.y]>>
    ELSE << >>

\* One event for every button that changed, in the order left, right, middle.
ButtonEvents(before, after, p) ==
    LET Changed(b) == (b \in before) # (b \in after)
        EventOf(b) ==
            IF Changed(b)
            THEN <<[type |-> "button", button |-> b, pressed |-> b \in after,
                    x |-> p.x, y |-> p.y]>>
            ELSE << >>
    IN  EventOf("left") \o EventOf("right") \o EventOf("middle")

\* What event_push after event_push lets in.
Accepted(events) ==
    IF Len(queue) + Len(events) <= Capacity THEN events
    ELSE SubSeq(events, 1, Capacity - Len(queue))

\* A packet that moves too far is dropped with its buttons.
PacketDropped(dx, dy) ==
    \/ dx < - MAX_DELTA \/ dx > MAX_DELTA
    \/ dy < - MAX_DELTA \/ dy > MAX_DELTA

mouse_on_packet(dx, dy, bs) ==
    /\ ~ PacketDropped(dx, dy)
    /\ LET p == [x |-> Within(pointer.x + dx, WIDTH - 1),
                 y |-> Within(pointer.y - dy, HEIGHT - 1)]
           events == MoveEvents(dx, dy, p) \o ButtonEvents(held, bs, p)
       IN  /\ pointer' = p
           /\ queue' = queue \o Accepted(events)
           /\ lost' = (lost \/ Accepted(events) # events)
    /\ held' = bs
    /\ UNCHANGED <<windows, cursor, ui, drag>>

\* Every scancode is one event, which takes a slot from those of the mouse;
\* which key it tells of is in Keyboard.  A key may interrupt a packet between
\* two pushes: the same events of the mouse are then refused as if the keys that
\* the queue still let in had come before the packet and the others after it.
KeyEvent == [type |-> "key"]

keyboard_on_scancode ==
    /\ queue' = queue \o Accepted(<<KeyEvent>>)
    /\ UNCHANGED <<windows, mouse, cursor, ui, drag, lost>>

-----------------------------------------------------------------------------
(* Windows at a point *)

Covers(w, place, x, y) ==
    /\ place.x <= x /\ x < place.x + Geometry[w].w
    /\ place.y <= y /\ y < place.y + Geometry[w].h

HitAt(x, y) == {w \in created : Covers(w, win[w].place, x, y)}

\* The hit of the largest z, the first of them in the table.
TopmostByIndex(x, y) ==
    IF HitAt(x, y) = {} THEN NoWindow
    ELSE CHOOSE w \in HitAt(x, y) : \A v \in HitAt(x, y) : w <= v

wm_topmost_window(x, y) ==
    LET hits == HitAt(x, y) IN
    IF hits = {} THEN NoWindow
    ELSE CHOOSE w \in hits :
            \A v \in hits \ {w} :
                lm.z[v] < lm.z[w] \/ (lm.z[v] = lm.z[w] /\ w < v)

\* The title bar lies below the border row of the window.
wm_is_on_titlebar(w, x, y) ==
    /\ win[w].place.x <= x /\ x < win[w].place.x + Geometry[w].w
    /\ win[w].place.y + 1 <= y /\ y <= win[w].place.y + TITLE_HEIGHT

-----------------------------------------------------------------------------
(* ui_task: one event *)

MoveWindowOnly(w, p) == win' = [win EXCEPT ![w].place = p]

wm_move_window(w, p) == win' = [win EXCEPT ![w] = [place |-> p, drawn |-> p]]

\* Clamped at the right and the bottom edge only.
PlacedBelowMax(w, x, y) ==
    [x |-> IF x > WIDTH - Geometry[w].w THEN WIDTH - Geometry[w].w ELSE x,
     y |-> IF y > HEIGHT - Geometry[w].h THEN HEIGHT - Geometry[w].h ELSE y]

\* A dragged window is kept on the screen.
Placed(w, x, y) ==
    [x |-> Within(x, WIDTH - Geometry[w].w),
     y |-> Within(y, HEIGHT - Geometry[w].h)]

MouseMove(e) ==
    /\ cursor' = [x |-> e.x, y |-> e.y]
    /\ IF drag.on /\ drag.win # NoWindow
       THEN wm_move_window(drag.win,
                           Placed(drag.win, e.x - drag.x, e.y - drag.y))
       ELSE UNCHANGED win
    /\ UNCHANGED <<lm, created, active, drag>>

GrabAtCorner(w, e) == [on |-> TRUE, win |-> w, x |-> 0, y |-> 0]

Grab(w, e) == [on |-> TRUE, win |-> w,
               x |-> e.x - win[w].place.x, y |-> e.y - win[w].place.y]

LeftPressed(e) ==
    LET w == wm_topmost_window(e.x, e.y)
        onTitle == w # NoWindow /\ wm_is_on_titlebar(w, e.x, e.y)
    IN  /\ active' = IF w = NoWindow THEN active ELSE w
        /\ lm' = CASE w = NoWindow -> lm
                   [] onTitle -> layer_bring_to_front(wm_focus(lm, w), w)
                   [] OTHER -> wm_focus(lm, w)
        /\ drag' = IF onTitle THEN Grab(w, e) ELSE drag
        /\ UNCHANGED <<win, created, cursor>>

LeftReleasedForgotten(e) == drag' = drag /\ UNCHANGED <<windows, cursor>>

LeftReleased(e) ==
    /\ drag' = [drag EXCEPT !.on = FALSE, !.win = NoWindow]
    /\ UNCHANGED <<windows, cursor>>

HandleEvent(e) ==
    CASE e.type = "move" -> MouseMove(e)
      [] e.type = "button" /\ e.button = Left /\ e.pressed -> LeftPressed(e)
      [] e.type = "button" /\ e.button = Left /\ ~ e.pressed -> LeftReleased(e)
      [] OTHER -> UNCHANGED <<windows, cursor, drag>>

UiEvent ==
    /\ ui = "run" /\ queue # << >>
    /\ HandleEvent(Head(queue))
    /\ queue' = Tail(queue)
    /\ UNCHANGED <<mouse, ui, lost>>

\* The queue is empty: compositor_compose reads the layers in order and so
\* sorts the table; then the task sleeps until the next frame.  Packets that
\* arrive in between touch nothing of this, so the three are one step.
compositor_compose ==
    /\ ui = "run" /\ queue = << >>
    /\ lm' = layer_get_all(lm)
    /\ UNCHANGED <<win, created, active, mouse, cursor, queue, ui, drag, lost>>

-----------------------------------------------------------------------------

Boot == GetMouseX \/ cursor_init \/ \E w \in Window : wm_create_window(w)
UiTask == UiEvent \/ compositor_compose
Packet ==
    \E d \in Moves, bs \in SUBSET Button :
        mouse_on_packet(d[1], d[2], bs)

Next == Boot \/ UiTask \/ Packet \/ keyboard_on_scancode

Spec == Init /\ [][Next]_vars

-----------------------------------------------------------------------------
(* Properties *)

Place == [x : Xs, y : Ys]
Event ==
    [type : {"move"}, x : Xs, y : Ys]
    \cup [type : {"button"}, button : Button, pressed : BOOLEAN, x : Xs, y : Ys]
    \cup {KeyEvent}

\* The layer stack, the drag and the cursor have the shape of their records.
TypeOK ==
    /\ lm.table \in Seq(Layer)
    /\ lm.z \in [Layer -> Nat]
    /\ lm.top \in Nat
    /\ win \in [Window -> [place : Place, drawn : Place]]
    /\ created \in SUBSET Window
    /\ active \in Window \cup {NoWindow}
    /\ pointer \in Place
    /\ held \in SUBSET Button
    /\ cursor \in Place
    /\ queue \in Seq(Event) /\ Len(queue) <= Capacity
    /\ ui \in {"create", "cursor", "run"}
    /\ drag \in [on : BOOLEAN, win : Window \cup {NoWindow}, x : Xs, y : Ys]
    /\ lost \in BOOLEAN

Fits(w, place) ==
    /\ 0 <= place.x /\ place.x + Geometry[w].w <= WIDTH
    /\ 0 <= place.y /\ place.y + Geometry[w].h <= HEIGHT

\* No sequence of grabs, moves and releases pushes any part of a window, or of
\* its layer, over one of the four edges of the screen, wherever in the title
\* bar it was grabbed.
OnScreen ==
    \A w \in created : Fits(w, win[w].place) /\ Fits(w, win[w].drawn)

\* The active window, which gets the keys, is the one in front of all others:
\* focus and raising agree through every renumbering of the layers.
ActiveInFront ==
    \A w \in created \ {active} : lm.z[w] < lm.z[active]

\* The cursor stays above every window, however often windows are raised.
CursorOnTop ==
    ui = "run" =>
        \A w \in Window : lm.z[w] < lm.z[Cursor]

\* What the compositor draws last at x, y.
DrawnAt(x, y) ==
    LET s == SortedTable(lm)
        drawn == {w \in created : Covers(w, win[w].drawn, x, y)}
        There == {i \in DOMAIN s : s[i] \in drawn}
    IN  IF There = {} THEN NoWindow
        ELSE s[CHOOSE i \in There : \A j \in There : j <= i]

\* A press reaches the window that the compositor draws in front at that point:
\* the hit test on windows and the order of the layers never disagree.
HitIsDrawn == \A x \in Xs, y \in Ys : wm_topmost_window(x, y) = DrawnAt(x, y)

\* Raising a window, with the renumbering it may cause, and composing leave
\* the other windows in the order in which they were.
OrderKept ==
    [][\A v, w \in created \ {active'} :
            (lm.z[v] < lm.z[w]) = (lm'.z[v] < lm'.z[w])]_vars

\* While a window is dragged it stays where it was grabbed under the cursor,
\* as far as the edges of the screen let it, and it is the one in front.
Drained == ui = "run" /\ queue = << >> /\ ~ lost
DragFollows ==
    (Drained /\ drag.on) =>
        /\ drag.win = active
        /\ win[drag.win].place =
              Placed(drag.win, pointer.x - drag.x, pointer.y - drag.y)

\* Once the events have been handled the cursor is where the mouse is, also
\* when it moved while kernel_main read its position for cursor_init.
CursorCatchesUp == Drained => cursor = pointer

\* A window is dragged only while the left button is down, as long as no event
\* of the mouse was refused.
DragNeedsButton == (Drained /\ drag.on) => Left \in held

\* The same without that condition: a released button has ended the drag once
\* all events have been handled.
ReleaseEndsDrag == (ui = "run" /\ queue = << >> /\ drag.on) => Left \in held

=============================================================================
