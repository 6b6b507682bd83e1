----------------------------- MODULE GameWindow -----------------------------
(***************************************************************************)
(* What the drawing system calls of ring 3 do to the game window           *)
(* (app/app_api.h, syscall_handler, kernel/game_window.c).  A rectangle is *)
(* passed in 16-bit fields and clipped to the client area, the window      *)
(* without its title bar and border.  kernel_main creates the window       *)
(* before ring 3 starts, and nothing destroys it.                          *)
(***************************************************************************)
EXTENDS Integers

CONSTANTS
    WindowWidth, WindowHeight,
    GAME_TITLE_HEIGHT,
    Field16,        \* the fields of a system call are modulo Field16 (2^16)
    TextBuffer,     \* bytes of the buffer of kernel_game_draw_text
    BatchMax        \* rectangles that one batch may have

ASSUME GameWindowAssumption ==
    /\ WindowWidth \in Nat /\ WindowHeight \in Nat /\ GAME_TITLE_HEIGHT \in Nat
    /\ WindowWidth > 2 /\ WindowHeight > GAME_TITLE_HEIGHT + 2
    /\ Field16 \in Nat /\ WindowWidth < Field16 /\ WindowHeight < Field16
    /\ TextBuffer \in Nat /\ BatchMax \in Nat

kernel_game_get_size ==
    [w |-> WindowWidth - 2, h |-> WindowHeight - GAME_TITLE_HEIGHT - 2]

\* A rectangle is its first and its first excluded corner, in the window.
Larger(a, b) == IF a > b THEN a ELSE b
Smaller(a, b) == IF a < b THEN a ELSE b

ClientWithBorder ==
    [x0 |-> 1, y0 |-> GAME_TITLE_HEIGHT + 1, x1 |-> WindowWidth, y1 |-> WindowHeight]
Client ==
    [x0 |-> 1, y0 |-> GAME_TITLE_HEIGHT + 1,
     x1 |-> WindowWidth - 1, y1 |-> WindowHeight - 1]

Pixels(r) == (r.x0 .. r.x1 - 1) \X (r.y0 .. r.y1 - 1)

\* The pixels that kernel_game_fill_rect writes; kernel_game_clear writes Client.
kernel_game_fill_rect(x, y, w, h) ==
    LET x0 == 1 + x
        y0 == GAME_TITLE_HEIGHT + 1 + y
    IN
    IF w <= 0 \/ h <= 0 THEN {} ELSE
    Pixels([x0 |-> Larger(x0, Client.x0), y0 |-> Larger(y0, Client.y0),
            x1 |-> Smaller(x0 + w, Client.x1), y1 |-> Smaller(y0 + h, Client.y1)])

\* app_game_fill_rect truncates each argument to 16 bits.
app_game_fill_rect(r) ==
    kernel_game_fill_rect(r.x % Field16, r.y % Field16, r.w % Field16, r.h % Field16)

\* SYS_GAME_FILL_RECTS_BATCH takes at most BatchMax of the rectangles.  They lie
\* in ring 3's data, so the test of the pointer passes.  If the caller takes the
\* result, which is never set, for a failure it draws the same pixels again.
app_game_fill_rects_batch(rects, count) ==
    UNION {app_game_fill_rect(rects[k]) : k \in 1 .. Smaller(count, BatchMax)}

\* kernel_game_draw_text copies at most TextBuffer characters, then writes the
\* terminator behind them.
TerminatorAt(length) == Smaller(length, TextBuffer)

=============================================================================
