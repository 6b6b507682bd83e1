-------------------------------- MODULE Pong --------------------------------
(***************************************************************************)
(* The game of Pong that runs in ring 3 (app/pong.c).  game is PongState;  *)
(* a frame of pong_main reads the keys, moves the paddles, moves the ball  *)
(* and draws, with the functions of the source applied one after the other *)
(* to the record.  Nothing else changes the record, so a frame is a step:  *)
(* the keys are those that its calls of app_key_down find, each read once. *)
(***************************************************************************)
EXTENDS GameWindow, Sequences

CONSTANTS
    BALL_SIZE,
    PADDLE_WIDTH, PADDLE_HEIGHT, PADDLE_OFFSET_X, PaddleSpeed,
    CENTER_LINE_WIDTH, CENTER_LINE_HEIGHT, CENTER_LINE_GAP, CENTER_LINE_MAX_RECTS,
    SCORE_LIMIT,
    PONG_FRAME_TICKS, PONG_MAX_DELTA_TICKS,
    Keys,       \* the keys that the players use
    Delays      \* ticks that may pass from one frame to the next

game_w == kernel_game_get_size.w
game_h == kernel_game_get_size.h

left_paddle_x == PADDLE_OFFSET_X
right_paddle_x == game_w - (PADDLE_OFFSET_X + PADDLE_WIDTH)
left_face == left_paddle_x + PADDLE_WIDTH

\* The ball is smaller than the field and fits between the paddles, and crosses
\* neither a paddle nor its own size in one frame.  The centre line fits into the
\* field and into a batch; 16 bits tell a ball beyond the left edge from one in
\* the field; the longest text has 7 characters.
ASSUME PongAssumption ==
    /\ \A n \in {BALL_SIZE, PADDLE_WIDTH, PADDLE_HEIGHT, PaddleSpeed,
                 CENTER_LINE_WIDTH, CENTER_LINE_HEIGHT, SCORE_LIMIT,
                 PONG_FRAME_TICKS, PONG_MAX_DELTA_TICKS} : n \in Nat \ {0}
    /\ \A n \in {PADDLE_OFFSET_X, CENTER_LINE_GAP, CENTER_LINE_MAX_RECTS} : n \in Nat
    /\ PADDLE_HEIGHT <= game_h /\ BALL_SIZE <= game_h
    /\ left_face + PONG_MAX_DELTA_TICKS <= (game_w - BALL_SIZE) \div 2
    /\ (game_w - BALL_SIZE) \div 2 + BALL_SIZE + PONG_MAX_DELTA_TICKS <= right_paddle_x
    /\ PONG_MAX_DELTA_TICKS < PADDLE_WIDTH + BALL_SIZE
    /\ CENTER_LINE_WIDTH <= game_w /\ CENTER_LINE_HEIGHT <= game_h
    /\ CENTER_LINE_MAX_RECTS <= BatchMax
    /\ game_w + BALL_SIZE + PONG_MAX_DELTA_TICKS <= Field16
    /\ 7 < TextBuffer
    /\ Keys \subseteq {"W", "S", "UP", "DOWN", "SPACE", "R"}
    /\ Delays \subseteq Nat

VARIABLES
    game,       \* PongState, without its constant fields
    polled,     \* history: the keys that the last frame found down
    fresh,      \* history: the game has been started since that frame
    presented   \* changes with every app_present

vars == <<game, polled, fresh, presented>>

CentreX == (game_w - BALL_SIZE) \div 2
CentreY == (game_h - BALL_SIZE) \div 2

\* restart_was_down is not set by pong_init.
pong_init(restartWasDown) ==
    [x |-> CentreX, y |-> CentreY, vx |-> 1, vy |-> 1,
     left |-> (game_h - PADDLE_HEIGHT) \div 2,
     right |-> (game_h - PADDLE_HEIGHT) \div 2,
     score1 |-> 0, score2 |-> 0, over |-> FALSE, winner |-> 0,
     paused |-> FALSE, spaceWasDown |-> FALSE, restartWasDown |-> restartWasDown]

\* The record lies on the stack: its restart_was_down is what was there.
Init ==
    /\ game \in {pong_init(garbage) : garbage \in BOOLEAN}
    /\ polled = {}
    /\ fresh = TRUE
    /\ presented = FALSE

SkipLateFrame(elapsed) == IF elapsed > PONG_MAX_DELTA_TICKS THEN 0 ELSE elapsed
Unclamped(elapsed) == elapsed
pong_clamp_delta_ticks(elapsed) ==
    IF elapsed = 0 THEN 1
    ELSE IF elapsed > PONG_MAX_DELTA_TICKS THEN PONG_MAX_DELTA_TICKS
    ELSE elapsed

-----------------------------------------------------------------------------
(* pong_handle_global_input and pong_handle_paddle_input *)

PauseWhileDown(g, keys) == g.paused # ("SPACE" \in keys)
Paused(g, keys) ==
    IF "SPACE" \in keys /\ ~g.spaceWasDown THEN ~g.paused ELSE g.paused

Restarts(g, keys) == g.over /\ "R" \in keys /\ ~g.restartWasDown

pong_handle_global_input(g, keys) ==
    IF Restarts(g, keys) THEN pong_init(g.restartWasDown)
    ELSE IF g.over THEN [g EXCEPT !.restartWasDown = "R" \in keys]
    ELSE [g EXCEPT !.restartWasDown = "R" \in keys,
                   !.paused = Paused(g, keys),
                   !.spaceWasDown = "SPACE" \in keys]

KeptAbove(y) == IF y < 0 THEN 0 ELSE y
KeptInside(y) ==
    IF y < 0 THEN 0
    ELSE IF y + PADDLE_HEIGHT > game_h THEN game_h - PADDLE_HEIGHT
    ELSE y

PaddleMove(keys, up, down) ==
    (IF down \in keys THEN PaddleSpeed ELSE 0) - (IF up \in keys THEN PaddleSpeed ELSE 0)

pong_handle_paddle_input(g, keys, delta) ==
    IF g.paused \/ g.over THEN g ELSE
    [g EXCEPT !.left = KeptInside(@ + PaddleMove(keys, "W", "S") * delta),
              !.right = KeptInside(@ + PaddleMove(keys, "UP", "DOWN") * delta)]

-----------------------------------------------------------------------------
(* pong_update *)

BallOverlaps(g, px, py) ==
    /\ g.x < px + PADDLE_WIDTH /\ g.x + BALL_SIZE > px
    /\ g.y < py + PADDLE_HEIGHT /\ g.y + BALL_SIZE > py

\* The new place of the ball, off the ceiling and the floor.
BallMoved(g, delta) ==
    LET y == g.y + g.vy * delta
        h == [g EXCEPT !.x = @ + g.vx * delta]
    IN
    IF y <= 0 THEN [h EXCEPT !.y = 0, !.vy = -@]
    ELSE IF y + BALL_SIZE >= game_h THEN [h EXCEPT !.y = game_h - BALL_SIZE, !.vy = -@]
    ELSE [h EXCEPT !.y = y]

BallReflected(g) ==
    IF g.vx < 0 /\ BallOverlaps(g, left_paddle_x, g.left)
    THEN [g EXCEPT !.x = left_face, !.vx = -@]
    ELSE IF g.vx > 0 /\ BallOverlaps(g, right_paddle_x, g.right)
    THEN [g EXCEPT !.x = right_paddle_x - BALL_SIZE, !.vx = -@]
    ELSE g

pong_reset_ball(g, direction) ==
    [g EXCEPT !.x = CentreX, !.y = CentreY, !.vx = direction, !.vy = 1]

NextPoint(score) == IF score < SCORE_LIMIT THEN score + 1 ELSE score

pong_score_point(g, player) ==
    LET h == IF player = 1 THEN [g EXCEPT !.score1 = NextPoint(@)]
                           ELSE [g EXCEPT !.score2 = NextPoint(@)]
    IN
    IF (IF player = 1 THEN h.score1 ELSE h.score2) >= SCORE_LIMIT
    THEN [h EXCEPT !.over = TRUE, !.winner = player]
    ELSE pong_reset_ball(h, IF player = 1 THEN -1 ELSE 1)

PointScored(g) ==
    IF g.x + BALL_SIZE < 0 THEN pong_score_point(g, 2)
    ELSE IF g.x > game_w THEN pong_score_point(g, 1)
    ELSE g

pong_update(g, delta) ==
    IF g.over \/ g.paused THEN g ELSE PointScored(BallReflected(BallMoved(g, delta)))

-----------------------------------------------------------------------------
(* pong_render: the rectangles and the texts of a frame *)

CenterLine ==
    LET step == CENTER_LINE_HEIGHT + CENTER_LINE_GAP
        count == Smaller((game_h + step - 1) \div step, CENTER_LINE_MAX_RECTS)
    IN [k \in 1 .. count |->
          [x |-> (game_w - CENTER_LINE_WIDTH) \div 2, y |-> (k - 1) * step,
           w |-> CENTER_LINE_WIDTH, h |-> CENTER_LINE_HEIGHT]]

Paddles(g) ==
    {[x |-> left_paddle_x, y |-> g.left, w |-> PADDLE_WIDTH, h |-> PADDLE_HEIGHT],
     [x |-> right_paddle_x, y |-> g.right, w |-> PADDLE_WIDTH, h |-> PADDLE_HEIGHT]}

Ball(g) == [x |-> g.x, y |-> g.y, w |-> BALL_SIZE, h |-> BALL_SIZE]

\* pong_score_to_text: digits of a score, capped at 99.
ScoreDigits(score) == IF score >= 10 THEN 2 ELSE 1

\* The lengths of the texts: the scores, and WINNER with Player1 or Player2, or
\* Paused.
TextLengths(g) ==
    {ScoreDigits(g.score1), ScoreDigits(g.score2)}
        \cup (IF g.over THEN {6, 7} ELSE IF g.paused THEN {6} ELSE {})

-----------------------------------------------------------------------------
\* pong_main: a frame, once PONG_FRAME_TICKS have passed since the last one;
\* until then it only sleeps.
Frame(keys, elapsed) ==
    /\ elapsed >= PONG_FRAME_TICKS
    /\ LET delta == pong_clamp_delta_ticks(elapsed)
           g == pong_handle_paddle_input(pong_handle_global_input(game, keys), keys, delta)
       IN game' = pong_update(g, delta)
    /\ polled' = keys \cap {"SPACE", "R"}
    /\ fresh' = Restarts(game, keys)
    /\ presented' = ~presented

Next == \E keys \in SUBSET Keys, elapsed \in Delays : Frame(keys, elapsed)

\* Frames go on: the timer ticks, and every sleep of the task ends.
Spec == Init /\ [][Next]_vars /\ WF_presented(presented' = ~presented)

-----------------------------------------------------------------------------

\* The ball has a direction in each axis; the paddles and the ball are anywhere.
TypeOK ==
    /\ game \in [x : Int, y : Int, vx : {-1, 1}, vy : {-1, 1}, left : Int, right : Int,
                 score1 : Nat, score2 : Nat, over : BOOLEAN, winner : 0 .. 2,
                 paused : BOOLEAN, spaceWasDown : BOOLEAN, restartWasDown : BOOLEAN]
    /\ polled \subseteq {"SPACE", "R"}
    /\ fresh \in BOOLEAN
    /\ presented \in BOOLEAN

\* At the end of every frame the paddles and the ball are inside the field, up
\* to the point that ends a game, and the ball is clear of both paddles,
\* wherever a paddle was driven into its way.
FieldInOrder ==
    /\ game.left \in 0 .. game_h - PADDLE_HEIGHT
    /\ game.right \in 0 .. game_h - PADDLE_HEIGHT
    /\ game.y \in 0 .. game_h - BALL_SIZE
    /\ game.over \/ game.x \in -BALL_SIZE .. game_w
    /\ ~BallOverlaps(game, left_paddle_x, game.left)
    /\ ~BallOverlaps(game, right_paddle_x, game.right)

\* However late a frame comes, no point is given to a player whose opponent the
\* ball has not been seen to pass: at the end of the frame before, it flew
\* towards that goal and was no longer in front of the paddle.  A frame gives
\* at most one point, and the game is over exactly when its winner has reached
\* the limit.
PointsAreEarned ==
    [][LET gain1 == game'.score1 - game.score1
           gain2 == game'.score2 - game.score2
       IN
       /\ gain1 > 0 => game.vx > 0 /\ game.x > right_paddle_x - BALL_SIZE
       /\ gain2 > 0 => game.vx < 0 /\ game.x < left_face
       /\ gain1 + gain2 <= 1
       /\ game'.over = (game'.winner # 0)
       /\ (game'.winner = 1) = (game'.score1 = SCORE_LIMIT)
       /\ (game'.winner = 2) = (game'.score2 = SCORE_LIMIT)]_vars

\* A key that is held acts once: a game restarts, and the pause toggles, only if
\* the frame before found the key up; so whatever restart_was_down was on the
\* stack.  Only in the first frame of a game a SPACE that was held acts again,
\* because pong_init forgets that it was down.
OneActionPerPress ==
    [][/\ Restarts(game, polled') => "R" \notin polled
       /\ game'.paused # game.paused => "SPACE" \in polled' \ polled \/ fresh]_vars

\* What is drawn is what there is: each rectangle is written where it lies, to
\* the edge of the client area and not beyond, except that a ball partly beyond
\* the left edge is not drawn at all (its x becomes a large 16-bit number).
\* Every text leaves room for its terminator.
InField(r) ==
    {<<px + 1, py + GAME_TITLE_HEIGHT + 1>> :
        px \in {c \in r.x .. r.x + r.w - 1 : c \in 0 .. game_w - 1},
        py \in {c \in r.y .. r.y + r.h - 1 : c \in 0 .. game_h - 1}}

DrawnAsItIs ==
    /\ \A r \in Paddles(game) : app_game_fill_rect(r) = InField(r)
    /\ app_game_fill_rect(Ball(game)) =
          IF game.x < 0 THEN {} ELSE InField(Ball(game))
    /\ app_game_fill_rects_batch(CenterLine, Len(CenterLine)) =
          UNION {InField(CenterLine[k]) : k \in DOMAIN CenterLine}
    /\ \A n \in TextLengths(game) : TerminatorAt(n) < TextBuffer

\* The ball does not hang: unless the game is paused or over, it comes back or
\* a point is scored.
BallComesBack ==
    /\ (game.vx = 1) ~> (game.vx = -1 \/ game.paused \/ game.over)
    /\ (game.vx = -1) ~> (game.vx = 1 \/ game.paused \/ game.over)

=============================================================================
