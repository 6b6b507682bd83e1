----------------------------- MODULE PongProofs -----------------------------
(***************************************************************************)
(* Proofs about Pong, for every size of the window, the ball and the       *)
(* paddles that PongAssumption allows, and for frames however late.        *)
(***************************************************************************)
EXTENDS Pong, TLAPS

Games ==
    [x : Int, y : Int, vx : {-1, 1}, vy : {-1, 1}, left : Int, right : Int,
     score1 : Nat, score2 : Nat, over : BOOLEAN, winner : 0 .. 2,
     paused : BOOLEAN, spaceWasDown : BOOLEAN, restartWasDown : BOOLEAN]

\* What the geometry of the field has to give, as inequalities.
LEMMA Geometry ==
    /\ game_w \in Int /\ game_h \in Int /\ left_face \in Int
    /\ left_paddle_x \in Int /\ right_paddle_x \in Int
    /\ BALL_SIZE \in Int /\ BALL_SIZE > 0 /\ PADDLE_WIDTH \in Int /\ PADDLE_WIDTH > 0
    /\ PADDLE_HEIGHT \in Int /\ PADDLE_HEIGHT > 0 /\ PaddleSpeed \in Int
    /\ SCORE_LIMIT \in Int /\ SCORE_LIMIT > 0
    /\ PONG_MAX_DELTA_TICKS \in Int /\ PONG_MAX_DELTA_TICKS > 0
    /\ PONG_MAX_DELTA_TICKS < PADDLE_WIDTH + BALL_SIZE
    /\ PADDLE_HEIGHT <= game_h /\ BALL_SIZE <= game_h
    /\ left_paddle_x >= 0 /\ left_face = left_paddle_x + PADDLE_WIDTH
    /\ right_paddle_x + PADDLE_WIDTH <= game_w
    /\ CentreX \in Int /\ CentreY \in 0 .. game_h - BALL_SIZE
    /\ left_face + PONG_MAX_DELTA_TICKS <= CentreX
    /\ CentreX + BALL_SIZE + PONG_MAX_DELTA_TICKS <= right_paddle_x
    /\ (game_h - PADDLE_HEIGHT) \div 2 \in 0 .. game_h - PADDLE_HEIGHT
<1>1. /\ BALL_SIZE \in Nat \ {0} /\ PADDLE_WIDTH \in Nat \ {0} /\ PADDLE_HEIGHT \in Nat \ {0}
      /\ PaddleSpeed \in Nat \ {0} /\ SCORE_LIMIT \in Nat \ {0}
      /\ PONG_MAX_DELTA_TICKS \in Nat \ {0} /\ PADDLE_OFFSET_X \in Nat
      /\ PADDLE_HEIGHT <= game_h /\ BALL_SIZE <= game_h
      /\ left_face + PONG_MAX_DELTA_TICKS <= CentreX
      /\ CentreX + BALL_SIZE + PONG_MAX_DELTA_TICKS <= right_paddle_x
      /\ PONG_MAX_DELTA_TICKS < PADDLE_WIDTH + BALL_SIZE
  BY PongAssumption DEF CentreX
<1>2. game_w \in Int /\ game_h \in Int
  <2>1. /\ WindowWidth - 2 \in Int
        /\ WindowHeight - GAME_TITLE_HEIGHT - 2 \in Int
    BY GameWindowAssumption
  <2>2. game_w = WindowWidth - 2 /\ game_h = WindowHeight - GAME_TITLE_HEIGHT - 2
    BY DEF game_w, game_h, kernel_game_get_size
  <2>. QED
    BY <2>1, <2>2
<1>3. /\ left_paddle_x = PADDLE_OFFSET_X
      /\ left_face = left_paddle_x + PADDLE_WIDTH
      /\ right_paddle_x = game_w - (PADDLE_OFFSET_X + PADDLE_WIDTH)
  BY DEF left_paddle_x, left_face, right_paddle_x
<1>4. CentreX \in Int
  BY <1>1, <1>2 DEF CentreX
<1>5. \A n \in Nat : n \div 2 \in 0 .. n
  OBVIOUS
<1>6. CentreY \in 0 .. game_h - BALL_SIZE
  <2>1. game_h - BALL_SIZE \in Nat
    BY <1>1, <1>2
  <2>. QED
    BY <1>5, <2>1 DEF CentreY
<1>7. (game_h - PADDLE_HEIGHT) \div 2 \in 0 .. game_h - PADDLE_HEIGHT
  <2>1. game_h - PADDLE_HEIGHT \in Nat
    BY <1>1, <1>2
  <2>. QED
    BY <1>5, <2>1
<1>. QED
  BY <1>1, <1>2, <1>3, <1>4, <1>6, <1>7

\* A frame advances by at least one tick and by at most PONG_MAX_DELTA_TICKS.
LEMMA DeltaBounded ==
    ASSUME NEW elapsed \in Nat
    PROVE  pong_clamp_delta_ticks(elapsed) \in 1 .. PONG_MAX_DELTA_TICKS
  BY Geometry DEF pong_clamp_delta_ticks

-----------------------------------------------------------------------------
(* The functions of a frame, on the fields that they change *)

SameBall(h, g) == h.x = g.x /\ h.y = g.y /\ h.vx = g.vx /\ h.vy = g.vy
SamePoints(h, g) ==
    h.score1 = g.score1 /\ h.score2 = g.score2 /\ h.over = g.over /\ h.winner = g.winner
SameKeys(h, g) ==
    /\ h.paused = g.paused
    /\ h.spaceWasDown = g.spaceWasDown /\ h.restartWasDown = g.restartWasDown
SamePaddles(h, g) == h.left = g.left /\ h.right = g.right

\* What pong_init leaves.
LEMMA InitFields ==
    ASSUME NEW b \in BOOLEAN
    PROVE  LET h == pong_init(b) IN
           /\ h \in Games
           /\ h.x = CentreX /\ h.y = CentreY /\ h.vx = 1 /\ h.vy = 1
           /\ h.left \in 0 .. game_h - PADDLE_HEIGHT
           /\ h.right \in 0 .. game_h - PADDLE_HEIGHT
           /\ h.score1 = 0 /\ h.score2 = 0 /\ ~h.over /\ h.winner = 0 /\ ~h.paused
           /\ ~h.spaceWasDown /\ h.restartWasDown = b
  BY Geometry DEF pong_init, Games

\* The global keys restart the game or leave the ball, the paddles and the score.
LEMMA GlobalInputFields ==
    ASSUME NEW g \in Games, NEW keys
    PROVE  LET h == pong_handle_global_input(g, keys) IN
           /\ h \in Games
           /\ \/ Restarts(g, keys) /\ h = pong_init(g.restartWasDown)
              \/ /\ ~Restarts(g, keys)
                 /\ SameBall(h, g) /\ SamePaddles(h, g) /\ SamePoints(h, g)
                 /\ h.restartWasDown = ("R" \in keys)
                 /\ h.paused = (IF g.over THEN g.paused ELSE Paused(g, keys))
                 /\ ~g.over => h.spaceWasDown = ("SPACE" \in keys)
                 /\ g.over => h.spaceWasDown = g.spaceWasDown
<1>1. CASE Restarts(g, keys)
  BY <1>1, InitFields DEF pong_handle_global_input, Games
<1>. DEFINE rDown == "R" \in keys
            space == "SPACE" \in keys
            p == Paused(g, keys)
<1>2. rDown \in BOOLEAN /\ space \in BOOLEAN
  OBVIOUS
<1>3. p \in BOOLEAN
  BY DEF Paused, Games
<1>4. CASE ~Restarts(g, keys) /\ g.over
  <2>1. pong_handle_global_input(g, keys) = [g EXCEPT !.restartWasDown = rDown]
    BY <1>4 DEF pong_handle_global_input
  <2>. HIDE DEF rDown
  <2>2. ASSUME NEW h, h = [g EXCEPT !.restartWasDown = rDown]
        PROVE  /\ h \in Games
               /\ SameBall(h, g) /\ SamePaddles(h, g) /\ SamePoints(h, g)
               /\ h.paused = g.paused /\ h.spaceWasDown = g.spaceWasDown
    BY <1>2, <2>2 DEF Games, SameBall, SamePaddles, SamePoints
  <2>3. [g EXCEPT !.restartWasDown = rDown].restartWasDown = rDown
    BY Zenon DEF Games
  <2>. QED
    BY <1>4, <2>1, <2>2, <2>3, Zenon DEF rDown
<1>5. CASE ~Restarts(g, keys) /\ ~g.over
  <2>1. pong_handle_global_input(g, keys) =
           [g EXCEPT !.restartWasDown = rDown, !.paused = p, !.spaceWasDown = space]
    BY <1>5 DEF pong_handle_global_input
  <2>. HIDE DEF rDown, p, space
  <2>2. ASSUME NEW h,
               h = [g EXCEPT !.restartWasDown = rDown, !.paused = p, !.spaceWasDown = space]
        PROVE  /\ h \in Games
               /\ SameBall(h, g) /\ SamePaddles(h, g) /\ SamePoints(h, g)
               /\ h.paused = p /\ h.restartWasDown = rDown /\ h.spaceWasDown = space
    BY <1>2, <1>3, <2>2 DEF Games, SameBall, SamePaddles, SamePoints
  <2>. QED
    BY <1>5, <2>1, <2>2, Zenon DEF rDown, p, space
<1>. QED
  BY <1>1, <1>4, <1>5

PaddleRange == 0 .. game_h - PADDLE_HEIGHT

\* A paddle is kept inside the field, however far it was moved.
LEMMA KeptInsideRange ==
    ASSUME NEW y \in Int
    PROVE  KeptInside(y) \in PaddleRange
  BY Geometry DEF KeptInside, PaddleRange

\* The paddle keys change the paddles only, and nothing while the game stands.
LEMMA PaddleInputFields ==
    ASSUME NEW g \in Games, NEW keys, NEW delta \in Int,
           g.left \in PaddleRange, g.right \in PaddleRange
    PROVE  LET h == pong_handle_paddle_input(g, keys, delta) IN
           /\ h \in Games
           /\ SameBall(h, g) /\ SamePoints(h, g) /\ SameKeys(h, g)
           /\ h.left \in PaddleRange /\ h.right \in PaddleRange
           /\ g.paused \/ g.over => SamePaddles(h, g)
<1>1. CASE g.paused \/ g.over
  BY <1>1 DEF pong_handle_paddle_input, SameBall, SamePoints, SameKeys, SamePaddles
<1>2. CASE ~(g.paused \/ g.over)
  <2>. DEFINE l == KeptInside(g.left + PaddleMove(keys, "W", "S") * delta)
              r == KeptInside(g.right + PaddleMove(keys, "UP", "DOWN") * delta)
  <2>1. \A up, down : PaddleMove(keys, up, down) \in Int
    BY Geometry DEF PaddleMove
  <2>2. \A m \in Int : m * delta \in Int
    OBVIOUS
  <2>3. g.left \in Int /\ g.right \in Int
    BY DEF Games
  <2>4. /\ g.left + PaddleMove(keys, "W", "S") * delta \in Int
        /\ g.right + PaddleMove(keys, "UP", "DOWN") * delta \in Int
    BY <2>1, <2>2, <2>3
  <2>5. l \in PaddleRange /\ r \in PaddleRange
    BY <2>4, KeptInsideRange
  <2>6. pong_handle_paddle_input(g, keys, delta) = [g EXCEPT !.left = l, !.right = r]
    BY <1>2 DEF pong_handle_paddle_input
  <2>. HIDE DEF l, r
  <2>7. l \in Int /\ r \in Int
    BY <2>5, Geometry DEF PaddleRange
  <2>8. ASSUME NEW h, h = [g EXCEPT !.left = l, !.right = r]
        PROVE  /\ h \in Games
               /\ SameBall(h, g) /\ SamePoints(h, g) /\ SameKeys(h, g)
               /\ h.left = l /\ h.right = r
    BY <2>7, <2>8 DEF Games, SameBall, SamePoints, SameKeys
  <2>. QED
    BY <1>2, <2>5, <2>6, <2>8
<1>. QED
  BY <1>1, <1>2

\* The ball moves by delta to the side it flies to, and stays between the
\* ceiling and the floor.
LEMMA BallMovedFields ==
    ASSUME NEW g \in Games, NEW delta \in 1 .. PONG_MAX_DELTA_TICKS
    PROVE  LET h == BallMoved(g, delta) IN
           /\ h \in Games
           /\ SamePaddles(h, g) /\ SamePoints(h, g) /\ SameKeys(h, g)
           /\ h.vx = g.vx
           /\ h.x = (IF g.vx = 1 THEN g.x + delta ELSE g.x - delta)
           /\ h.y \in 0 .. game_h - BALL_SIZE
<1>. DEFINE x == g.x + g.vx * delta
            y == g.y + g.vy * delta
<1>1. delta \in Int /\ g.x \in Int /\ g.y \in Int /\ g.vx \in {-1, 1} /\ g.vy \in {-1, 1}
  BY Geometry DEF Games
<1>2. x \in Int /\ y \in Int /\ x = (IF g.vx = 1 THEN g.x + delta ELSE g.x - delta)
  BY <1>1
<1>3. g.vy \in {-1, 1} /\ -g.vy \in {-1, 1}
  BY <1>1
<1>4. PICK y2 \in 0 .. game_h - BALL_SIZE, vy2 \in {-1, 1} :
         BallMoved(g, delta) = [g EXCEPT !.x = x, !.y = y2, !.vy = vy2]
  <2>1. BallMoved(g, delta) =
           IF y <= 0 THEN [[g EXCEPT !.x = x] EXCEPT !.y = 0, !.vy = -@]
           ELSE IF y + BALL_SIZE >= game_h
                THEN [[g EXCEPT !.x = x] EXCEPT !.y = game_h - BALL_SIZE, !.vy = -@]
           ELSE [[g EXCEPT !.x = x] EXCEPT !.y = y]
    BY DEF BallMoved
  <2>. HIDE DEF x, y
  <2>2. /\ [[g EXCEPT !.x = x] EXCEPT !.y = 0, !.vy = -@] =
              [g EXCEPT !.x = x, !.y = 0, !.vy = -g.vy]
        /\ [[g EXCEPT !.x = x] EXCEPT !.y = game_h - BALL_SIZE, !.vy = -@] =
              [g EXCEPT !.x = x, !.y = game_h - BALL_SIZE, !.vy = -g.vy]
        /\ [[g EXCEPT !.x = x] EXCEPT !.y = y] = [g EXCEPT !.x = x, !.y = y, !.vy = g.vy]
    BY DEF Games
  <2>3. 0 \in 0 .. game_h - BALL_SIZE /\ game_h - BALL_SIZE \in 0 .. game_h - BALL_SIZE
    BY Geometry
  <2>4. CASE y <= 0
    BY <1>3, <2>1, <2>2, <2>3, <2>4
  <2>5. CASE ~(y <= 0) /\ y + BALL_SIZE >= game_h
    BY <1>3, <2>1, <2>2, <2>3, <2>5
  <2>6. CASE ~(y <= 0) /\ ~(y + BALL_SIZE >= game_h)
    <3>1. y \in 0 .. game_h - BALL_SIZE
      BY <1>2, <2>6, Geometry
    <3>. QED
      BY <1>3, <2>1, <2>2, <2>6, <3>1
  <2>. QED
    BY <2>4, <2>5, <2>6
<1>. HIDE DEF x, y
<1>5. y2 \in Int
  BY <1>4, Geometry
<1>6. ASSUME NEW h, h = [g EXCEPT !.x = x, !.y = y2, !.vy = vy2]
      PROVE  /\ h \in Games
             /\ SamePaddles(h, g) /\ SamePoints(h, g) /\ SameKeys(h, g)
             /\ h.vx = g.vx /\ h.x = x /\ h.y = y2
  BY <1>2, <1>5, <1>6 DEF Games, SamePaddles, SamePoints, SameKeys
<1>. QED
  BY <1>2, <1>4, <1>6

\* A ball that is turned flies the other way.
LEMMA Turned ==
    ASSUME NEW n \in {-1, 1}, n < 0
    PROVE  -n = 1
<1>1. n \in Int /\ n + 1 = 0
  OBVIOUS
<1>. QED
  BY <1>1

\* Only a ball that flies towards a paddle and overlaps it is reflected; it is
\* put before the face of the paddle and turned.
LEMMA BallReflectedFields ==
    ASSUME NEW g \in Games
    PROVE  LET h == BallReflected(g) IN
           /\ h \in Games
           /\ SamePaddles(h, g) /\ SamePoints(h, g) /\ SameKeys(h, g) /\ h.y = g.y
           /\ \/ /\ g.vx = -1 /\ BallOverlaps(g, left_paddle_x, g.left)
                 /\ h.x = left_face /\ h.vx = 1
              \/ /\ g.vx = 1 /\ BallOverlaps(g, right_paddle_x, g.right)
                 /\ h.x = right_paddle_x - BALL_SIZE /\ h.vx = -1
              \/ /\ ~(g.vx = -1 /\ BallOverlaps(g, left_paddle_x, g.left))
                 /\ ~(g.vx = 1 /\ BallOverlaps(g, right_paddle_x, g.right))
                 /\ h.x = g.x /\ h.vx = g.vx
<1>1. g.vx = -1 \/ g.vx = 1
  BY DEF Games
<1>2. (g.vx < 0) = (g.vx = -1) /\ (g.vx > 0) = (g.vx = 1)
  BY <1>1
<1>3. ASSUME NEW x \in Int, NEW vx \in {-1, 1}, NEW h, h = [g EXCEPT !.x = x, !.vx = vx]
      PROVE  /\ h \in Games
             /\ SamePaddles(h, g) /\ SamePoints(h, g) /\ SameKeys(h, g) /\ h.y = g.y
             /\ h.x = x /\ h.vx = vx
  BY <1>3 DEF Games, SamePaddles, SamePoints, SameKeys
<1>4. CASE g.vx = -1 /\ BallOverlaps(g, left_paddle_x, g.left)
  <2>1. BallReflected(g) = [g EXCEPT !.x = left_face, !.vx = 1]
    <3>1. g.vx < 0
      BY <1>4
    <3>2. BallReflected(g) = [g EXCEPT !.x = left_face, !.vx = -g.vx]
      BY <1>4, <3>1, Zenon DEF BallReflected
    <3>3. -g.vx = 1
      BY <1>1, <3>1, Turned
    <3>. QED
      BY <3>2, <3>3, Zenon
  <2>2. left_face \in Int
    BY Geometry
  <2>. QED
    BY <1>3, <1>4, <2>1, <2>2
<1>5. CASE g.vx = 1 /\ BallOverlaps(g, right_paddle_x, g.right)
  <2>1. BallReflected(g) = [g EXCEPT !.x = right_paddle_x - BALL_SIZE, !.vx = -1]
    <3>1. g.vx > 0 /\ ~(g.vx < 0)
      BY <1>5
    <3>2. BallReflected(g) = [g EXCEPT !.x = right_paddle_x - BALL_SIZE, !.vx = -g.vx]
      BY <1>5, <3>1, Zenon DEF BallReflected
    <3>3. -g.vx = -1
      BY <1>5
    <3>. QED
      BY <3>2, <3>3, Zenon
  <2>2. right_paddle_x - BALL_SIZE \in Int
    BY Geometry
  <2>. QED
    BY <1>3, <1>5, <2>1, <2>2
<1>6. CASE /\ ~(g.vx = -1 /\ BallOverlaps(g, left_paddle_x, g.left))
           /\ ~(g.vx = 1 /\ BallOverlaps(g, right_paddle_x, g.right))
  <2>1. BallReflected(g) = g
    BY <1>2, <1>6 DEF BallReflected
  <2>. QED
    BY <1>6, <2>1 DEF SamePaddles, SamePoints, SameKeys
<1>. QED
  BY <1>4, <1>5, <1>6

\* A ball that has left the field gives its point, and ends the game or starts
\* again from the centre.
LEMMA PointScoredFields ==
    ASSUME NEW g \in Games, g.score1 < SCORE_LIMIT, g.score2 < SCORE_LIMIT
    PROVE  LET h == PointScored(g) IN
           /\ h \in Games
           /\ SamePaddles(h, g) /\ SameKeys(h, g)
           /\ \/ /\ g.x >= -BALL_SIZE /\ g.x <= game_w
                 /\ SameBall(h, g) /\ SamePoints(h, g)
              \/ /\ g.x < -BALL_SIZE /\ h.score2 = g.score2 + 1 /\ h.score1 = g.score1
                 /\ \/ /\ h.score2 = SCORE_LIMIT /\ h.over /\ h.winner = 2
                       /\ SameBall(h, g)
                    \/ /\ h.score2 < SCORE_LIMIT /\ h.over = g.over /\ h.winner = g.winner
                       /\ h.x = CentreX /\ h.y = CentreY /\ h.vx = 1
              \/ /\ g.x > game_w /\ h.score1 = g.score1 + 1 /\ h.score2 = g.score2
                 /\ \/ /\ h.score1 = SCORE_LIMIT /\ h.over /\ h.winner = 1
                       /\ SameBall(h, g)
                    \/ /\ h.score1 < SCORE_LIMIT /\ h.over = g.over /\ h.winner = g.winner
                       /\ h.x = CentreX /\ h.y = CentreY /\ h.vx = -1
<1>1. g.x \in Int /\ g.score1 \in Nat /\ g.score2 \in Nat
  BY DEF Games
<1>2. (g.x + BALL_SIZE < 0) = (g.x < -BALL_SIZE)
  BY <1>1, Geometry
<1>3. NextPoint(g.score1) = g.score1 + 1 /\ NextPoint(g.score2) = g.score2 + 1
  BY DEF NextPoint
<1>4. CentreX \in Int /\ CentreY \in Int
  BY Geometry
<1>5. CASE g.x < -BALL_SIZE
  <2>. DEFINE k == [g EXCEPT !.score2 = g.score2 + 1]
  <2>1. k \in Games /\ k.score2 = g.score2 + 1 /\ k.score1 = g.score1
        /\ SamePaddles(k, g) /\ SameKeys(k, g) /\ SameBall(k, g)
        /\ k.over = g.over /\ k.winner = g.winner
    BY <1>1 DEF Games, SamePaddles, SameKeys, SameBall
  <2>2. PointScored(g) = IF k.score2 >= SCORE_LIMIT
                         THEN [k EXCEPT !.over = TRUE, !.winner = 2]
                         ELSE pong_reset_ball(k, 1)
    BY <1>2, <1>3, <1>5 DEF PointScored, pong_score_point
  <2>. HIDE DEF k
  <2>3. CASE k.score2 >= SCORE_LIMIT
    <3>1. ASSUME NEW h, h = [k EXCEPT !.over = TRUE, !.winner = 2]
          PROVE  /\ h \in Games /\ SamePaddles(h, k) /\ SameKeys(h, k) /\ SameBall(h, k)
                 /\ h.over /\ h.winner = 2 /\ h.score1 = k.score1 /\ h.score2 = k.score2
      <4>1. 2 \in 0 .. 2
        OBVIOUS
      <4>2. PICK o \in BOOLEAN : o = TRUE
        BY Zenon
      <4>3. h = [k EXCEPT !.over = o, !.winner = 2]
        BY <3>1, <4>2, Zenon
      <4>4. /\ h \in Games /\ SamePaddles(h, k) /\ SameKeys(h, k) /\ SameBall(h, k)
            /\ h.over = o /\ h.winner = 2 /\ h.score1 = k.score1 /\ h.score2 = k.score2
        BY <2>1, <4>1, <4>3 DEF Games, SamePaddles, SameKeys, SameBall
      <4>. QED
        BY <4>2, <4>4, Zenon
    <3>2. k.score2 = SCORE_LIMIT
      BY <1>1, <2>1, <2>3, Geometry
    <3>. QED
      BY <1>5, <2>1, <2>2, <2>3, <3>1, <3>2 DEF SamePaddles, SameKeys, SameBall
  <2>4. CASE ~(k.score2 >= SCORE_LIMIT)
    <3>1. ASSUME NEW h, h = pong_reset_ball(k, 1)
          PROVE  /\ h \in Games /\ SamePaddles(h, k) /\ SameKeys(h, k)
                 /\ h.x = CentreX /\ h.y = CentreY /\ h.vx = 1
                 /\ SamePoints(h, k)
      BY <1>4, <2>1, <3>1
      DEF Games, SamePaddles, SameKeys, SamePoints, pong_reset_ball
    <3>2. k.score2 < SCORE_LIMIT
      BY <1>1, <2>1, <2>4, Geometry
    <3>. QED
      BY <1>5, <2>1, <2>2, <2>4, <3>1, <3>2 DEF SamePaddles, SameKeys, SamePoints
  <2>. QED
    BY <2>3, <2>4
<1>6. CASE ~(g.x < -BALL_SIZE) /\ g.x > game_w
  <2>. DEFINE k == [g EXCEPT !.score1 = g.score1 + 1]
  <2>1. k \in Games /\ k.score1 = g.score1 + 1 /\ k.score2 = g.score2
        /\ SamePaddles(k, g) /\ SameKeys(k, g) /\ SameBall(k, g)
        /\ k.over = g.over /\ k.winner = g.winner
    BY <1>1 DEF Games, SamePaddles, SameKeys, SameBall
  <2>2. PointScored(g) = IF k.score1 >= SCORE_LIMIT
                         THEN [k EXCEPT !.over = TRUE, !.winner = 1]
                         ELSE pong_reset_ball(k, -1)
    BY <1>2, <1>3, <1>6 DEF PointScored, pong_score_point
  <2>. HIDE DEF k
  <2>3. CASE k.score1 >= SCORE_LIMIT
    <3>1. ASSUME NEW h, h = [k EXCEPT !.over = TRUE, !.winner = 1]
          PROVE  /\ h \in Games /\ SamePaddles(h, k) /\ SameKeys(h, k) /\ SameBall(h, k)
                 /\ h.over /\ h.winner = 1 /\ h.score1 = k.score1 /\ h.score2 = k.score2
      <4>1. 1 \in 0 .. 2
        OBVIOUS
      <4>2. PICK o \in BOOLEAN : o = TRUE
        BY Zenon
      <4>3. h = [k EXCEPT !.over = o, !.winner = 1]
        BY <3>1, <4>2, Zenon
      <4>4. /\ h \in Games /\ SamePaddles(h, k) /\ SameKeys(h, k) /\ SameBall(h, k)
            /\ h.over = o /\ h.winner = 1 /\ h.score1 = k.score1 /\ h.score2 = k.score2
        BY <2>1, <4>1, <4>3 DEF Games, SamePaddles, SameKeys, SameBall
      <4>. QED
        BY <4>2, <4>4, Zenon
    <3>2. k.score1 = SCORE_LIMIT
      BY <1>1, <2>1, <2>3, Geometry
    <3>. QED
      BY <1>6, <2>1, <2>2, <2>3, <3>1, <3>2 DEF SamePaddles, SameKeys, SameBall
  <2>4. CASE ~(k.score1 >= SCORE_LIMIT)
    <3>1. ASSUME NEW h, h = pong_reset_ball(k, -1)
          PROVE  /\ h \in Games /\ SamePaddles(h, k) /\ SameKeys(h, k)
                 /\ h.x = CentreX /\ h.y = CentreY /\ h.vx = -1
                 /\ SamePoints(h, k)
      BY <1>4, <2>1, <3>1
      DEF Games, SamePaddles, SameKeys, SamePoints, pong_reset_ball
    <3>2. k.score1 < SCORE_LIMIT
      BY <1>1, <2>1, <2>4, Geometry
    <3>. QED
      BY <1>6, <2>1, <2>2, <2>4, <3>1, <3>2 DEF SamePaddles, SameKeys, SamePoints
  <2>. QED
    BY <2>3, <2>4
<1>7. CASE ~(g.x < -BALL_SIZE) /\ ~(g.x > game_w)
  <2>1. PointScored(g) = g
    BY <1>2, <1>7 DEF PointScored
  <2>2. g.x >= -BALL_SIZE /\ g.x <= game_w
    BY <1>1, <1>7, Geometry
  <2>. QED
    BY <2>1, <2>2 DEF SamePaddles, SameKeys, SameBall, SamePoints
<1>. QED
  BY <1>5, <1>6, <1>7

-----------------------------------------------------------------------------
(* What holds between two frames *)

InsideField(g) ==
    /\ g.left \in PaddleRange /\ g.right \in PaddleRange
    /\ g.y \in 0 .. game_h - BALL_SIZE
    /\ g.over \/ (g.x >= -BALL_SIZE /\ g.x <= game_w)

\* A ball that flies away from a paddle has left it behind.
BallAhead(g) ==
    /\ g.vx = 1 => g.x >= left_face
    /\ g.vx = -1 => g.x + BALL_SIZE <= right_paddle_x

ClearOfPaddles(g) ==
    /\ ~BallOverlaps(g, left_paddle_x, g.left)
    /\ ~BallOverlaps(g, right_paddle_x, g.right)

PointsInOrder(g) ==
    /\ g.score1 <= SCORE_LIMIT /\ g.score2 <= SCORE_LIMIT
    /\ g.over => g.winner # 0 /\ ~g.paused
    /\ ~g.over => g.winner = 0
    /\ g.winner = 1 => g.score1 = SCORE_LIMIT
    /\ g.winner # 1 => g.score1 < SCORE_LIMIT
    /\ g.winner = 2 => g.score2 = SCORE_LIMIT
    /\ g.winner # 2 => g.score2 < SCORE_LIMIT

PongInv(g) ==
    /\ g \in Games
    /\ InsideField(g) /\ BallAhead(g) /\ ClearOfPaddles(g) /\ PointsInOrder(g)

\* A new game is in order.
LEMMA InitInOrder ==
    ASSUME NEW b \in BOOLEAN
    PROVE  PongInv(pong_init(b))
<1>. DEFINE h == pong_init(b)
<1>1. /\ h \in Games
      /\ h.x = CentreX /\ h.y = CentreY /\ h.vx = 1
      /\ h.left \in PaddleRange /\ h.right \in PaddleRange
      /\ h.score1 = 0 /\ h.score2 = 0 /\ ~h.over /\ h.winner = 0
  BY InitFields DEF PaddleRange
<1>. HIDE DEF h
<1>2. InsideField(h)
  BY <1>1, Geometry DEF InsideField
<1>3. BallAhead(h)
  BY <1>1, Geometry DEF BallAhead
<1>4. ClearOfPaddles(h)
  BY <1>1, Geometry DEF ClearOfPaddles, BallOverlaps
<1>5. PointsInOrder(h)
  BY <1>1, Geometry DEF PointsInOrder
<1>. QED
  BY <1>1, <1>2, <1>3, <1>4, <1>5 DEF PongInv, h

\* The keys keep all of it but the distance of the paddles from the ball, which
\* they keep where pong_update does nothing.
LEMMA KeysInOrder ==
    ASSUME NEW g, PongInv(g), NEW keys, NEW delta \in Int
    PROVE  LET a == pong_handle_global_input(g, keys)
               h == pong_handle_paddle_input(a, keys, delta)
           IN  /\ PongInv(a)
               /\ h \in Games /\ InsideField(h) /\ BallAhead(h) /\ PointsInOrder(h)
               /\ SameBall(h, a) /\ SamePoints(h, a) /\ SameKeys(h, a)
               /\ h.paused \/ h.over => ClearOfPaddles(h)
<1>. DEFINE a == pong_handle_global_input(g, keys)
            h == pong_handle_paddle_input(a, keys, delta)
<1>1. PongInv(a)
  <2>1. CASE Restarts(g, keys)
    <3>1. a = pong_init(g.restartWasDown) /\ g.restartWasDown \in BOOLEAN
      BY <2>1, GlobalInputFields DEF PongInv, Games
    <3>. QED
      BY <3>1, InitInOrder
  <2>2. CASE ~Restarts(g, keys)
    <3>1. /\ a \in Games /\ g \in Games
          /\ SameBall(a, g) /\ SamePaddles(a, g) /\ SamePoints(a, g)
          /\ g.over => a.paused = g.paused
      BY <2>2, GlobalInputFields DEF PongInv
    <3>. HIDE DEF a
    <3>2. InsideField(a) /\ BallAhead(a)
      BY <3>1 DEF PongInv, InsideField, BallAhead, SameBall, SamePaddles, SamePoints
    <3>3. ClearOfPaddles(a)
      BY <3>1 DEF PongInv, ClearOfPaddles, BallOverlaps, SameBall, SamePaddles
    <3>4. PointsInOrder(a)
      BY <3>1 DEF PongInv, PointsInOrder, SamePoints
    <3>. QED
      BY <3>1, <3>2, <3>3, <3>4 DEF PongInv
  <2>. QED
    BY <2>1, <2>2
<1>. HIDE DEF a
<1>2. /\ h \in Games
      /\ SameBall(h, a) /\ SamePoints(h, a) /\ SameKeys(h, a)
      /\ h.left \in PaddleRange /\ h.right \in PaddleRange
      /\ a.paused \/ a.over => SamePaddles(h, a)
  BY <1>1, PaddleInputFields DEF PongInv, InsideField
<1>. HIDE DEF h
<1>3. InsideField(h) /\ BallAhead(h)
  BY <1>1, <1>2 DEF PongInv, InsideField, BallAhead, SameBall, SamePoints
<1>4. PointsInOrder(h)
  BY <1>1, <1>2 DEF PongInv, PointsInOrder, SamePoints, SameKeys
<1>5. h.paused \/ h.over => ClearOfPaddles(h)
  BY <1>1, <1>2
  DEF PongInv, ClearOfPaddles, BallOverlaps, SameBall, SamePaddles, SamePoints, SameKeys
<1>. QED
  BY <1>1, <1>2, <1>3, <1>4, <1>5 DEF a, h

\* pong_update puts the ball back into the field and clear of the paddles, and
\* gives a point only for a ball that was seen to pass.
LEMMA UpdateInOrder ==
    ASSUME NEW g \in Games, InsideField(g), BallAhead(g), PointsInOrder(g),
           g.paused \/ g.over => ClearOfPaddles(g),
           NEW delta \in 1 .. PONG_MAX_DELTA_TICKS
    PROVE  LET h == pong_update(g, delta) IN
           /\ PongInv(h)
           /\ SameKeys(h, g)
           /\ g.over => h.over
           /\ \/ h.score1 = g.score1 /\ h.score2 = g.score2 /\ h.over = g.over
              \/ /\ h.score1 = g.score1 + 1 /\ h.score2 = g.score2
                 /\ g.vx = 1 /\ g.x > right_paddle_x - BALL_SIZE
              \/ /\ h.score2 = g.score2 + 1 /\ h.score1 = g.score1
                 /\ g.vx = -1 /\ g.x < left_face
<1>1. CASE g.over \/ g.paused
  BY <1>1 DEF pong_update, PongInv, SameKeys
<1>2. CASE ~g.over /\ ~g.paused
  <2>. DEFINE m == BallMoved(g, delta)
              r == BallReflected(m)
              h == PointScored(r)
  <2>1. pong_update(g, delta) = h
    BY <1>2 DEF pong_update
  <2>2. /\ m \in Games
        /\ SamePaddles(m, g) /\ SamePoints(m, g) /\ SameKeys(m, g)
        /\ m.vx = g.vx
        /\ m.x = (IF g.vx = 1 THEN g.x + delta ELSE g.x - delta)
        /\ m.y \in 0 .. game_h - BALL_SIZE
    BY BallMovedFields
  <2>. HIDE DEF m
  <2>3. /\ r \in Games
        /\ SamePaddles(r, m) /\ SamePoints(r, m) /\ SameKeys(r, m) /\ r.y = m.y
        /\ \/ /\ m.vx = -1 /\ BallOverlaps(m, left_paddle_x, m.left)
              /\ r.x = left_face /\ r.vx = 1
           \/ /\ m.vx = 1 /\ BallOverlaps(m, right_paddle_x, m.right)
              /\ r.x = right_paddle_x - BALL_SIZE /\ r.vx = -1
           \/ /\ ~(m.vx = -1 /\ BallOverlaps(m, left_paddle_x, m.left))
              /\ ~(m.vx = 1 /\ BallOverlaps(m, right_paddle_x, m.right))
              /\ r.x = m.x /\ r.vx = m.vx
    BY <2>2, BallReflectedFields
  <2>. HIDE DEF r
  <2>4. r.score1 < SCORE_LIMIT /\ r.score2 < SCORE_LIMIT /\ ~r.over /\ r.winner = 0
    BY <1>2, <2>2, <2>3 DEF PointsInOrder, SamePoints
  <2>5. /\ h \in Games
        /\ SamePaddles(h, r) /\ SameKeys(h, r)
        /\ \/ /\ r.x >= -BALL_SIZE /\ r.x <= game_w
              /\ SameBall(h, r) /\ SamePoints(h, r)
           \/ /\ r.x < -BALL_SIZE /\ h.score2 = r.score2 + 1 /\ h.score1 = r.score1
              /\ \/ /\ h.score2 = SCORE_LIMIT /\ h.over /\ h.winner = 2
                    /\ SameBall(h, r)
                 \/ /\ h.score2 < SCORE_LIMIT /\ h.over = r.over /\ h.winner = r.winner
                    /\ h.x = CentreX /\ h.y = CentreY /\ h.vx = 1
           \/ /\ r.x > game_w /\ h.score1 = r.score1 + 1 /\ h.score2 = r.score2
              /\ \/ /\ h.score1 = SCORE_LIMIT /\ h.over /\ h.winner = 1
                    /\ SameBall(h, r)
                 \/ /\ h.score1 < SCORE_LIMIT /\ h.over = r.over /\ h.winner = r.winner
                    /\ h.x = CentreX /\ h.y = CentreY /\ h.vx = -1
    BY <2>3, <2>4, PointScoredFields
  <2>. HIDE DEF h
  <2>6. g.x \in Int /\ m.x \in Int /\ r.x \in Int /\ h.x \in Int
        /\ m.vx \in {-1, 1} /\ r.vx \in {-1, 1} /\ h.vx \in {-1, 1}
        /\ delta \in Int /\ 0 < delta /\ delta <= PONG_MAX_DELTA_TICKS
    BY <2>2, <2>3, <2>5, Geometry DEF Games
  <2>7. BallAhead(r) /\ ClearOfPaddles(r)
    <3>1. BallAhead(m)
      BY <2>2, <2>6, Geometry DEF BallAhead
    <3>2. BallAhead(r)
      BY <2>3, <2>6, <3>1, Geometry DEF BallAhead
    <3>3. /\ r.vx = 1 => ~BallOverlaps(r, left_paddle_x, r.left)
          /\ r.vx = -1 => ~BallOverlaps(r, right_paddle_x, r.right)
      BY <2>6, <3>2, Geometry DEF BallAhead, BallOverlaps
    <3>4. r.vx = 1 => ~BallOverlaps(r, right_paddle_x, r.right)
      <4>1. CASE r.x = left_face
        BY <2>6, <4>1, Geometry DEF BallOverlaps
      <4>2. CASE r.x = m.x /\ m.vx = 1 /\ ~BallOverlaps(m, right_paddle_x, m.right)
        BY <2>3, <4>2 DEF BallOverlaps, SamePaddles
      <4>. QED
        BY <2>3, <2>6, <4>1, <4>2
    <3>5. r.vx = -1 => ~BallOverlaps(r, left_paddle_x, r.left)
      <4>1. CASE r.x = right_paddle_x - BALL_SIZE
        BY <2>6, <4>1, Geometry DEF BallOverlaps
      <4>2. CASE r.x = m.x /\ m.vx = -1 /\ ~BallOverlaps(m, left_paddle_x, m.left)
        BY <2>3, <4>2 DEF BallOverlaps, SamePaddles
      <4>. QED
        BY <2>3, <2>6, <4>1, <4>2
    <3>. QED
      BY <2>6, <3>2, <3>3, <3>4, <3>5 DEF ClearOfPaddles
  <2>8. InsideField(h)
    <3>1. h.left \in PaddleRange /\ h.right \in PaddleRange
      BY <2>2, <2>3, <2>5 DEF InsideField, SamePaddles
    <3>2. h.y \in 0 .. game_h - BALL_SIZE
      BY <2>2, <2>3, <2>5, Geometry DEF SameBall
    <3>3. h.over \/ (h.x >= -BALL_SIZE /\ h.x <= game_w)
      BY <2>5, <2>6, Geometry DEF SameBall
    <3>. QED
      BY <3>1, <3>2, <3>3 DEF InsideField
  <2>9. BallAhead(h)
    BY <2>5, <2>6, <2>7, Geometry DEF BallAhead, SameBall
  <2>10. ClearOfPaddles(h)
    <3>1. CASE SameBall(h, r)
      BY <2>5, <2>7, <3>1 DEF ClearOfPaddles, BallOverlaps, SameBall, SamePaddles
    <3>2. CASE h.x = CentreX
      BY <3>2, Geometry DEF ClearOfPaddles, BallOverlaps
    <3>. QED
      BY <2>5, <3>1, <3>2
  <2>11. g.paused = FALSE /\ h.paused = g.paused /\ SameKeys(h, g)
    BY <1>2, <2>2, <2>3, <2>5 DEF SameKeys, Games
  <2>12. PointsInOrder(h)
    <3>1. r.score1 \in Int /\ r.score2 \in Int /\ SCORE_LIMIT \in Int
      BY <2>3, Geometry DEF Games
    <3>2. ~h.paused
      BY <2>11
    <3>3. CASE SamePoints(h, r)
      BY <2>4, <3>1, <3>2, <3>3 DEF PointsInOrder, SamePoints
    <3>4. CASE /\ h.score2 = r.score2 + 1 /\ h.score1 = r.score1
               /\ h.score2 = SCORE_LIMIT /\ h.over /\ h.winner = 2
      BY <2>4, <3>1, <3>2, <3>4 DEF PointsInOrder
    <3>5. CASE /\ h.score1 = r.score1 + 1 /\ h.score2 = r.score2
               /\ h.score1 = SCORE_LIMIT /\ h.over /\ h.winner = 1
      BY <2>4, <3>1, <3>2, <3>5 DEF PointsInOrder
    <3>6. CASE /\ h.score2 = r.score2 + 1 /\ h.score1 = r.score1
               /\ h.score2 < SCORE_LIMIT /\ ~h.over /\ h.winner = 0
      BY <2>4, <3>1, <3>2, <3>6 DEF PointsInOrder
    <3>7. CASE /\ h.score1 = r.score1 + 1 /\ h.score2 = r.score2
               /\ h.score1 < SCORE_LIMIT /\ ~h.over /\ h.winner = 0
      BY <2>4, <3>1, <3>2, <3>7 DEF PointsInOrder
    <3>. QED
      BY <2>4, <2>5, <3>3, <3>4, <3>5, <3>6, <3>7, Zenon
  <2>13. /\ r.x < -BALL_SIZE => g.vx = -1 /\ g.x < left_face
         /\ r.x > game_w => g.vx = 1 /\ g.x > right_paddle_x - BALL_SIZE
    BY <2>2, <2>3, <2>6, Geometry DEF BallAhead
  <2>14. r.score1 = g.score1 /\ r.score2 = g.score2 /\ r.over = g.over
    BY <2>2, <2>3 DEF SamePoints
  <2>15. \/ h.score1 = g.score1 /\ h.score2 = g.score2 /\ h.over = g.over
         \/ /\ h.score1 = g.score1 + 1 /\ h.score2 = g.score2
            /\ g.vx = 1 /\ g.x > right_paddle_x - BALL_SIZE
         \/ /\ h.score2 = g.score2 + 1 /\ h.score1 = g.score1
            /\ g.vx = -1 /\ g.x < left_face
    BY <2>5, <2>13, <2>14, Zenon DEF SamePoints
  <2>. QED
    BY <1>2, <2>1, <2>5, <2>8, <2>9, <2>10, <2>11, <2>12, <2>15, Zenon DEF PongInv
<1>. QED
  BY <1>1, <1>2

-----------------------------------------------------------------------------
(* The frames *)

\* What the last frame found of R and SPACE is what the record remembers, where
\* the game still looks at it.
PressesKnown ==
    /\ polled \subseteq {"SPACE", "R"} /\ fresh \in BOOLEAN /\ presented \in BOOLEAN
    /\ game.over => ~fresh /\ game.restartWasDown = ("R" \in polled)
    /\ ~game.over /\ ~fresh => game.spaceWasDown = ("SPACE" \in polled)

\* A frame, with what its properties say of it.
LEMMA FrameInOrder ==
    ASSUME PongInv(game), NEW keys \in SUBSET Keys, NEW elapsed \in Delays,
           Frame(keys, elapsed)
    PROVE  LET a == pong_handle_global_input(game, keys) IN
           /\ PongInv(game')
           /\ SameKeys(game', a)
           /\ a.over => game'.over
           /\ \/ game'.score1 = a.score1 /\ game'.score2 = a.score2 /\ game'.over = a.over
              \/ /\ game'.score1 = a.score1 + 1 /\ game'.score2 = a.score2
                 /\ a.vx = 1 /\ a.x > right_paddle_x - BALL_SIZE
              \/ /\ game'.score2 = a.score2 + 1 /\ game'.score1 = a.score1
                 /\ a.vx = -1 /\ a.x < left_face
<1>. DEFINE delta == pong_clamp_delta_ticks(elapsed)
            a == pong_handle_global_input(game, keys)
            g == pong_handle_paddle_input(a, keys, delta)
            h == pong_update(g, delta)
<1>1. delta \in 1 .. PONG_MAX_DELTA_TICKS /\ delta \in Int
  BY DeltaBounded, PongAssumption, Geometry
<1>2. game' = h
  BY DEF Frame
<1>. HIDE DEF delta
<1>3. /\ g \in Games /\ InsideField(g) /\ BallAhead(g) /\ PointsInOrder(g)
      /\ SameBall(g, a) /\ SamePoints(g, a) /\ SameKeys(g, a)
      /\ g.paused \/ g.over => ClearOfPaddles(g)
  BY <1>1, KeysInOrder
<1>. HIDE DEF g
<1>4. /\ PongInv(h)
      /\ SameKeys(h, g)
      /\ g.over => h.over
      /\ \/ h.score1 = g.score1 /\ h.score2 = g.score2 /\ h.over = g.over
         \/ /\ h.score1 = g.score1 + 1 /\ h.score2 = g.score2
            /\ g.vx = 1 /\ g.x > right_paddle_x - BALL_SIZE
         \/ /\ h.score2 = g.score2 + 1 /\ h.score1 = g.score1
            /\ g.vx = -1 /\ g.x < left_face
  BY <1>1, <1>3, UpdateInOrder
<1>. HIDE DEF h, a
<1>5. SameKeys(h, a) /\ (a.over => h.over)
  BY <1>3, <1>4 DEF SameKeys, SamePoints
<1>6. \/ h.score1 = a.score1 /\ h.score2 = a.score2 /\ h.over = a.over
      \/ /\ h.score1 = a.score1 + 1 /\ h.score2 = a.score2
         /\ a.vx = 1 /\ a.x > right_paddle_x - BALL_SIZE
      \/ /\ h.score2 = a.score2 + 1 /\ h.score1 = a.score1
         /\ a.vx = -1 /\ a.x < left_face
  BY <1>3, <1>4, Zenon DEF SameBall, SamePoints
<1>. QED
  BY <1>2, <1>4, <1>5, <1>6, Zenon DEF a

\* The first frame has everything in order.
LEMMA PongInit == Init => PongInv(game) /\ PressesKnown
<1>. SUFFICES ASSUME Init PROVE PongInv(game) /\ PressesKnown
  OBVIOUS
<1>1. PICK garbage \in BOOLEAN : game = pong_init(garbage)
  BY DEF Init
<1>2. PongInv(game)
  BY <1>1, InitInOrder
<1>3. ~game.over
  BY <1>1, InitFields
<1>. QED
  BY <1>2, <1>3 DEF PressesKnown, Init

\* Every frame keeps the game in order.
LEMMA PongNext == PongInv(game) /\ [Next]_vars => PongInv(game')
<1>. SUFFICES ASSUME PongInv(game), [Next]_vars PROVE PongInv(game')
  OBVIOUS
<1>1. CASE Next
  <2>1. PICK keys \in SUBSET Keys, elapsed \in Delays : Frame(keys, elapsed)
    BY <1>1 DEF Next
  <2>. QED
    BY <2>1, FrameInOrder
<1>2. CASE UNCHANGED vars
  BY <1>2 DEF vars
<1>. QED
  BY <1>1, <1>2

\* Every frame remembers the presses it found, as far as they are looked at.
LEMMA PressesNext == PongInv(game) /\ PressesKnown /\ [Next]_vars => PressesKnown'
<1>. SUFFICES ASSUME PongInv(game), PressesKnown, [Next]_vars PROVE PressesKnown'
  OBVIOUS
<1>1. CASE Next
  <2>1. PICK keys \in SUBSET Keys, elapsed \in Delays : Frame(keys, elapsed)
    BY <1>1 DEF Next
  <2>. DEFINE a == pong_handle_global_input(game, keys)
  <2>2. /\ polled' = keys \cap {"SPACE", "R"} /\ fresh' = Restarts(game, keys)
        /\ presented' = ~presented
    BY <2>1 DEF Frame
  <2>3. polled' \subseteq {"SPACE", "R"} /\ presented' \in BOOLEAN
        /\ ("R" \in polled') = ("R" \in keys) /\ ("SPACE" \in polled') = ("SPACE" \in keys)
    BY <2>2 DEF PressesKnown
  <2>4. fresh' \in BOOLEAN
    BY <2>2, Zenon DEF Restarts
  <2>5. /\ SameKeys(game', a) /\ (a.over => game'.over)
        /\ \/ game'.score1 = a.score1 /\ game'.score2 = a.score2 /\ game'.over = a.over
           \/ a.vx = 1 /\ a.x > right_paddle_x - BALL_SIZE
           \/ a.vx = -1 /\ a.x < left_face
    BY <2>1, FrameInOrder
  <2>6. CASE Restarts(game, keys)
    <3>1. a = pong_init(game.restartWasDown) /\ game.restartWasDown \in BOOLEAN
      BY <2>6, GlobalInputFields DEF PongInv, Games
    <3>2. a.x = CentreX /\ a.vx = 1 /\ ~a.over
      BY <3>1, InitFields
    <3>3. ~(a.x > right_paddle_x - BALL_SIZE) /\ a.vx # -1
      BY <3>2, Geometry
    <3>4. ~game'.over
      BY <2>5, <3>2, <3>3, Zenon
    <3>. QED
      BY <2>2, <2>3, <2>4, <2>6, <3>4, Zenon DEF PressesKnown
  <2>7. CASE ~Restarts(game, keys)
    <3>1. /\ SamePoints(a, game) /\ a.restartWasDown = ("R" \in keys)
          /\ ~game.over => a.spaceWasDown = ("SPACE" \in keys)
      <4>1. game \in Games
        BY DEF PongInv
      <4>2. /\ SameBall(a, game) /\ SamePaddles(a, game) /\ SamePoints(a, game)
            /\ a.restartWasDown = ("R" \in keys)
            /\ a.paused = (IF game.over THEN game.paused ELSE Paused(game, keys))
            /\ ~game.over => a.spaceWasDown = ("SPACE" \in keys)
            /\ game.over => a.spaceWasDown = game.spaceWasDown
        BY <2>7, <4>1, GlobalInputFields
      <4>. QED
        BY <4>2, Zenon
    <3>2. game'.restartWasDown = ("R" \in polled')
      BY <2>3, <2>5, <3>1, Zenon DEF SameKeys
    <3>3. ~game'.over => game'.spaceWasDown = ("SPACE" \in polled')
      BY <2>3, <2>5, <3>1, Zenon DEF SameKeys, SamePoints
    <3>4. ~fresh'
      BY <2>2, <2>7, Zenon
    <3>. QED
      BY <2>3, <2>4, <3>2, <3>3, <3>4, Zenon DEF PressesKnown
  <2>. QED
    BY <2>6, <2>7
<1>2. CASE UNCHANGED vars
  BY <1>2, Zenon DEF vars, PressesKnown
<1>. QED
  BY <1>1, <1>2

PongIInv == PongInv(game) /\ PressesKnown

\* The inductive invariant of Pong: the field, the score and the memory of the
\* keys are in order after every frame.
THEOREM PongInOrder == Spec => []PongIInv
<1>1. Init => PongIInv
  BY PongInit DEF PongIInv
<1>2. PongIInv /\ [Next]_vars => PongIInv'
  BY PongNext, PressesNext DEF PongIInv
<1>. QED
  BY <1>1, <1>2, PTL DEF Spec

\* The record of the game keeps its types, for every geometry of the field.
THEOREM PongTypes == Spec => []TypeOK
<1>1. PongIInv => TypeOK
  BY DEF PongIInv, PongInv, PressesKnown, TypeOK, Games
<1>. QED
  BY <1>1, PongInOrder, PTL

\* For every geometry and every delay: at the end of a frame the paddles and the
\* ball are inside the field and the ball is clear of both paddles.
THEOREM FieldAlwaysInOrder == Spec => []FieldInOrder
<1>1. PongIInv => FieldInOrder
  <2>1. ASSUME PongInv(game) PROVE game.over \/ game.x \in -BALL_SIZE .. game_w
    BY <2>1, Geometry DEF PongInv, InsideField, Games
  <2>. QED
    BY <2>1, Zenon DEF PongIInv, PongInv, InsideField, PaddleRange, ClearOfPaddles, FieldInOrder
<1>. QED
  BY <1>1, PongInOrder, PTL

\* For every geometry and every delay: a point is given only for a ball that was
\* seen past its paddle, at most one in a frame, and the game ends at the limit.
THEOREM PointsAlwaysEarned == Spec => PointsAreEarned
<1>. DEFINE gain1 == game'.score1 - game.score1
            gain2 == game'.score2 - game.score2
            Earned ==
               /\ gain1 > 0 => game.vx > 0 /\ game.x > right_paddle_x - BALL_SIZE
               /\ gain2 > 0 => game.vx < 0 /\ game.x < left_face
               /\ gain1 + gain2 <= 1
               /\ game'.over = (game'.winner # 0)
               /\ (game'.winner = 1) = (game'.score1 = SCORE_LIMIT)
               /\ (game'.winner = 2) = (game'.score2 = SCORE_LIMIT)
<1>1. PongIInv /\ [Next]_vars => [Earned]_vars
  <2>. SUFFICES ASSUME PongInv(game), Next PROVE Earned
    BY DEF PongIInv
  <2>1. PICK keys \in SUBSET Keys, elapsed \in Delays : Frame(keys, elapsed)
    BY DEF Next
  <2>. DEFINE a == pong_handle_global_input(game, keys)
  <2>2. /\ PongInv(game')
        /\ \/ game'.score1 = a.score1 /\ game'.score2 = a.score2
           \/ /\ game'.score1 = a.score1 + 1 /\ game'.score2 = a.score2
              /\ a.vx = 1 /\ a.x > right_paddle_x - BALL_SIZE
           \/ /\ game'.score2 = a.score2 + 1 /\ game'.score1 = a.score1
              /\ a.vx = -1 /\ a.x < left_face
    BY <2>1, FrameInOrder
  <2>3. \/ /\ a.x = CentreX /\ a.vx = 1 /\ a.score1 = 0 /\ a.score2 = 0
        \/ SameBall(a, game) /\ a.score1 = game.score1 /\ a.score2 = game.score2
    <3>1. CASE Restarts(game, keys)
      <4>1. a = pong_init(game.restartWasDown) /\ game.restartWasDown \in BOOLEAN
        BY <3>1, GlobalInputFields DEF PongInv, Games
      <4>. QED
        BY <4>1, InitFields
    <3>2. CASE ~Restarts(game, keys)
      BY <3>2, GlobalInputFields, Zenon DEF PongInv, SamePoints
    <3>. QED
      BY <3>1, <3>2
  <2>. HIDE DEF a
  <2>4. game.score1 \in Nat /\ game.score2 \in Nat /\ game.x \in Int
    BY DEF PongInv, Games
  <2>5. /\ gain1 > 0 => game.vx > 0 /\ game.x > right_paddle_x - BALL_SIZE
        /\ gain2 > 0 => game.vx < 0 /\ game.x < left_face
        /\ gain1 + gain2 <= 1
    <3>1. CASE SameBall(a, game) /\ a.score1 = game.score1 /\ a.score2 = game.score2
      BY <2>2, <2>4, <3>1 DEF SameBall
    <3>2. CASE a.x = CentreX /\ a.vx = 1 /\ a.score1 = 0 /\ a.score2 = 0
      <4>1. game'.score1 = 0 /\ game'.score2 = 0
        BY <2>2, <3>2, Geometry
      <4>. QED
        BY <2>4, <4>1
    <3>. QED
      BY <2>3, <3>1, <3>2
  <2>6. /\ game'.over = (game'.winner # 0)
        /\ (game'.winner = 1) = (game'.score1 = SCORE_LIMIT)
        /\ (game'.winner = 2) = (game'.score2 = SCORE_LIMIT)
    <3>1. game' \in Games /\ PointsInOrder(game')
      BY <2>2 DEF PongInv
    <3>2. game'.over \in BOOLEAN /\ game'.score1 \in Int /\ game'.score2 \in Int
          /\ SCORE_LIMIT \in Int
      BY <3>1, Geometry DEF Games
    <3>3. game'.over <=> game'.winner # 0
      BY <3>1, Zenon DEF PointsInOrder
    <3>4. /\ game'.winner = 1 <=> game'.score1 = SCORE_LIMIT
          /\ game'.winner = 2 <=> game'.score2 = SCORE_LIMIT
      BY <3>1, <3>2 DEF PointsInOrder
    <3>. QED
      BY <3>2, <3>3, <3>4, Zenon
  <2>. QED
    BY <2>5, <2>6
<1>. QED
  BY <1>1, PongInOrder, PTL DEF Spec, PointsAreEarned

\* A key that is held acts once, for every sequence of keys: R restarts, and
\* SPACE pauses, only if the frame before found it up, but for the first frame
\* of a game.
THEOREM EveryPressActsOnce == Spec => OneActionPerPress
<1>. DEFINE Once ==
       /\ Restarts(game, polled') => "R" \notin polled
       /\ game'.paused # game.paused => "SPACE" \in polled' \ polled \/ fresh
<1>1. PongIInv /\ [Next]_vars => [Once]_vars
  <2>. SUFFICES ASSUME PongInv(game), PressesKnown, Next PROVE Once
    BY DEF PongIInv
  <2>1. PICK keys \in SUBSET Keys, elapsed \in Delays : Frame(keys, elapsed)
    BY DEF Next
  <2>. DEFINE a == pong_handle_global_input(game, keys)
  <2>2. ("SPACE" \in polled') = ("SPACE" \in keys)
    BY <2>1 DEF Frame
  <2>3. SameKeys(game', a)
    BY <2>1, FrameInOrder
  <2>4. Restarts(game, polled') => "R" \notin polled
    BY Zenon DEF Restarts, PressesKnown
  <2>5. ASSUME game'.paused # game.paused
        PROVE  "SPACE" \in polled' \ polled \/ fresh
    <3>1. a.paused # game.paused
      BY <2>3, <2>5, Zenon DEF SameKeys
    <3>2. CASE Restarts(game, keys)
      <4>1. a = pong_init(game.restartWasDown) /\ game.restartWasDown \in BOOLEAN
        BY <3>2, GlobalInputFields DEF PongInv, Games
      <4>2. ~a.paused /\ a.paused \in BOOLEAN
        BY <4>1, InitFields DEF Games
      <4>3. ~game.paused /\ game.paused \in BOOLEAN
        BY <3>2 DEF Restarts, PongInv, PointsInOrder, Games
      <4>. QED
        BY <3>1, <4>2, <4>3, Zenon
    <3>3. CASE ~Restarts(game, keys)
      <4>1. a.paused = (IF game.over THEN game.paused ELSE Paused(game, keys))
        BY <3>3, GlobalInputFields, Zenon DEF PongInv
      <4>2. ~game.over /\ "SPACE" \in keys /\ ~game.spaceWasDown
        BY <3>1, <4>1, Zenon DEF Paused
      <4>. QED
        BY <2>2, <4>2, Zenon DEF PressesKnown
    <3>. QED
      BY <3>2, <3>3
  <2>. QED
    BY <2>4, <2>5
<1>. QED
  BY <1>1, PongInOrder, PTL DEF Spec, OneActionPerPress

-----------------------------------------------------------------------------
(* The drawing *)

\* What the drawing needs of the geometry.
LEMMA DrawingGeometry ==
    /\ WindowWidth \in Int /\ WindowHeight \in Int /\ GAME_TITLE_HEIGHT \in Nat
    /\ game_w = WindowWidth - 2 /\ game_h = WindowHeight - GAME_TITLE_HEIGHT - 2
    /\ game_w \in Nat /\ game_h \in Nat
    /\ Field16 \in Nat /\ game_w < Field16 /\ game_h < Field16
    /\ game_w + BALL_SIZE + PONG_MAX_DELTA_TICKS <= Field16
  BY GameWindowAssumption, PongAssumption
  DEF game_w, game_h, kernel_game_get_size

\* The 16 bits of a field keep a number that fits, and turn a small negative
\* one into a large one.
LEMMA SixteenBits ==
    ASSUME NEW n \in Int, NEW m \in Nat \ {0}
    PROVE  /\ 0 <= n /\ n < m => n % m = n
           /\ -m <= n /\ n < 0 => n % m = n + m
<1>1. ASSUME 0 <= n, n < m PROVE n % m = n
  BY <1>1, SMT
<1>2. ASSUME -m <= n, n < 0 PROVE n % m = n + m
  BY <1>2, SMT
<1>. QED
  BY <1>1, <1>2

\* A rectangle whose corner is inside or beyond the far edges is written where
\* it lies, cut off at the edges of the client area.
LEMMA DrawnInField ==
    ASSUME NEW r \in [x : Int, y : Int, w : Int, h : Int],
           r.x \in 0 .. Field16 - 1, r.y \in 0 .. Field16 - 1,
           r.w \in 1 .. Field16 - 1, r.h \in 1 .. Field16 - 1
    PROVE  app_game_fill_rect(r) = InField(r)
<1>. DEFINE x0 == 1 + r.x
            y0 == GAME_TITLE_HEIGHT + 1 + r.y
            x1 == Smaller(x0 + r.w, WindowWidth - 1)
            y1 == Smaller(y0 + r.h, WindowHeight - 1)
<1>1. /\ r.x % Field16 = r.x /\ r.y % Field16 = r.y
      /\ r.w % Field16 = r.w /\ r.h % Field16 = r.h
  <2>1. \A n \in 0 .. Field16 - 1 : n % Field16 = n
    BY SixteenBits, DrawingGeometry
  <2>. QED
    BY <2>1, DrawingGeometry
<1>2. app_game_fill_rect(r) = kernel_game_fill_rect(r.x, r.y, r.w, r.h)
  BY <1>1 DEF app_game_fill_rect
<1>3. /\ r.x \in Nat /\ r.y \in Nat /\ r.w \in Nat \ {0} /\ r.h \in Nat \ {0}
  BY DrawingGeometry
<1>4. kernel_game_fill_rect(r.x, r.y, r.w, r.h) = (x0 .. x1 - 1) \X (y0 .. y1 - 1)
  <2>1. Larger(x0, 1) = x0 /\ Larger(y0, GAME_TITLE_HEIGHT + 1) = y0
    BY <1>3, DrawingGeometry DEF Larger
  <2>. QED
    BY <1>3, <2>1 DEF kernel_game_fill_rect, Pixels, Client
<1>5. \A px \in Int : px \in x0 .. x1 - 1 <=>
         px - 1 \in r.x .. r.x + r.w - 1 /\ px - 1 \in 0 .. game_w - 1
  BY <1>3, DrawingGeometry DEF Smaller
<1>6. \A py \in Int : py \in y0 .. y1 - 1 <=>
         /\ py - GAME_TITLE_HEIGHT - 1 \in r.y .. r.y + r.h - 1
         /\ py - GAME_TITLE_HEIGHT - 1 \in 0 .. game_h - 1
  BY <1>3, DrawingGeometry DEF Smaller
<1>7. x0 \in Int /\ x1 \in Int /\ y0 \in Int /\ y1 \in Int
  BY <1>3, DrawingGeometry DEF Smaller
<1>. HIDE DEF x0, x1, y0, y1
<1>8. ASSUME NEW p \in (x0 .. x1 - 1) \X (y0 .. y1 - 1) PROVE p \in InField(r)
  <2>1. PICK a \in x0 .. x1 - 1, b \in y0 .. y1 - 1 : p = <<a, b>>
    OBVIOUS
  <2>2. a \in Int /\ b \in Int
    BY <1>7
  <2>3. PICK px, py : px = a - 1 /\ py = b - GAME_TITLE_HEIGHT - 1
    OBVIOUS
  <2>4. /\ px \in r.x .. r.x + r.w - 1 /\ px \in 0 .. game_w - 1
        /\ py \in r.y .. r.y + r.h - 1 /\ py \in 0 .. game_h - 1
    BY <1>5, <1>6, <2>1, <2>2, <2>3
  <2>5. a = px + 1 /\ b = py + GAME_TITLE_HEIGHT + 1
    BY <2>2, <2>3, DrawingGeometry
  <2>. QED
    BY <2>1, <2>4, <2>5 DEF InField
<1>9. ASSUME NEW p \in InField(r) PROVE p \in (x0 .. x1 - 1) \X (y0 .. y1 - 1)
  <2>1. PICK px \in {c \in r.x .. r.x + r.w - 1 : c \in 0 .. game_w - 1},
             py \in {c \in r.y .. r.y + r.h - 1 : c \in 0 .. game_h - 1} :
                p = <<px + 1, py + GAME_TITLE_HEIGHT + 1>>
    BY DEF InField
  <2>2. px \in Int /\ py \in Int
    BY DrawingGeometry
  <2>3. PICK a, b : a = px + 1 /\ b = py + GAME_TITLE_HEIGHT + 1
    OBVIOUS
  <2>4. /\ a \in Int /\ b \in Int /\ a - 1 = px /\ b - GAME_TITLE_HEIGHT - 1 = py
    BY <2>2, <2>3, DrawingGeometry
  <2>5. a \in x0 .. x1 - 1 /\ b \in y0 .. y1 - 1
    BY <1>5, <1>6, <2>1, <2>4
  <2>. QED
    BY <2>1, <2>3, <2>5
<1>. QED
  BY <1>2, <1>4, <1>8, <1>9

\* The rectangles of the centre line begin above the floor.
LEMMA Rounded ==
    ASSUME NEW h \in Nat, NEW s \in Nat \ {0}, NEW k \in 1 .. (h + s - 1) \div s
    PROVE  k - 1 \in Nat /\ (k - 1) * s \in Nat /\ (k - 1) * s < h
<1>1. PICK n : n = (h + s - 1) \div s
  OBVIOUS
<1>2. n \in Int /\ n * s <= h + s - 1
  BY <1>1, SMT
<1>3. k \in Int /\ k - 1 \in Nat /\ k <= n
  BY <1>1, <1>2
<1>4. PICK m : m = n - k
  OBVIOUS
<1>5. m \in Nat /\ n = k - 1 + m + 1
  BY <1>2, <1>3, <1>4
<1>6. \A a, b \in Nat : a * s \in Nat /\ b * s \in Nat /\ (a + b + 1) * s = a * s + b * s + s
  OBVIOUS
<1>7. (k - 1) * s \in Nat /\ m * s \in Nat /\ n * s = (k - 1) * s + m * s + s
  BY <1>3, <1>5, <1>6
<1>. QED
  <2>. DEFINE a == (k - 1) * s
              b == m * s
              c == n * s
  <2>1. a \in Nat /\ b \in Nat /\ c = a + b + s /\ c <= h + s - 1
    BY <1>2, <1>7
  <2>. HIDE DEF a, b, c
  <2>2. a < h
    BY <2>1
  <2>. QED
    BY <1>3, <2>1, <2>2 DEF a


\* How many rectangles the centre line has.
LineStep == CENTER_LINE_HEIGHT + CENTER_LINE_GAP
LineCount == Smaller((game_h + LineStep - 1) \div LineStep, CENTER_LINE_MAX_RECTS)

\* The centre line is drawn as it is: it fits into a batch.
LEMMA CenterLineDrawn ==
    app_game_fill_rects_batch(CenterLine, Len(CenterLine)) =
        UNION {InField(CenterLine[k]) : k \in DOMAIN CenterLine}
<1>. DEFINE Rect(k) == [x |-> (game_w - CENTER_LINE_WIDTH) \div 2, y |-> (k - 1) * LineStep,
                        w |-> CENTER_LINE_WIDTH, h |-> CENTER_LINE_HEIGHT]
<1>1. CenterLine = [k \in 1 .. LineCount |-> Rect(k)]
  BY DEF CenterLine, LineStep, LineCount
<1>2. /\ CENTER_LINE_WIDTH \in Nat \ {0} /\ CENTER_LINE_HEIGHT \in Nat \ {0}
      /\ CENTER_LINE_GAP \in Nat /\ CENTER_LINE_MAX_RECTS \in Nat /\ BatchMax \in Nat
      /\ CENTER_LINE_WIDTH <= game_w /\ CENTER_LINE_HEIGHT <= game_h
      /\ CENTER_LINE_MAX_RECTS <= BatchMax
  BY PongAssumption, GameWindowAssumption
<1>3. LineStep \in Nat \ {0}
  BY <1>2 DEF LineStep
<1>4. PICK q : q = (game_h + LineStep - 1) \div LineStep
  OBVIOUS
<1>5. q \in Nat
  BY <1>3, <1>4, DrawingGeometry
<1>6. /\ LineCount \in Nat /\ LineCount <= BatchMax
      /\ \A k \in 1 .. LineCount : k \in 1 .. q
  BY <1>2, <1>4, <1>5 DEF LineCount, Smaller
<1>7. (game_w - CENTER_LINE_WIDTH) \div 2 \in 0 .. game_w
  <2>1. game_w - CENTER_LINE_WIDTH \in 0 .. game_w
    BY <1>2, DrawingGeometry
  <2>2. \A n \in Nat : n \div 2 \in 0 .. n
    OBVIOUS
  <2>3. PICK d : d = game_w - CENTER_LINE_WIDTH
    OBVIOUS
  <2>4. d \in Nat /\ d <= game_w
    BY <2>1, <2>3, DrawingGeometry
  <2>5. d \div 2 \in 0 .. game_w
    BY <2>2, <2>4, DrawingGeometry
  <2>. QED
    BY <2>3, <2>5
<1>8. ASSUME NEW k \in 1 .. LineCount
      PROVE  app_game_fill_rect(CenterLine[k]) = InField(CenterLine[k])
  <2>1. k \in 1 .. (game_h + LineStep - 1) \div LineStep
    BY <1>4, <1>6
  <2>2. (k - 1) * LineStep \in Nat /\ (k - 1) * LineStep < game_h
    BY <1>3, <2>1, Rounded, DrawingGeometry
  <2>3. CenterLine[k] = Rect(k)
    BY <1>1
  <2>4. PICK x, y : x = (game_w - CENTER_LINE_WIDTH) \div 2 /\ y = (k - 1) * LineStep
    OBVIOUS
  <2>5. x \in 0 .. Field16 - 1 /\ y \in 0 .. Field16 - 1 /\ x \in Int /\ y \in Int
    BY <1>7, <2>2, <2>4, DrawingGeometry
  <2>6. /\ CENTER_LINE_WIDTH \in 1 .. Field16 - 1 /\ CENTER_LINE_HEIGHT \in 1 .. Field16 - 1
        /\ CENTER_LINE_WIDTH \in Int /\ CENTER_LINE_HEIGHT \in Int
    BY <1>2, DrawingGeometry
  <2>7. PICK r : r = [x |-> x, y |-> y, w |-> CENTER_LINE_WIDTH, h |-> CENTER_LINE_HEIGHT]
    OBVIOUS
  <2>8. CenterLine[k] = r
    BY <2>3, <2>4, <2>7, Zenon
  <2>9. /\ r \in [x : Int, y : Int, w : Int, h : Int]
        /\ r.x \in 0 .. Field16 - 1 /\ r.y \in 0 .. Field16 - 1
        /\ r.w \in 1 .. Field16 - 1 /\ r.h \in 1 .. Field16 - 1
    BY <2>5, <2>6, <2>7
  <2>10. app_game_fill_rect(r) = InField(r)
    BY <2>9, DrawnInField
  <2>. QED
    BY <2>8, <2>10, Zenon
<1>9. Len(CenterLine) = LineCount /\ DOMAIN CenterLine = 1 .. LineCount
  <2>. HIDE DEF Rect
  <2>1. DOMAIN CenterLine = 1 .. LineCount
    BY <1>1
  <2>2. CenterLine \in Seq({Rect(k) : k \in 1 .. LineCount})
    BY <1>1, <1>6
  <2>. QED
    BY <1>6, <2>1, <2>2
<1>10. Smaller(LineCount, BatchMax) = LineCount
  BY <1>2, <1>6 DEF Smaller
<1>. QED
  BY <1>8, <1>9, <1>10 DEF app_game_fill_rects_batch

\* The paddles are drawn as they are.
LEMMA PaddlesDrawn ==
    ASSUME NEW g \in Games, g.left \in PaddleRange, g.right \in PaddleRange
    PROVE  \A r \in Paddles(g) : app_game_fill_rect(r) = InField(r)
<1>1. ASSUME NEW x \in {left_paddle_x, right_paddle_x}, NEW y \in PaddleRange, NEW r,
             r = [x |-> x, y |-> y, w |-> PADDLE_WIDTH, h |-> PADDLE_HEIGHT]
      PROVE  app_game_fill_rect(r) = InField(r)
  <2>1. 0 <= x /\ x <= game_w /\ x \in Int
    BY Geometry
  <2>2. x \in 0 .. Field16 - 1
    BY <2>1, DrawingGeometry
  <2>3. y \in Int /\ y \in 0 .. Field16 - 1
    BY Geometry, DrawingGeometry DEF PaddleRange
  <2>4. PADDLE_WIDTH \in 1 .. Field16 - 1 /\ PADDLE_HEIGHT \in 1 .. Field16 - 1
    BY Geometry, DrawingGeometry
  <2>5. r \in [x : Int, y : Int, w : Int, h : Int]
    BY <1>1, <2>1, <2>3, Geometry
  <2>6. r.x = x /\ r.y = y /\ r.w = PADDLE_WIDTH /\ r.h = PADDLE_HEIGHT
    BY <1>1
  <2>. QED
    BY <2>2, <2>3, <2>4, <2>5, <2>6, DrawnInField
<1>. QED
  BY <1>1 DEF Paddles

\* A ball is drawn as it is, or not at all if it is beyond the left edge.
BallNear(g) == /\ -(BALL_SIZE + PONG_MAX_DELTA_TICKS) <= g.x
               /\ g.x <= game_w + PONG_MAX_DELTA_TICKS

LEMMA BallDrawn ==
    ASSUME NEW g \in Games, BallNear(g), g.y \in 0 .. game_h - BALL_SIZE
    PROVE  app_game_fill_rect(Ball(g)) = IF g.x < 0 THEN {} ELSE InField(Ball(g))
<1>1. /\ g.x \in Int /\ g.y \in Int /\ BALL_SIZE \in Int
      /\ g.y \in 0 .. Field16 - 1 /\ BALL_SIZE \in 1 .. Field16 - 1
  BY Geometry, DrawingGeometry DEF Games
<1>2. PICK r : r = Ball(g)
  OBVIOUS
<1>3. r \in [x : Int, y : Int, w : Int, h : Int]
      /\ r.x = g.x /\ r.y = g.y /\ r.w = BALL_SIZE /\ r.h = BALL_SIZE
  BY <1>1, <1>2 DEF Ball
<1>4. CASE ~(g.x < 0)
  <2>1. g.x \in 0 .. Field16 - 1
    BY <1>1, <1>4, Geometry, DrawingGeometry DEF BallNear
  <2>2. app_game_fill_rect(r) = InField(r)
    BY <1>1, <1>3, <2>1, DrawnInField
  <2>. QED
    BY <1>2, <1>4, <2>2, Zenon
<1>5. CASE g.x < 0
  <2>1. g.x % Field16 = g.x + Field16
    <3>1. Field16 \in Nat \ {0} /\ -Field16 <= g.x
      BY <1>1, Geometry, DrawingGeometry DEF BallNear
    <3>. QED
      BY <1>1, <1>5, <3>1, SixteenBits
  <2>2. PICK x : x = g.x + Field16
    OBVIOUS
  <2>3. x \in Int /\ x >= game_w /\ x >= 0
    BY <1>1, <2>2, Geometry, DrawingGeometry DEF BallNear
  <2>4. PICK y, w : y = g.y % Field16 /\ w = BALL_SIZE % Field16
    OBVIOUS
  <2>5. w \in Int
    BY <1>1, <2>4, DrawingGeometry
  <2>6. app_game_fill_rect(r) = kernel_game_fill_rect(x, y, w, w)
    BY <1>3, <2>1, <2>2, <2>4 DEF app_game_fill_rect
  <2>7. Larger(1 + x, 1) = 1 + x
    BY <2>3 DEF Larger
  <2>8. Smaller(1 + x + w, WindowWidth - 1) <= 1 + x
        /\ Smaller(1 + x + w, WindowWidth - 1) \in Int
    BY <2>3, <2>5, DrawingGeometry DEF Smaller
  <2>9. (1 + x) .. Smaller(1 + x + w, WindowWidth - 1) - 1 = {}
    BY <2>3, <2>8
  <2>10. kernel_game_fill_rect(x, y, w, w) = {}
    BY <2>7, <2>9 DEF kernel_game_fill_rect, Pixels, Client
  <2>. QED
    BY <1>2, <1>5, <2>6, <2>10, Zenon
<1>. QED
  BY <1>4, <1>5

\* Every text leaves room for its terminator.
LEMMA TextsFit ==
    ASSUME NEW g
    PROVE  \A n \in TextLengths(g) : TerminatorAt(n) < TextBuffer
<1>1. TextLengths(g) \subseteq {1, 2, 6, 7}
  BY DEF TextLengths, ScoreDigits
<1>2. TextBuffer \in Nat /\ 7 < TextBuffer
  BY PongAssumption, GameWindowAssumption
<1>. QED
  BY <1>1, <1>2 DEF TerminatorAt, Smaller


\* A frame moves the ball by at most PONG_MAX_DELTA_TICKS, or puts it before a
\* paddle or into the centre; a ball that ended the game stays where it is.
LEMMA UpdateNear ==
    ASSUME NEW g \in Games, BallNear(g), PointsInOrder(g), InsideField(g),
           NEW delta \in 1 .. PONG_MAX_DELTA_TICKS
    PROVE  BallNear(pong_update(g, delta))
<1>1. CASE g.over \/ g.paused
  BY <1>1 DEF pong_update
<1>2. CASE ~g.over /\ ~g.paused
  <2>. DEFINE m == BallMoved(g, delta)
              r == BallReflected(m)
              h == PointScored(r)
  <2>1. pong_update(g, delta) = h
    BY <1>2 DEF pong_update
  <2>2. /\ m \in Games /\ SamePoints(m, g)
        /\ m.x = (IF g.vx = 1 THEN g.x + delta ELSE g.x - delta)
    BY BallMovedFields
  <2>3. g.x \in Int /\ -BALL_SIZE <= g.x /\ g.x <= game_w
    BY <1>2, Geometry DEF Games, InsideField
  <2>4. BallNear(m)
    BY <2>2, <2>3, Geometry DEF BallNear
  <2>. HIDE DEF m
  <2>5. /\ r \in Games /\ SamePoints(r, m)
        /\ r.x \in {left_face, right_paddle_x - BALL_SIZE, m.x}
    BY <2>2, BallReflectedFields
  <2>6. BallNear(r)
    BY <2>4, <2>5, Geometry DEF BallNear
  <2>. HIDE DEF r
  <2>7. g.score1 < SCORE_LIMIT /\ g.score2 < SCORE_LIMIT
    BY <1>2, Geometry DEF PointsInOrder, Games
  <2>8. r.score1 < SCORE_LIMIT /\ r.score2 < SCORE_LIMIT
    BY <2>2, <2>5, <2>7 DEF SamePoints
  <2>9. h.x = r.x \/ h.x = CentreX
    BY <2>5, <2>8, PointScoredFields DEF SameBall
  <2>. HIDE DEF h
  <2>10. BallNear(h)
    BY <2>6, <2>9, Geometry DEF BallNear
  <2>. QED
    BY <2>1, <2>10
<1>. QED
  BY <1>1, <1>2

\* So the ball is never so far beyond the left edge that 16 bits would bring it
\* back into the field.
LEMMA NextNear == PongInv(game) /\ BallNear(game) /\ [Next]_vars => BallNear(game')
<1>. SUFFICES ASSUME PongInv(game), BallNear(game), [Next]_vars PROVE BallNear(game')
  OBVIOUS
<1>1. CASE Next
  <2>1. PICK keys \in SUBSET Keys, elapsed \in Delays : Frame(keys, elapsed)
    BY <1>1 DEF Next
  <2>. DEFINE delta == pong_clamp_delta_ticks(elapsed)
              a == pong_handle_global_input(game, keys)
              g == pong_handle_paddle_input(a, keys, delta)
  <2>2. delta \in 1 .. PONG_MAX_DELTA_TICKS /\ delta \in Int
    BY DeltaBounded, PongAssumption, Geometry
  <2>3. game' = pong_update(g, delta)
    BY <2>1 DEF Frame
  <2>. HIDE DEF delta
  <2>4. g \in Games /\ InsideField(g) /\ PointsInOrder(g) /\ SameBall(g, a)
    BY <2>2, KeysInOrder
  <2>. HIDE DEF g
  <2>5. a.x = game.x \/ a.x = CentreX
    <3>1. game \in Games
      BY DEF PongInv
    <3>2. game.restartWasDown \in BOOLEAN
      BY <3>1 DEF Games
    <3>3. \/ a = pong_init(game.restartWasDown)
          \/ SameBall(a, game)
      BY <3>1, GlobalInputFields
    <3>4. pong_init(game.restartWasDown).x = CentreX
      BY <3>2, InitFields
    <3>. QED
      BY <3>3, <3>4, Zenon DEF SameBall
  <2>. HIDE DEF a
  <2>6. BallNear(g)
    BY <2>4, <2>5, Geometry DEF BallNear, SameBall
  <2>. QED
    BY <2>2, <2>3, <2>4, <2>6, UpdateNear
<1>2. CASE UNCHANGED vars
  BY <1>2 DEF vars, BallNear
<1>. QED
  BY <1>1, <1>2

\* For every size of the window and every delay: rectangles are written where
\* they lie, inside the client area, a ball beyond the left edge not at all, and
\* no text reaches the end of the kernel's buffer.
THEOREM FramesAreDrawn == Spec => []DrawnAsItIs
<1>1. Init => BallNear(game)
  <2>. SUFFICES ASSUME Init PROVE BallNear(game)
    OBVIOUS
  <2>1. PICK garbage \in BOOLEAN : game = pong_init(garbage)
    BY DEF Init
  <2>2. game.x = CentreX
    BY <2>1, InitFields
  <2>. QED
    BY <2>2, Geometry DEF BallNear
<1>2. PongIInv /\ BallNear(game) /\ [Next]_vars => BallNear(game)'
  BY NextNear DEF PongIInv
<1>3. PongIInv /\ BallNear(game) => DrawnAsItIs
  <2>. SUFFICES ASSUME PongInv(game), BallNear(game) PROVE DrawnAsItIs
    BY DEF PongIInv
  <2>1. /\ game \in Games /\ game.left \in PaddleRange /\ game.right \in PaddleRange
        /\ game.y \in 0 .. game_h - BALL_SIZE
    BY DEF PongInv, InsideField
  <2>2. \A r \in Paddles(game) : app_game_fill_rect(r) = InField(r)
    BY <2>1, PaddlesDrawn
  <2>3. app_game_fill_rect(Ball(game)) = IF game.x < 0 THEN {} ELSE InField(Ball(game))
    BY <2>1, BallDrawn
  <2>4. \A n \in TextLengths(game) : TerminatorAt(n) < TextBuffer
    BY TextsFit
  <2>. QED
    BY <2>2, <2>3, <2>4, CenterLineDrawn, Zenon DEF DrawnAsItIs
<1>. QED
  BY <1>1, <1>2, <1>3, PongInOrder, PTL DEF Spec

=============================================================================
