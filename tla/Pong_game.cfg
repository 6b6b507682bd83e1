SPECIFICATION Spec
CONSTANTS
  WindowWidth = 16
  WindowHeight = 8
  GAME_TITLE_HEIGHT = 1
  Field16 = 64
  TextBuffer = 10
  BatchMax = 3
  BALL_SIZE = 2
  PADDLE_WIDTH = 2
  PADDLE_HEIGHT = 2
  PADDLE_OFFSET_X = 1
  PaddleSpeed = 1
  CENTER_LINE_WIDTH = 2
  CENTER_LINE_HEIGHT = 2
  CENTER_LINE_GAP = 1
  CENTER_LINE_MAX_RECTS = 3
  SCORE_LIMIT = 2
  PONG_FRAME_TICKS = 2
  PONG_MAX_DELTA_TICKS = 3
  Keys <- MCKeys
  Delays <- MCDelays
INVARIANTS
  FieldInOrder
  DrawnAsItIs
PROPERTIES
  PointsAreEarned
  OneActionPerPress
  BallComesBack
