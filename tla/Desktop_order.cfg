SPECIFICATION Spec
CONSTANTS
  Window = {1, 2, 3}
  MAX_LAYERS = 4
  Z_RESET_THRESHOLD = 6
  CURSOR_Z = 7
  WIDTH = 3
  HEIGHT = 2
  TITLE_HEIGHT = 1
  Geometry <- MCGeometry3
  Button <- MCButtons
  MAX_DELTA = 1
  Moves <- MCMovesAlong
  Capacity = 1
INVARIANTS
  ActiveInFront
  CursorOnTop
  HitIsDrawn
  DragFollows
PROPERTIES
  OrderKept
