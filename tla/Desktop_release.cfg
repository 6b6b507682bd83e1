SPECIFICATION Spec
CONSTANTS
  Window = {1}
  MAX_LAYERS = 3
  Z_RESET_THRESHOLD = 2
  CURSOR_Z = 4
  WIDTH = 2
  HEIGHT = 3
  TITLE_HEIGHT = 1
  Geometry <- MCGeometry1
  Button <- MCButton
  MAX_DELTA = 1
  Moves <- MCMoves
  Capacity = 2
INVARIANTS
  ReleaseEndsDrag
