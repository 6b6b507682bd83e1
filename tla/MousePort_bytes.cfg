SPECIFICATION Spec
CONSTANTS
  MaxQueue = 3
CHECK_DEADLOCK FALSE
INVARIANTS
  InStep
  InputGoesOn
