SPECIFICATION Spec
CONSTANTS
  Key <- MCKey
  Extended <- MCExtended
  CodeOf <- MCCodeOf
  Letters <- MCLetters
  Others <- MCOthers
  KBD_BUFFER_SIZE = 3
  MaxWire = 2
  MaxTyped = 3
INVARIANTS
  KeysTracked
PROPERTIES
  TypedFifo
