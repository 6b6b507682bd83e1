SPECIFICATION Spec
CONSTANTS
  KernelEnd = 3
  HEAP_SIZE = 16
  HEAP_ALIGN = 2
  HeaderSize = 2
  Word = 64
  Requests <- MCRequests
  Pointers <- MCPointers
INVARIANTS
  HeapIsWhole
PROPERTIES
  WritesOwn
  FreeFirst
  AllocatorSpec
