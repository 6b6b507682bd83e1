SPECIFICATION Spec
CONSTANTS
  PAGE_SIZE = 2
  PTE_COUNT = 2
  PDE_COUNT = 2
  Frames <- MCFrames
  RangeSizes <- MCRangeSizes
INVARIANTS
  TlbSound
  UserPagesAsked
  PromisesKept
