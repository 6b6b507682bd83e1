SPECIFICATION Spec
CONSTANTS
  NTasks = 4
  MAX_TASKS = 4
  UserTasks <- MCUserTasks
  ExitTasks <- MCExitTasks
  SleepTicks <- MCSleepTicks
  MaxTicks = 5
  TickMod = 8
INVARIANTS
  TypeOK
  RingThreeTrapsAreOwn
  NoEarlyReturn
  BoundedBypass
  NeverHalted
PROPERTIES
  TimeSharingSpec
