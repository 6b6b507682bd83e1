SPECIFICATION Spec
CONSTANTS
  NTasks = 3
  MAX_TASKS = 4
  UserTasks <- MCUserTasks
  ExitTasks <- MCExitTasks
  SleepTicks <- MCSleepTicks
  MaxTicks = 12
  TickMod = 8
INVARIANTS
  NoEarlyReturn
