SPECIFICATION FairSpec
CONSTANTS
  NTasks = 3
  MAX_TASKS = 4
  UserTasks <- MCUserTasks
  ExitTasks <- MCExitTasks
  SleepTicks <- MCSleepTicks
  MaxTicks = 5
  TickMod = 8
PROPERTIES
  EveryTaskRuns
  SleepEnds
