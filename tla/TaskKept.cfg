\* Two processes with three slots, a manual job and one of the schedule, any two faults or slow runs.
SPECIFICATION TaskFairSpec
CONSTANTS
  j1 = j1
  j2 = j2
  r1 = r1
  r2 = r2
  s1 = s1
  s2 = s2
  s3 = s3
  Nobody = Nobody
  Job <- MCJob
  Manual <- MCManual
  Runner <- MCRunner
  Slot <- MCSlot
  Home <- MCHome
  Disturbances = {"crash", "database", "redis", "slow"}
  MaxDisturbances = 2
INVARIANTS
  TaskTypeOK
  OneRunAtATime
PROPERTIES
  OnlyHolderClears
  EveryJobEnds
CHECK_DEADLOCK FALSE
