SPECIFICATION FairSpec
CONSTANTS
  j1 = j1
  j2 = j2
  queues = queues
  skips = skips
  Jobs = {j1, j2}
  Triggers = {queues, skips}
  TriggerOf <- Twins
  r1 = r1
  Routines = {r1}
  RoutineOf <- OneRoutine
  Window = 3
  Limit <- PairLimit
  Skips = {skips}
  Deletable = {queues}
  MaxAttempts = 2
  Cancels = {c1}
  MaxRestarts = 1
  NoJob = NoJob
PROPERTY JobEnds
CHECK_DEADLOCK FALSE
