SPECIFICATION FairSpec
CONSTANTS
  j1 = j1
  j2 = j2
  queues = queues
  skips = skips
  Jobs = {j1, j2}
  Triggers = {queues, skips}
  TriggerOf <- Pair
  r1 = r1
  Routines = {r1}
  RoutineOf <- OneRoutine
  Window = 3
  Limit <- PairLimit
  Skips = {skips}
  Deletable = {}
  MaxAttempts = 2
  Cancels = {c1}
  MaxRestarts = 0
  NoJob = NoJob
PROPERTY CancelEnds
CHECK_DEADLOCK FALSE
