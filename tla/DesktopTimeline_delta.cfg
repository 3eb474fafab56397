SPECIFICATION Spec
CONSTANTS
  Bots = {b1, b2}
  Working = {b1}
  NoBot = NoBot
  MaxDeltas = 1
  MaxShifts = 1
INVARIANT DeltaOnce
CHECK_DEADLOCK FALSE
