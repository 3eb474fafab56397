SPECIFICATION FairSpec
CONSTANTS
  Keys = {a, s}
  SteerKeys = {s}
  Handlers = {h1}
  Turns = {t1, t2}
  NoKey = NoKey
  NoTurn = NoTurn
  Faults = FALSE
  Oversized = {}
PROPERTIES
  StreamingEnds
  CompletionDrains
