SPECIFICATION Spec
CONSTANTS
  Keys = {a, s}
  SteerKeys = {s}
  Handlers = {h1, h2}
  Turns = {t1, t2}
  NoKey = NoKey
  NoTurn = NoTurn
  Faults = TRUE
  Oversized = {}
SYMMETRY Interchangeable
INVARIANTS
  TypeOK
  AdmittedOnce
  StreamingHasTurn
  SequentialTurnsClearRunning
PROPERTY TerminalIsFinal
