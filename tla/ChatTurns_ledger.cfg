SPECIFICATION Spec
CONSTANTS
  Keys = {a, b, c, s, u}
  SteerKeys = {s, u}
  Handlers = {h1}
  Turns = {t1}
  NoKey = NoKey
  NoTurn = NoTurn
  Faults = TRUE
  Oversized = {b}
SYMMETRY Interchangeable
INVARIANTS
  AnswerIsDurable
  PositionsContiguous
PROPERTIES
  OrderKept
  LedgerPromise
