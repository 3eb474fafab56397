SPECIFICATION Spec
CONSTANTS
  Keys = {a, b, c}
  SteerKeys = {}
  Handlers = {h1}
  Turns = {t1, t2, t3}
  NoKey = NoKey
  NoTurn = NoTurn
  Faults = FALSE
  Oversized = {}
PROPERTY PromotionReservesChat
