SPECIFICATION Spec
CONSTANTS
  Groups = {g1}
  NoGroup = NoGroup
  Items = {m1}
  MaxWrites = 3
  MaxShifts = 2
INVARIANT GapHealed
CHECK_DEADLOCK FALSE
