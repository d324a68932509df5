CONSTANTS
  Items = {a, b, c}
  Existing = {a, b}
  Requests = {r1, r2, r3}
  MaxOrder = 2
SPECIFICATION Spec
SYMMETRY Symmetry
INVARIANTS TypeOK AppendGoesLast OrderTakesEffect
CHECK_DEADLOCK FALSE
