SPECIFICATION Spec
CONSTANTS
  Payments = {p1}
  Price = 3
  RefundIds = {r1, r2, r3}
  Creations = {k1, k2}
  Completions = {c1, c2}
  Rejections = {}
INVARIANT NotOverRefunded
