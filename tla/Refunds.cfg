SPECIFICATION SceneSpec
CONSTANTS
  Payments = {p1}
  Price = 3
  RefundIds = {1, 2, 3, 4}
  k1 = k1
  k2 = k2
  c1 = c1
  c2 = c2
  c3 = c3
  Creations = {k1, k2}
  Completions = {c1, c2, c3}
  Rejections = {j1}
  Scenes = {"ledger", "desk"}
INVARIANT NeverUnderstated
PROPERTY OneClerkImplementsLedger
PROPERTY EveryRequestAnswered
