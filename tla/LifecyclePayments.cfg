SPECIFICATION PaymentSpec
CONSTANTS
  Houses = {h1, h2}
  AutoRenew = {h1}
  Approvals = {a1, a2}
  CashEntries = {a1}
  Members = {}
  Overrides = {}
  Extensions = {}
  HouseEdits = {}
  Together = {}
  Busy = {h1}
  First = a1
  Interval = 1
  Grace = 2
  Reminder = 1
  TrialNotice = 1
  PauseLength = 2
  FreeTier = 1
  Punctual = TRUE
  MaxCrashes = 1
  MaxTime = 5
INVARIANT TypeOK
INVARIANT PaidEndKept
INVARIANT FreeTimeBounded
PROPERTY ExpiredStaysBlocked
PROPERTY StatusesSettle
