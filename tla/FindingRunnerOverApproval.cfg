SPECIFICATION Spec
CONSTANTS
  Houses = {h1}
  AutoRenew = {h1}
  Approvals = {a1}
  CashEntries = {}
  Members = {}
  Overrides = {}
  Extensions = {}
  HouseEdits = {}
  Together = {{a1}}
  Busy = {}
  First = a1
  Interval = 2
  Grace = 2
  Reminder = 1
  TrialNotice = 1
  PauseLength = 2
  FreeTier = 1
  Punctual = TRUE
  MaxCrashes = 0
  MaxTime = 8
SYMMETRY Symmetric
INVARIANT PaidTimeUsable
