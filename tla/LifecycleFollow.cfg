SPECIFICATION ScenarioSpec
CONSTANTS
  Houses = {h1}
  AutoRenew = {h1}
  Approvals = {p1}
  CashEntries = {p1}
  Members = {m1}
  Overrides = {o1}
  Extensions = {o1}
  HouseEdits = {e1}
  Together = {{p1, m1}, {o1, e1}}
  Busy = {}
  First = p1
  Interval = 2
  Grace = 1
  Reminder = 1
  TrialNotice = 1
  PauseLength = 2
  FreeTier = 1
  Punctual = TRUE
  MaxCrashes = 0
  MaxTime = 4
PROPERTY HousesLock

PROPERTY HousesUnlock
