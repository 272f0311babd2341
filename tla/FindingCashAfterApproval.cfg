SPECIFICATION Spec
CONSTANTS
  Houses = {h1}
  h1 = h1
  h2 = h2
  Invoices = {1}
  Owner <- SingleOrder
  References = {x}
  NoRef = NoRef
  NoPayment = NoPayment
  Submissions = {s1}
  CashEntries = {c1}
  Approvals = {a1}
  Rejections = {}
  InfoRequests = {}
  Issuers = {}
  Unreliable = {}
  Interval = 2
  TrialLength = 1
  MaxTime = 0
  Together = {}
SYMMETRY Symmetric
INVARIANT PaidOnce
