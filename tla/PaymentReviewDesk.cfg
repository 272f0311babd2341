SPECIFICATION ScenarioSpec
CONSTANTS
  Houses = {h1, h2}
  h1 = h1
  h2 = h2
  Invoices = {1, 2}
  Owner <- OneOrderEach
  References = {x}
  NoRef = NoRef
  NoPayment = NoPayment
  Submissions = {s1, s2}
  CashEntries = {c1}
  Approvals = {a1}
  Rejections = {j1}
  InfoRequests = {q1}
  Issuers = {}
  Unreliable = {}
  Interval = 2
  TrialLength = 1
  MaxTime = 0
  Together = {{s1, s2, c1, a1, j1}, {s1, s2, c1, a1, q1}}
INVARIANT ApprovalPaysOpenInvoice
INVARIANT LiveReferencesUnique
PROPERTY EveryRequestAnswered
