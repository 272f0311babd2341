SPECIFICATION Spec
CONSTANTS
  Houses = {h1, h2}
  h1 = h1
  h2 = h2
  Invoices = {1, 2, 3, 4}
  Owner <- TwoOrdersEach
  References = {x}
  NoRef = NoRef
  NoPayment = NoPayment
  Submissions = {s1, s2, s3}
  CashEntries = {}
  Approvals = {a1, a2, a3}
  Rejections = {}
  InfoRequests = {}
  Issuers = {n1}
  Unreliable = {a1, a2, a3, s1, s2, s3}
  Interval = 2
  TrialLength = 1
  MaxTime = 2
  Together = {}
SYMMETRY Symmetric
INVARIANT PaidOnce
INVARIANT BooksAgree
PROPERTY RenewalExtends
