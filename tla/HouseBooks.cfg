SPECIFICATION HouseSpec
CONSTANTS
  Units = {u1, u2}
  Employees = {e1, e2}
  House = House
  Quarantine = Quarantine
  None = None
  Receipts = {d1, d2}
  Returns = {r1, r2}
  Sales = {s1, s2}
  Mother = Mother
  Ann = Ann
  Bob = Bob
  Staff = {Ann, Bob}
  Outside = Outside
  Deposit = Deposit
  Refill = Refill
  Again = Again
  Hand = Hand
  Back = Back
  Over = Over
  Spend = Spend
  Transfers = {Deposit, Refill, Again, Hand, Back, Over, Spend}
  Order <- MCOrder
  MaxAmount = 2
  Expenses = {x1}
  Clerks = {c1, c2}
SYMMETRY Symmetric
CHECK_DEADLOCK FALSE
INVARIANT LedgerBalances
INVARIANT SoldOnce
INVARIANT ReturnedUnitsPending
INVARIANT BooksAgree
INVARIANT BookedOnce
INVARIANT PaidIsBooked
PROPERTY ImplementsAccounts
