------------------------------- MODULE CashBook -------------------------------
(***************************************************************************)
(* Expenses of a house and the cash entries made for them.                 *)
(* Code: services/finance_service.py, called by routers/finance.py.        *)
(*                                                                         *)
(* A clerk's request reads the expense without a lock, decides by what it  *)
(* has read, and commits at its end; what keeps requests about the same    *)
(* expense apart is the unique key of a cash entry, its source.            *)
(***************************************************************************)
EXTENDS Integers

CONSTANTS
  Expenses,  \* of one house and business date
  Clerks     \* who has a request under way

Sources == {"expense", "reversal"} \X Expenses

VARIABLES
  expense,   \* status of each expense
  cash,      \* how many committed cash entries have a source
  day,       \* status of the daily closing of the date
  desk,      \* where the request of a clerk is, and what it is about
  inserted   \* entries a clerk has inserted and not committed

cashVars == <<expense, cash, day, desk, inserted>>

Idle == [step |-> "idle"]

CashInit ==
  /\ expense = [e \in Expenses |-> "none"]
  /\ cash = [s \in Sources |-> 0]
  /\ day = "none"
  /\ desk = [c \in Clerks |-> Idle]
  /\ inserted = [c \in Clerks |-> {}]

-----------------------------------------------------------------------------
(* The entry that paying or reversing is about                             *)
Source(c) == <<IF desk[c].op = "reverse" THEN "reversal" ELSE "expense", desk[c].about>>

At(c, step) == desk[c].step = step
GoesTo(c, step) == desk' = [desk EXCEPT ![c] = [desk[c] EXCEPT !.step = step]]

(* A request ends without a commit.                                        *)
Dropped(c) ==
  /\ desk' = [desk EXCEPT ![c] = Idle]
  /\ inserted' = [inserted EXCEPT ![c] = {}]
  /\ UNCHANGED <<expense, cash, day>>

(* The request is accepted for the status it reads; another one is         *)
(* answered at once and changes nothing.                                   *)
Accepts(op, e) ==
  CASE op = "approve" -> expense[e] = "pending"
    [] op = "reject"  -> expense[e] \in {"pending", "approved"}
    [] op = "pay"     -> expense[e] = "approved"
    [] op = "reverse" -> cash[<<"expense", e>>] > 0

CreateExpense(e) ==
  /\ expense[e] = "none" /\ day # "approved"
  /\ expense' = [expense EXCEPT ![e] = "pending"]
  /\ UNCHANGED <<cash, day, desk, inserted>>

AskFor(c, op, e) ==
  /\ At(c, "idle") /\ Accepts(op, e)
  /\ desk' = [desk EXCEPT ![c] = [step |-> IF op \in {"pay", "reverse"} THEN "date" ELSE "write",
                                  op |-> op, about |-> e]]
  /\ UNCHANGED <<expense, cash, day, inserted>>

(* assert_date_open                                                        *)
CheckDate(c) ==
  /\ At(c, "date")
  /\ IF day = "approved"
       THEN Dropped(c)
       ELSE GoesTo(c, "find") /\ UNCHANGED <<expense, cash, day, inserted>>

(* Fault: an entry that is not committed is taken for one that is. *)
FindAny(c) ==
  /\ At(c, "find")
  /\ IF cash[Source(c)] > 0 \/ \E d \in Clerks : Source(c) \in inserted[d]
       THEN GoesTo(c, "write")
       ELSE GoesTo(c, "insert")
  /\ UNCHANGED <<expense, cash, day, inserted>>

(* An entry of the source that is there already is the payment's; a        *)
(* reversal is refused for it.                                             *)
FindEntry(c) ==
  /\ At(c, "find")
  /\ IF cash[Source(c)] > 0 /\ desk[c].op = "reverse"
       THEN Dropped(c)
       ELSE /\ GoesTo(c, IF cash[Source(c)] > 0 THEN "write" ELSE "insert")
            /\ UNCHANGED <<expense, cash, day, inserted>>

(* Fault: the table has no unique key. *)
InsertAnyEntry(c) ==
  /\ At(c, "insert")
  /\ inserted' = [inserted EXCEPT ![c] = {Source(c)}]
  /\ GoesTo(c, "write")
  /\ UNCHANGED <<expense, cash, day>>

(* The INSERT waits for one of the same source, and fails when that has    *)
(* been committed.                                                         *)
InsertEntry(c) ==
  /\ At(c, "insert")
  /\ \A d \in Clerks \ {c} : Source(c) \notin inserted[d]
  /\ IF cash[Source(c)] > 0
       THEN Dropped(c)
       ELSE /\ inserted' = [inserted EXCEPT ![c] = {Source(c)}]
            /\ GoesTo(c, "write")
            /\ UNCHANGED <<expense, cash, day>>

StatusAfter(op, status) ==
  CASE op = "approve" -> "approved"
    [] op = "reject"  -> "rejected"
    [] op = "pay"     -> "paid"
    [] op = "reverse" -> status

(* The status is written over whatever it is by now, and all is committed. *)
WriteExpense(c) ==
  /\ At(c, "write")
  /\ expense' = [expense EXCEPT ![desk[c].about] = StatusAfter(desk[c].op, @)]
  /\ cash' = [s \in Sources |-> IF s \in inserted[c] THEN cash[s] + 1 ELSE cash[s]]
  /\ desk' = [desk EXCEPT ![c] = Idle]
  /\ inserted' = [inserted EXCEPT ![c] = {}]
  /\ UNCHANGED day

(* The connection is lost, or the process ends.                            *)
LoseClerk(c) == ~At(c, "idle") /\ Dropped(c)

(* The daily closing. Its figures, and requests about a closing that       *)
(* overlap, are left out.                                                  *)
CloseDay ==
  /\ \/ day # "approved" /\ day' = "submitted"
     \/ day = "submitted" /\ day' = "approved"
     \/ day = "approved" /\ day' = "reopened"
  /\ UNCHANGED <<expense, cash, desk, inserted>>

CashNext ==
  \/ \E e \in Expenses : CreateExpense(e)
  \/ \E c \in Clerks, e \in Expenses, op \in {"approve", "reject", "pay", "reverse"} :
       AskFor(c, op, e)
  \/ \E c \in Clerks :
       CheckDate(c) \/ FindEntry(c) \/ InsertEntry(c) \/ WriteExpense(c) \/ LoseClerk(c)
  \/ CloseDay

CashSpec == CashInit /\ [][CashNext]_cashVars

-----------------------------------------------------------------------------
(* The money of an expense leaves the cash at most once and comes back at  *)
(* most once, although two clerks may pay it at the same time, and an      *)
(* approval read before the payment can make it payable again.             *)
BookedOnce == \A s \in Sources : cash[s] \in {0, 1}

(* An expense is paid only with its cash entry: not where another payment  *)
(* that was on its way has been given up.                                  *)
PaidIsBooked == \A e \in Expenses : expense[e] = "paid" => cash[<<"expense", e>>] = 1
===============================================================================
