----------------------------- MODULE MCHouseBooks -----------------------------
(***************************************************************************)
(* Instances for TLC of what a house keeps books of: its serial stock      *)
(* (SerialStock), its top-up money (TopupBalances) and its expenses        *)
(* (CashBook).  They share no table, so that a behaviour is about one.     *)
(***************************************************************************)
EXTENDS SerialStock, TopupBalances, CashBook, TLC

CONSTANTS
  Ann, Bob,
  Deposit, Refill, Again, Hand, Back, Over, Spend  \* the requests about money

MCOrder ==
  (Deposit :> [from |-> Outside, to |-> Mother, amount |-> 2]) @@
  (Refill  :> [from |-> Outside, to |-> Mother, amount |-> 1]) @@
  (Again   :> [from |-> Outside, to |-> Ann, amount |-> 1]) @@
  (Hand    :> [from |-> Mother, to |-> Ann, amount |-> 1]) @@
  (Back    :> [from |-> Ann, to |-> Mother, amount |-> 2]) @@
  (Over    :> [from |-> Bob, to |-> Ann, amount |-> 1]) @@
  (Spend   :> [from |-> Ann, to |-> Outside, amount |-> 1])

(* Requests that are made in the same behaviour                            *)
Scenes == {{Deposit, Refill, Hand}, {Hand, Back, Spend}, {Again, Over, Hand}}

Begun == {q \in Transfers : topupPc[q] # "new"}

NoMoneyYet == topupRow = {} /\ Begun = {}
NoStock == \A d \in Receipts : receipt[d].status = "none"
NoExpense == day = "none" /\ \A e \in Expenses : expense[e] = "none"

MoneyTurn ==
  /\ TopupNext
  /\ \E scene \in Scenes : Begun' \subseteq scene
  /\ NoStock /\ NoExpense
  /\ UNCHANGED <<vars, cashVars>>

-----------------------------------------------------------------------------
StockTurn == Next /\ NoMoneyYet /\ NoExpense /\ UNCHANGED <<topupVars, cashVars>>

CashTurn == CashNext /\ NoMoneyYet /\ NoStock /\ UNCHANGED <<vars, topupVars>>

HouseInit == Init /\ TopupInit /\ CashInit

HouseSpec ==
  /\ HouseInit
  /\ [][MoneyTurn \/ StockTurn \/ CashTurn]_<<vars, topupVars, cashVars>>

(* Units, employees and the ids of documents are interchangeable.          *)
Symmetric ==
  Permutations(Units) \cup Permutations(Employees) \cup Permutations(Receipts)
    \cup Permutations(Returns) \cup Permutations(Sales)
===============================================================================
