--------------------------- MODULE HouseBooksProofs ---------------------------
(***************************************************************************)
(* Proofs about what a house keeps books of, for any units, employees,     *)
(* documents, requests and clerks: SerialStock, then TopupBalances with    *)
(* the accounts it implements, then CashBook.                              *)
(***************************************************************************)
EXTENDS SerialStock, TopupBalances, CashBook, SumTheorems

-----------------------------------------------------------------------------
(* Serial stock                                                            *)

-----------------------------------------------------------------------------
(* Typing of the pieces.                                                   *)

(* The rows that operations write are rows of their tables.                *)
LEMMA RowTypes ==
  /\ NoUnit \in Unit /\ InStock \in Unit
  /\ [status |-> "received", employee |-> None, location |-> House] \in Unit
  /\ [NoUnit EXCEPT !.status = "sold"] \in Unit
  /\ \A e \in Employees : InBag(e) \in Unit
BY DEF NoUnit, InStock, InBag, Unit, Places

(* A decision gives a row and a place of the ledger.                       *)
LEMMA DecidedType ==
  ASSUME NEW decision \in Decisions, NEW e \in Employees
  PROVE  /\ Decided(decision, e) \in Unit
         /\ Decided(decision, e).location \in Places
         /\ Decided(decision, e).status \in {"available", "assigned", "damaged"}
         /\ Decided(decision, e).status = "available" => Decided(decision, e).location = House
         /\ Decided(decision, e).status = "assigned" =>
              /\ Decided(decision, e).employee = e
              /\ Decided(decision, e).location = e
<1>1. CASE decision = "accept"
  BY <1>1, RowTypes DEF Decided, InStock, Places
<1>2. CASE decision = "damaged"
  BY <1>2 DEF Decided, Unit, Places
<1>3. CASE decision = "reject"
  BY <1>3, RowTypes DEF Decided, InBag, Places
<1> QED  BY <1>1, <1>2, <1>3 DEF Decisions

(* Units turn into typed rows.                                             *)
LEMMA BecomeType ==
  ASSUME unit \in [Units -> Unit], NEW us, NEW row, Become(us, row),
         \A u \in us \cap Units : row[u] \in Unit
  PROVE  unit' \in [Units -> Unit]
BY DEF Become

(* A booking leaves a unit's row of the ledger a row.                      *)
LEMMA BookingType ==
  ASSUME NEW row \in [Places -> Int], NEW place
  PROVE  /\ [row EXCEPT ![place] = @ + 1] \in [Places -> Int]
         /\ [row EXCEPT ![place] = @ - 1] \in [Places -> Int]
<1>1. CASE place \in Places
  <2>1. row[place] + 1 \in Int /\ row[place] - 1 \in Int
    BY <1>1
  <2> QED  BY <2>1
<1>2. CASE place \notin Places
  <2>1. /\ [row EXCEPT ![place] = @ + 1] = row
        /\ [row EXCEPT ![place] = @ - 1] = row
    BY <1>2
  <2> QED  BY <2>1
<1> QED  BY <1>1, <1>2

(* Ledger rows are numbers.                                                *)
LEMMA LedgerType ==
  ASSUME ledger \in [Units -> [Places -> Int]], NEW us, NEW from, NEW to,
         \/ LedgerOut(us, from)
         \/ LedgerIn(us, to)
         \/ LedgerMove(us, from, to) /\ from \in Places /\ to \in Places
  PROVE  ledger' \in [Units -> [Places -> Int]]
<1>1. CASE LedgerOut(us, from)
  <2>1. \A u \in Units : [ledger[u] EXCEPT ![from] = @ - 1] \in [Places -> Int]
    BY BookingType
  <2> QED  BY <1>1, <2>1 DEF LedgerOut
<1>2. CASE LedgerIn(us, to)
  <2>1. \A u \in Units : [ledger[u] EXCEPT ![to] = @ + 1] \in [Places -> Int]
    BY BookingType
  <2> QED  BY <1>2, <2>1 DEF LedgerIn
<1>3. CASE LedgerMove(us, from, to) /\ from \in Places /\ to \in Places
  BY <1>3 DEF LedgerMove
<1> QED  BY <1>1, <1>2, <1>3

(* A new status leaves the rest of a sale, and the other sales, alone.     *)
LEMMA SaleTurned ==
  ASSUME sale \in [Sales -> Sale], NEW s \in Sales,
         NEW status \in {"submitted", "approved", "rejected"},
         sale' = [sale EXCEPT ![s].status = status]
  PROVE  /\ sale' \in [Sales -> Sale]
         /\ sale'[s].status = status
         /\ \A t \in Sales : sale'[t].units = sale[t].units
         /\ \A t \in Sales \ {s} : sale'[t] = sale[t]
<1>1. sale[s] \in Sale
  OBVIOUS
<1>2. /\ [sale[s] EXCEPT !.status = status] \in Sale
      /\ [sale[s] EXCEPT !.status = status].status = status
      /\ [sale[s] EXCEPT !.status = status].units = sale[s].units
  BY <1>1 DEF Sale
<1>3. sale' = [sale EXCEPT ![s] = [sale[s] EXCEPT !.status = status]]
  OBVIOUS
<1> QED  BY <1>2, <1>3

(* Submitting and rejecting only turn the status of an undecided sale.     *)
LEMMA SubmitOrReject ==
  ASSUME sale \in [Sales -> Sale], NEW s \in Sales, SubmitSale(s) \/ RejectSale(s)
  PROVE  /\ sale' \in [Sales -> Sale]
         /\ sale[s].status # "approved" /\ sale'[s].status # "approved"
         /\ \A t \in Sales : sale'[t].units = sale[t].units
         /\ \A t \in Sales \ {s} : sale'[t] = sale[t]
         /\ UNCHANGED <<unit, ledger, receipt, return>>
<1>1. CASE SubmitSale(s)
  BY <1>1, SaleTurned DEF SubmitSale
<1>2. CASE RejectSale(s)
  BY <1>2, SaleTurned DEF RejectSale
<1> QED  BY <1>1, <1>2

(* A return that has been submitted names its employee.                    *)
ReturnsNamed ==
  \A r \in Returns : return[r].status = "submitted" => return[r].employee \in Employees

Typed == TypeOK /\ ReturnsNamed

(* What is open to a step, operation by operation.                         *)
CreatesReceipt == \E d \in Receipts, us \in SUBSET Units : CreateReceipt(d, us)
Issues == \E us \in SUBSET Units, e \in Employees : IssueStock(us, e)
CreatesReturn == \E r \in Returns, us \in SUBSET Units, e \in Employees : CreateReturn(r, us, e)
Verifies ==
  \E r \in Returns : \E us \in (SUBSET return[r].units) \ {{}} :
    \E decided \in [us -> Decisions] : VerifyReturn(r, decided)
WritesSale ==
  \E s \in Sales, e \in Employees, us \in SUBSET Units, submit \in BOOLEAN :
    CreateSale(s, e, us, submit) \/ UpdateSale(s, e, us, submit)

(* A step is one operation, or changes nothing.                            *)
LEMMA NextSplit ==
  ASSUME [Next]_vars
  PROVE  \/ CreatesReceipt
         \/ \E d \in Receipts : PostReceipt(d)
         \/ \E d \in Receipts : DeleteReceipt(d)
         \/ Issues
         \/ CreatesReturn
         \/ Verifies
         \/ WritesSale
         \/ \E s \in Sales : SubmitSale(s) \/ RejectSale(s)
         \/ \E s \in Sales : ApproveSale(s)
         \/ UNCHANGED vars
BY DEF Next, Store, Field, CreatesReceipt, Issues, CreatesReturn, Verifies, WritesSale

-----------------------------------------------------------------------------
(* Types are kept.                                                         *)

(* The empty tables are typed.                                             *)
LEMMA InitTyped == Init => Typed
BY RowTypes DEF Init, Typed, TypeOK, ReturnsNamed, Receipt, Return, Sale

(* Every operation writes typed rows, and names the employee of a return.  *)
LEMMA StepTyped ==
  ASSUME Typed, [Next]_vars
  PROVE  Typed'
<1> USE DEF Typed, TypeOK
<1>1. CASE CreatesReceipt
  <2> PICK d \in Receipts, us \in SUBSET Units : CreateReceipt(d, us)
    BY <1>1 DEF CreatesReceipt
  <2>1. unit' \in [Units -> Unit]
    BY BecomeType, RowTypes DEF CreateReceipt
  <2>2. receipt' \in [Receipts -> Receipt]
    BY DEF CreateReceipt, Receipt
  <2> QED  BY <2>1, <2>2 DEF CreateReceipt, ReturnsNamed
<1>2. CASE \E d \in Receipts : PostReceipt(d)
  <2> PICK d \in Receipts : PostReceipt(d)
    BY <1>2
  <2>1. unit' \in [Units -> Unit]
    BY BecomeType, RowTypes DEF PostReceipt
  <2>2. ledger' \in [Units -> [Places -> Int]]
    BY LedgerType DEF PostReceipt
  <2>3. receipt' \in [Receipts -> Receipt]
    BY DEF PostReceipt, Receipt
  <2> QED  BY <2>1, <2>2, <2>3 DEF PostReceipt, ReturnsNamed
<1>3. CASE \E d \in Receipts : DeleteReceipt(d)
  <2> PICK d \in Receipts : DeleteReceipt(d)
    BY <1>3
  <2>1. unit' \in [Units -> Unit]
    BY BecomeType, RowTypes DEF DeleteReceipt
  <2>2. receipt' \in [Receipts -> Receipt]
    BY DEF DeleteReceipt, Receipt
  <2> QED  BY <2>1, <2>2 DEF DeleteReceipt, ReturnsNamed
<1>4. CASE Issues
  <2> PICK us \in SUBSET Units, e \in Employees : IssueStock(us, e)
    BY <1>4 DEF Issues
  <2>1. unit' \in [Units -> Unit]
    BY BecomeType, RowTypes DEF IssueStock
  <2>2. ledger' \in [Units -> [Places -> Int]]
    BY LedgerType DEF IssueStock, Places
  <2> QED  BY <2>1, <2>2 DEF IssueStock, ReturnsNamed
<1>5. CASE CreatesReturn
  <2> PICK r \in Returns, us \in SUBSET Units, e \in Employees : CreateReturn(r, us, e)
    BY <1>5 DEF CreatesReturn
  <2>1. \A u \in us : [unit[u] EXCEPT !.status = "returned"] \in Unit
    BY DEF Unit
  <2>2. unit' \in [Units -> Unit]
    BY <2>1, BecomeType DEF CreateReturn
  <2>3. ledger' \in [Units -> [Places -> Int]]
    BY LedgerType DEF CreateReturn
  <2>4. return' \in [Returns -> Return] /\ ReturnsNamed'
    BY DEF CreateReturn, Return, ReturnsNamed
  <2> QED  BY <2>2, <2>3, <2>4 DEF CreateReturn
<1>6. CASE Verifies
  <2> PICK r \in Returns : \E us \in (SUBSET return[r].units) \ {{}} :
             \E decided \in [us -> Decisions] : VerifyReturn(r, decided)
    BY <1>6 DEF Verifies
  <2> PICK us \in SUBSET return[r].units : \E decided \in [us -> Decisions] : VerifyReturn(r, decided)
    OBVIOUS
  <2> PICK decided \in [us -> Decisions] : VerifyReturn(r, decided)
    OBVIOUS
  <2> DEFINE e == return[r].employee
  <2>1. e \in Employees
    BY DEF VerifyReturn, ReturnsNamed
  <2>2. \A u \in us : Decided(decided[u], e) \in Unit
    BY <2>1, DecidedType
  <2>3. unit' \in [Units -> Unit]
    BY <2>2, BecomeType DEF VerifyReturn
  <2>4. ledger' \in [Units -> [Places -> Int]]
    <3>1. ASSUME NEW u \in Units, NEW place
          PROVE  [ledger[u] EXCEPT ![place] = @ + 1] \in [Places -> Int]
      BY BookingType
    <3> QED  BY <3>1 DEF VerifyReturn, VerifiedLedger
  <2>5. \/ UNCHANGED return
        \/ return' = [return EXCEPT ![r].status = "verified"]
    BY DEF VerifyReturn
  <2>6. return' \in [Returns -> Return]
    <3>1. return[r] \in Return
      OBVIOUS
    <3>2. [return[r] EXCEPT !.status = "verified"] \in Return
      BY <3>1 DEF Return
    <3> QED  BY <2>5, <3>2
  <2>7. ReturnsNamed'
    <3>1. CASE UNCHANGED return
      BY <3>1 DEF ReturnsNamed
    <3>2. CASE return' = [return EXCEPT ![r].status = "verified"]
      <4> SUFFICES ASSUME NEW o \in Returns, return'[o].status = "submitted"
                   PROVE  return'[o].employee \in Employees
        BY DEF ReturnsNamed
      <4>1. CASE o = r
        BY <2>1, <3>2, <4>1 DEF Return
      <4>2. CASE o # r
        BY <3>2, <4>2 DEF ReturnsNamed
      <4> QED  BY <4>1, <4>2
    <3> QED  BY <2>5, <3>1, <3>2
  <2> QED  BY <2>3, <2>4, <2>6, <2>7 DEF VerifyReturn
<1>7. CASE WritesSale
  <2> PICK s \in Sales, e \in Employees, us \in SUBSET Units, submit \in BOOLEAN :
             CreateSale(s, e, us, submit) \/ UpdateSale(s, e, us, submit)
    BY <1>7 DEF WritesSale
  <2>1. sale' \in [Sales -> Sale]
    BY DEF CreateSale, UpdateSale, Submitted, Sale
  <2> QED  BY <2>1 DEF CreateSale, UpdateSale, ReturnsNamed
<1>8. CASE \E s \in Sales : SubmitSale(s) \/ RejectSale(s)
  <2> PICK s \in Sales : SubmitSale(s) \/ RejectSale(s)
    BY <1>8
  <2> QED  BY SubmitOrReject DEF ReturnsNamed
<1>9. CASE \E s \in Sales : ApproveSale(s)
  <2> PICK s \in Sales : ApproveSale(s)
    BY <1>9
  <2>1. unit' \in [Units -> Unit]
    BY BecomeType, RowTypes DEF ApproveSale
  <2>2. ledger' \in [Units -> [Places -> Int]]
    BY LedgerType DEF ApproveSale
  <2>3. sale' \in [Sales -> Sale]
    BY SaleTurned DEF ApproveSale
  <2> QED  BY <2>1, <2>2, <2>3 DEF ApproveSale, ReturnsNamed
<1>10. CASE UNCHANGED vars
  BY <1>10 DEF vars, ReturnsNamed
<1> QED  BY <1>1, <1>2, <1>3, <1>4, <1>5, <1>6, <1>7, <1>8, <1>9, <1>10, NextSplit

(* Every row keeps to its table, whatever the documents.                   *)
THEOREM TypeCorrect == Spec => []TypeOK
<1>1. Typed => TypeOK
  BY DEF Typed
<1> QED  BY <1>1, InitTyped, StepTyped, PTL DEF Spec

-----------------------------------------------------------------------------
(* The ledger adds up.                                                     *)

(* One unit's rows add up to where it is.                                  *)
Balanced(u) ==
  /\ \A p \in Places : ledger[u][p] = IF Counts(u, p) THEN 1 ELSE 0
  /\ Placed(u)

(* LedgerBalances says of every unit what Balanced says of one.            *)
LEMMA BalancedAll == LedgerBalances <=> \A u \in Units : Balanced(u)
BY DEF LedgerBalances, Balanced

(* A unit that is neither moved nor booked stays in balance.               *)
LEMMA BalancedSame ==
  ASSUME NEW u \in Units, Balanced(u), unit'[u] = unit[u], ledger'[u] = ledger[u]
  PROVE  Balanced(u)'
BY DEF Balanced, Placed, Counts

(* An empty ledger balances.                                               *)
LEMMA InitBalances == Init => LedgerBalances
BY DEF Init, LedgerBalances, Placed, Counts, NoUnit

(* Every operation books what it moves, unit by unit.                      *)
LEMMA StepBalances ==
  ASSUME Typed, LedgerBalances, [Next]_vars
  PROVE  LedgerBalances'
<1> USE DEF Typed, TypeOK
<1> SUFFICES ASSUME NEW u \in Units PROVE Balanced(u)'
  BY DEF LedgerBalances, Balanced
<1>0. Balanced(u) /\ ledger[u] \in [Places -> Int] /\ unit[u] \in Unit
  BY BalancedAll
<1>s. ASSUME UNCHANGED <<unit, ledger>> PROVE Balanced(u)'
  BY <1>0, <1>s, BalancedSame
<1>1. CASE CreatesReceipt
  <2> PICK d \in Receipts, us \in SUBSET Units : CreateReceipt(d, us)
    BY <1>1 DEF CreatesReceipt
  <2>1. CASE u \in us
    BY <1>0, <2>1 DEF CreateReceipt, Become, Balanced, Placed, Counts
  <2>2. CASE u \notin us
    BY <1>0, <2>2, BalancedSame DEF CreateReceipt, Become
  <2> QED  BY <2>1, <2>2
<1>2. CASE \E d \in Receipts : PostReceipt(d)
  <2> PICK d \in Receipts : PostReceipt(d)
    BY <1>2
  <2>1. CASE u \in receipt[d].units
    <3>1. unit[u].status = "received" /\ unit'[u] = InStock
      BY <2>1 DEF PostReceipt, Become
    <3>2. ledger'[u] = [ledger[u] EXCEPT ![House] = @ + 1]
      BY <2>1 DEF PostReceipt, LedgerIn
    <3>3. \A p \in Places : ledger[u][p] = 0
      BY <1>0, <3>1 DEF Balanced, Counts
    <3> QED  BY <1>0, <3>1, <3>2, <3>3 DEF Balanced, Placed, Counts, InStock
  <2>2. CASE u \notin receipt[d].units
    BY <1>0, <2>2, BalancedSame DEF PostReceipt, Become, LedgerIn
  <2> QED  BY <2>1, <2>2
<1>3. CASE \E d \in Receipts : DeleteReceipt(d)
  <2> PICK d \in Receipts : DeleteReceipt(d)
    BY <1>3
  <2>1. CASE u \in receipt[d].units
    BY <1>0, <2>1 DEF DeleteReceipt, Become, Balanced, Placed, Counts, NoUnit
  <2>2. CASE u \notin receipt[d].units
    BY <1>0, <2>2, BalancedSame DEF DeleteReceipt, Become
  <2> QED  BY <2>1, <2>2
<1>4. CASE Issues
  <2> PICK us \in SUBSET Units, e \in Employees : IssueStock(us, e)
    BY <1>4 DEF Issues
  <2>1. CASE u \in us
    <3>1. unit[u].status = "available" /\ unit'[u] = InBag(e)
      BY <2>1 DEF IssueStock, Become
    <3>2. ledger'[u] = [ledger[u] EXCEPT ![House] = @ - 1, ![e] = @ + 1]
      BY <2>1 DEF IssueStock, LedgerMove
    <3>3. unit[u].location = House
      BY <1>0, <3>1 DEF Balanced, Placed
    <3>4. \A p \in Places : ledger[u][p] = IF p = House THEN 1 ELSE 0
      BY <1>0, <3>1, <3>3 DEF Balanced, Counts
    <3>5. \A p \in Places : ledger'[u][p] = IF p = e THEN 1 ELSE 0
      BY <1>0, <3>2, <3>4, PlacesAssumption DEF Places
    <3> QED  BY <3>1, <3>5 DEF Balanced, Placed, Counts, InBag
  <2>2. CASE u \notin us
    BY <1>0, <2>2, BalancedSame DEF IssueStock, Become, LedgerMove
  <2> QED  BY <2>1, <2>2
<1>5. CASE CreatesReturn
  <2> PICK r \in Returns, us \in SUBSET Units, e \in Employees : CreateReturn(r, us, e)
    BY <1>5 DEF CreatesReturn
  <2>1. CASE u \in us
    <3>1. /\ unit[u].status = "assigned" /\ unit[u].employee = e
          /\ unit'[u] = [unit[u] EXCEPT !.status = "returned"]
      BY <2>1 DEF CreateReturn, Become
    <3>2. ledger'[u] = [ledger[u] EXCEPT ![e] = @ - 1]
      BY <2>1 DEF CreateReturn, LedgerOut
    <3>3. \A p \in Places : ledger[u][p] = IF p = e THEN 1 ELSE 0
      BY <1>0, <3>1 DEF Balanced, Placed, Counts
    <3>4. \A p \in Places : ledger'[u][p] = 0
      BY <1>0, <3>2, <3>3 DEF Places
    <3>5. /\ unit'[u].status = "returned"
          /\ unit'[u].employee = e /\ unit'[u].location = e
      BY <1>0, <3>1 DEF Unit, Balanced, Placed
    <3> QED  BY <3>4, <3>5 DEF Balanced, Placed, Counts
  <2>2. CASE u \notin us
    BY <1>0, <2>2, BalancedSame DEF CreateReturn, Become, LedgerOut
  <2> QED  BY <2>1, <2>2
<1>6. CASE Verifies
  <2> PICK r \in Returns : \E us \in (SUBSET return[r].units) \ {{}} :
             \E decided \in [us -> Decisions] : VerifyReturn(r, decided)
    BY <1>6 DEF Verifies
  <2> PICK us \in SUBSET return[r].units : \E decided \in [us -> Decisions] : VerifyReturn(r, decided)
    OBVIOUS
  <2> PICK decided \in [us -> Decisions] : VerifyReturn(r, decided)
    OBVIOUS
  <2> DEFINE e == return[r].employee
  <2>1. CASE u \in us
    <3>1. e \in Employees /\ decided[u] \in Decisions
      BY <2>1 DEF VerifyReturn, ReturnsNamed
    <3>2. unit[u].status = "returned" /\ unit'[u] = Decided(decided[u], e)
      BY <2>1 DEF VerifyReturn, Become
    <3>3. ledger'[u] = [ledger[u] EXCEPT ![Decided(decided[u], e).location] = @ + 1]
      BY <2>1 DEF VerifyReturn, VerifiedLedger
    <3>4. \A p \in Places : ledger[u][p] = 0
      BY <1>0, <3>2 DEF Balanced, Counts
    <3>5. \A p \in Places : ledger'[u][p] = IF p = unit'[u].location THEN 1 ELSE 0
      BY <1>0, <3>2, <3>3, <3>4
    <3>6. Placed(u)' /\ unit'[u].status \in {"available", "assigned", "damaged"}
      BY <3>1, <3>2, DecidedType DEF Placed
    <3> QED  BY <3>5, <3>6 DEF Balanced, Counts
  <2>2. CASE u \notin us
    BY <1>0, <2>2, BalancedSame DEF VerifyReturn, Become, VerifiedLedger
  <2> QED  BY <2>1, <2>2
<1>7. CASE WritesSale
  <2>1. UNCHANGED <<unit, ledger>>
    BY <1>7 DEF WritesSale, CreateSale, UpdateSale
  <2> QED  BY <2>1, <1>s
<1>8. CASE \E s \in Sales : SubmitSale(s) \/ RejectSale(s)
  <2>1. UNCHANGED <<unit, ledger>>
    BY <1>8 DEF SubmitSale, RejectSale
  <2> QED  BY <2>1, <1>s
<1>9. CASE \E s \in Sales : ApproveSale(s)
  <2> PICK s \in Sales : ApproveSale(s)
    BY <1>9
  <2> DEFINE e == sale[s].employee
  <2>1. CASE u \in sale[s].units
    <3>1. /\ unit[u].status = "assigned" /\ unit[u].employee = e
          /\ unit'[u] = [NoUnit EXCEPT !.status = "sold"]
      BY <2>1 DEF ApproveSale, Become
    <3>2. ledger'[u] = [ledger[u] EXCEPT ![e] = @ - 1]
      BY <2>1 DEF ApproveSale, LedgerOut
    <3>3. e \in Employees /\ \A p \in Places : ledger[u][p] = IF p = e THEN 1 ELSE 0
      BY <1>0, <3>1 DEF Balanced, Placed, Counts
    <3>4. \A p \in Places : ledger'[u][p] = 0
      BY <1>0, <3>2, <3>3 DEF Places
    <3>5. unit'[u].status = "sold"
      BY <3>1 DEF NoUnit
    <3> QED  BY <3>4, <3>5 DEF Balanced, Placed, Counts
  <2>2. CASE u \notin sale[s].units
    BY <1>0, <2>2, BalancedSame DEF ApproveSale, Become, LedgerOut
  <2> QED  BY <2>1, <2>2
<1>10. CASE UNCHANGED vars
  BY <1>10, <1>s DEF vars
<1> QED  BY <1>1, <1>2, <1>3, <1>4, <1>5, <1>6, <1>7, <1>8, <1>9, <1>10, NextSplit

(* Through any history of receipts, issues, returns, partial verifications *)
(* and sales the ledger adds up to where the units are.                    *)
THEOREM LedgerAlwaysBalances == Spec => []LedgerBalances
BY InitTyped, StepTyped, InitBalances, StepBalances, PTL DEF Spec

-----------------------------------------------------------------------------
(* A unit is sold once.                                                    *)

(* A step that sells nothing and touches no sold unit and no approved sale. *)
SellsNothing ==
  /\ \A u \in Units : unit'[u].status = "sold" <=> unit[u].status = "sold"
  /\ \A s \in Sales : sale'[s].status = "approved" <=> sale[s].status = "approved"
  /\ \A s \in Sales : sale[s].status = "approved" => sale'[s].units = sale[s].units

(* Such a step cannot sell a unit twice.                                   *)
LEMMA SellsNothingKeeps ==
  ASSUME SoldOnce, SellsNothing
  PROVE  SoldOnce'
BY DEF SoldOnce, SellsNothing

(* Whoever approves looks at the units first: none of them is sold, so     *)
(* that no other approved sale can name one.                               *)
LEMMA ApprovalSellsOnce ==
  ASSUME Typed, SoldOnce, NEW s \in Sales, ApproveSale(s)
  PROVE  SoldOnce'
<1> USE DEF Typed, TypeOK
<1>1. \A u \in sale[s].units : unit[u].status = "assigned"
  BY DEF ApproveSale
<1>2. \A u \in Units : unit'[u].status = "sold" <=>
                         unit[u].status = "sold" \/ u \in sale[s].units
  BY DEF ApproveSale, Become, NoUnit
<1>3. \A t \in Sales : sale'[t].units = sale[t].units
  BY SaleTurned DEF ApproveSale
<1>4. \A t \in Sales : sale'[t].status = "approved" <=> sale[t].status = "approved" \/ t = s
  BY SaleTurned DEF ApproveSale
<1>5. \A t \in Sales : sale[t].status = "approved" => sale[t].units \cap sale[s].units = {}
  BY <1>1 DEF SoldOnce, Sale
<1>6. ASSUME NEW u \in Units
      PROVE  unit'[u].status = "sold" <=>
               \E t \in Sales : sale'[t].status = "approved" /\ u \in sale'[t].units
  <2>1. unit[u].status = "sold" <=>
          \E t \in Sales : sale[t].status = "approved" /\ u \in sale[t].units
    BY DEF SoldOnce
  <2> QED  BY <1>2, <1>3, <1>4, <2>1
<1>7. ASSUME NEW t \in Sales, NEW o \in Sales,
             sale'[t].status = "approved", sale'[o].status = "approved", t # o
      PROVE  sale'[t].units \cap sale'[o].units = {}
  <2>1. CASE t = s
    BY <1>3, <1>4, <1>5, <1>7, <2>1
  <2>2. CASE o = s
    BY <1>3, <1>4, <1>5, <1>7, <2>2
  <2>3. CASE t # s /\ o # s
    BY <1>3, <1>4, <1>7, <2>3 DEF SoldOnce
  <2> QED  BY <2>1, <2>2, <2>3
<1> QED  BY <1>6, <1>7 DEF SoldOnce

(* Only an approval sells, and the others leave sold units alone.          *)
LEMMA StepSellsOnce ==
  ASSUME Typed, SoldOnce, [Next]_vars
  PROVE  SoldOnce'
<1> USE DEF Typed, TypeOK
<1>1. CASE CreatesReceipt
  BY <1>1, SellsNothingKeeps DEF CreatesReceipt, CreateReceipt, Become, SellsNothing
<1>2. CASE \E d \in Receipts : PostReceipt(d)
  BY <1>2, SellsNothingKeeps DEF PostReceipt, Become, InStock, SellsNothing
<1>3. CASE \E d \in Receipts : DeleteReceipt(d)
  BY <1>3, SellsNothingKeeps DEF DeleteReceipt, Become, NoUnit, SellsNothing
<1>4. CASE Issues
  BY <1>4, SellsNothingKeeps DEF Issues, IssueStock, Become, InBag, SellsNothing
<1>5. CASE CreatesReturn
  BY <1>5, SellsNothingKeeps DEF CreatesReturn, CreateReturn, Become, Unit, SellsNothing
<1>6. CASE Verifies
  <2> PICK r \in Returns : \E us \in (SUBSET return[r].units) \ {{}} :
             \E decided \in [us -> Decisions] : VerifyReturn(r, decided)
    BY <1>6 DEF Verifies
  <2> PICK us \in SUBSET return[r].units : \E decided \in [us -> Decisions] : VerifyReturn(r, decided)
    OBVIOUS
  <2> PICK decided \in [us -> Decisions] : VerifyReturn(r, decided)
    OBVIOUS
  <2>1. \A u \in us : unit[u].status # "sold" /\ unit'[u].status # "sold"
    <3> SUFFICES ASSUME NEW u \in us PROVE unit[u].status # "sold" /\ unit'[u].status # "sold"
      OBVIOUS
    <3>1. u \in Units /\ return[r].employee \in Employees /\ decided[u] \in Decisions
      BY DEF VerifyReturn, ReturnsNamed, Return
    <3>2. unit[u].status = "returned" /\ unit'[u] = Decided(decided[u], return[r].employee)
      BY <3>1 DEF VerifyReturn, Become
    <3> QED  BY <3>1, <3>2, DecidedType
  <2>2. \A u \in Units \ us : unit'[u] = unit[u]
    BY DEF VerifyReturn, Become
  <2>3. UNCHANGED sale
    BY DEF VerifyReturn
  <2> QED  BY <2>1, <2>2, <2>3, SellsNothingKeeps DEF SellsNothing
<1>7. CASE WritesSale
  <2> PICK s \in Sales, e \in Employees, us \in SUBSET Units, submit \in BOOLEAN :
             CreateSale(s, e, us, submit) \/ UpdateSale(s, e, us, submit)
    BY <1>7 DEF WritesSale
  <2>1. sale[s].status # "approved" /\ sale'[s].status # "approved"
    BY DEF CreateSale, UpdateSale, Submitted
  <2>2. UNCHANGED unit /\ \A t \in Sales \ {s} : sale'[t] = sale[t]
    BY DEF CreateSale, UpdateSale
  <2> QED  BY <2>1, <2>2, SellsNothingKeeps DEF SellsNothing
<1>8. CASE \E s \in Sales : SubmitSale(s) \/ RejectSale(s)
  <2> PICK s \in Sales : SubmitSale(s) \/ RejectSale(s)
    BY <1>8
  <2> QED  BY SubmitOrReject, SellsNothingKeeps DEF SellsNothing
<1>9. CASE \E s \in Sales : ApproveSale(s)
  BY <1>9, ApprovalSellsOnce
<1>10. CASE UNCHANGED vars
  BY <1>10, SellsNothingKeeps DEF vars, SellsNothing
<1> QED  BY <1>1, <1>2, <1>3, <1>4, <1>5, <1>6, <1>7, <1>8, <1>9, <1>10, NextSplit

(* Two submitted sales may name the same unit; only one is ever approved.  *)
THEOREM SoldAtMostOnce == Spec => []SoldOnce
<1>1. Init => SoldOnce
  BY DEF Init, SoldOnce, NoUnit
<1> QED  BY <1>1, InitTyped, StepTyped, StepSellsOnce, PTL DEF Spec
-----------------------------------------------------------------------------
(* A unit that waits is named by an open return.                           *)

(* The voucher r is open and names u.                                      *)
Pending(r, u) == return[r].status = "submitted" /\ u \in return[r].units

(* A step after which no more units wait than before, and no return is     *)
(* closed.                                                                 *)
MakesNoneWait ==
  /\ \A u \in Units : unit'[u].status = "returned" => unit[u].status = "returned"
  /\ UNCHANGED return

(* Such a step leaves every unit that waits its return.                    *)
LEMMA MakesNoneWaitKeeps ==
  ASSUME ReturnedUnitsPending, MakesNoneWait
  PROVE  ReturnedUnitsPending'
BY DEF ReturnedUnitsPending, MakesNoneWait

(* A new voucher takes an unused id, and names the units that now wait.    *)
LEMMA ReturnKeepsPending ==
  ASSUME Typed, ReturnedUnitsPending, CreatesReturn
  PROVE  ReturnedUnitsPending'
<1> USE DEF Typed, TypeOK
<1> PICK r \in Returns, us \in SUBSET Units, e \in Employees : CreateReturn(r, us, e)
  BY DEF CreatesReturn
<1> SUFFICES ASSUME NEW u \in Units, unit'[u].status = "returned"
             PROVE  \E o \in Returns : Pending(o, u)'
  BY DEF ReturnedUnitsPending, Pending
<1>1. CASE u \in us
  BY <1>1 DEF CreateReturn, Pending
<1>2. CASE u \notin us
  <2>1. unit[u].status = "returned"
    BY <1>2 DEF CreateReturn, Become
  <2>2. PICK o \in Returns : Pending(o, u)
    BY <2>1 DEF ReturnedUnitsPending, Pending
  <2>3. o # r
    BY <2>2 DEF CreateReturn, Pending
  <2> QED  BY <2>2, <2>3 DEF CreateReturn, Pending
<1> QED  BY <1>1, <1>2

(* A voucher is closed only when none of its units waits any more, so      *)
(* that a unit which still waits is named by another one, or by this one   *)
(* and it stays open.                                                      *)
LEMMA VerificationKeepsPending ==
  ASSUME Typed, ReturnedUnitsPending, Verifies
  PROVE  ReturnedUnitsPending'
<1> USE DEF Typed, TypeOK
<1> PICK r \in Returns : \E us \in (SUBSET return[r].units) \ {{}} :
           \E decided \in [us -> Decisions] : VerifyReturn(r, decided)
  BY DEF Verifies
<1> PICK us \in SUBSET return[r].units : \E decided \in [us -> Decisions] : VerifyReturn(r, decided)
  OBVIOUS
<1> PICK decided \in [us -> Decisions] : VerifyReturn(r, decided)
  OBVIOUS
<1> SUFFICES ASSUME NEW u \in Units, unit'[u].status = "returned"
             PROVE  \E o \in Returns : Pending(o, u)'
  BY DEF ReturnedUnitsPending, Pending
<1>1. u \notin us
  <2> SUFFICES ASSUME u \in us PROVE FALSE
    OBVIOUS
  <2>1. return[r].employee \in Employees /\ decided[u] \in Decisions
    BY DEF VerifyReturn, ReturnsNamed
  <2>2. unit'[u] = Decided(decided[u], return[r].employee)
    BY DEF VerifyReturn, Become
  <2> QED  BY <2>1, <2>2, DecidedType
<1>2. unit[u].status = "returned"
  BY <1>1 DEF VerifyReturn, Become
<1>3. PICK o \in Returns : Pending(o, u)
  BY <1>2 DEF ReturnedUnitsPending, Pending
<1>4. CASE UNCHANGED return
  BY <1>3, <1>4 DEF Pending
<1>5. CASE ~ UNCHANGED return
  <2>1. /\ return' = [return EXCEPT ![r].status = "verified"]
        /\ \A w \in return[r].units \ us : unit[w].status # "returned"
    BY <1>5 DEF VerifyReturn
  <2>2. o # r
    BY <1>1, <1>2, <1>3, <2>1 DEF Pending
  <2> QED  BY <1>3, <2>1, <2>2 DEF Pending
<1> QED  BY <1>4, <1>5

(* Only new vouchers and verifications concern units that wait.            *)
LEMMA StepKeepsPending ==
  ASSUME Typed, ReturnedUnitsPending, [Next]_vars
  PROVE  ReturnedUnitsPending'
<1> USE DEF Typed, TypeOK
<1>1. CASE CreatesReceipt
  BY <1>1, MakesNoneWaitKeeps DEF CreatesReceipt, CreateReceipt, Become, MakesNoneWait
<1>2. CASE \E d \in Receipts : PostReceipt(d)
  BY <1>2, MakesNoneWaitKeeps DEF PostReceipt, Become, InStock, MakesNoneWait
<1>3. CASE \E d \in Receipts : DeleteReceipt(d)
  BY <1>3, MakesNoneWaitKeeps DEF DeleteReceipt, Become, NoUnit, MakesNoneWait
<1>4. CASE Issues
  BY <1>4, MakesNoneWaitKeeps DEF Issues, IssueStock, Become, InBag, MakesNoneWait
<1>5. CASE WritesSale
  BY <1>5, MakesNoneWaitKeeps DEF WritesSale, CreateSale, UpdateSale, MakesNoneWait
<1>6. CASE \E s \in Sales : SubmitSale(s) \/ RejectSale(s)
  BY <1>6, MakesNoneWaitKeeps DEF SubmitSale, RejectSale, MakesNoneWait
<1>7. CASE \E s \in Sales : ApproveSale(s)
  BY <1>7, MakesNoneWaitKeeps DEF ApproveSale, Become, NoUnit, MakesNoneWait
<1>8. CASE UNCHANGED vars
  BY <1>8, MakesNoneWaitKeeps DEF vars, MakesNoneWait
<1> QED
  BY <1>1, <1>2, <1>3, <1>4, <1>5, <1>6, <1>7, <1>8, ReturnKeepsPending,
     VerificationKeepsPending, NextSplit

(* However vouchers overlap and in however many parts they are decided, a  *)
(* unit that waits for verification can still be decided.                  *)
THEOREM WaitingUnitsDecidable == Spec => []ReturnedUnitsPending
<1>1. Init => ReturnedUnitsPending
  BY DEF Init, ReturnedUnitsPending, NoUnit
<1> QED  BY <1>1, InitTyped, StepTyped, StepKeepsPending, PTL DEF Spec
-----------------------------------------------------------------------------
(* Receipts own the units.                                                 *)

(* An id without a voucher names nothing: a receipt that takes it over     *)
(* loses no unit.                                                          *)
UnusedNamesNothing == \A d \in Receipts : receipt[d].status = "none" => receipt[d].units = {}

Owned == ReceiptsOwnUnits /\ UnusedNamesNothing

(* In stock: received, and posted.                                         *)
Posted(u) == unit[u].status \notin {"none", "received"}

(* A step of the documents about posted units: it creates, posts and       *)
(* deletes nothing, and returns and sales name posted units only.          *)
MovesPosted ==
  /\ UNCHANGED receipt
  /\ \A u \in Units : unit'[u] = unit[u] \/ (Posted(u) /\ Posted(u)')
  /\ \A r \in Returns : \A u \in return'[r].units : Posted(u)
  /\ \A s \in Sales : \A u \in sale'[s].units : Posted(u)

(* Such a step leaves the units to their receipts.                         *)
LEMMA MovesPostedKeeps ==
  ASSUME Typed, Typed', Owned, MovesPosted
  PROVE  Owned'
<1> USE DEF Typed, TypeOK
<1>1. \A u \in Units : Posted(u) => Posted(u)'
  BY DEF MovesPosted, Posted
<1>2. \A u \in Units : /\ unit'[u].status = "none" <=> unit[u].status = "none"
                       /\ unit'[u].status = "received" <=> unit[u].status = "received"
  BY DEF MovesPosted, Posted
<1>3. /\ \A u \in Units : unit'[u].status # "none" <=> \E d \in Receipts : u \in receipt'[d].units
      /\ \A d \in Receipts : \A u \in receipt'[d].units :
           receipt'[d].status = "draft" <=> unit'[u].status = "received"
  BY <1>2 DEF Owned, ReceiptsOwnUnits, MovesPosted, Receipt
<1>4. \A c, d \in Receipts : c # d => receipt'[c].units \cap receipt'[d].units = {}
  BY DEF Owned, ReceiptsOwnUnits, MovesPosted
<1>5. \A r \in Returns : \A u \in return'[r].units : unit'[u].status \notin {"none", "received"}
  BY <1>1 DEF MovesPosted, Posted, Return
<1>6. \A s \in Sales : \A u \in sale'[s].units : unit'[u].status \notin {"none", "received"}
  BY <1>1 DEF MovesPosted, Posted, Sale
<1>7. UnusedNamesNothing'
  BY DEF Owned, UnusedNamesNothing, MovesPosted
<1> QED  BY <1>3, <1>4, <1>5, <1>6, <1>7 DEF Owned, ReceiptsOwnUnits

(* What returns and sales name is posted.                                  *)
LEMMA NamedPosted ==
  ASSUME Owned
  PROVE  /\ \A r \in Returns : \A u \in return[r].units : Posted(u)
         /\ \A s \in Sales : \A u \in sale[s].units : Posted(u)
BY DEF Owned, ReceiptsOwnUnits, Posted

(* A draft takes an unused id and serials that no receipt names.           *)
LEMMA CreateKeepsOwned ==
  ASSUME Typed, Owned, NEW d \in Receipts, NEW us \in SUBSET Units, CreateReceipt(d, us)
  PROVE  Owned'
<1> USE DEF Typed, TypeOK
<1>1. /\ receipt'[d].units = us /\ receipt'[d].status = "draft" /\ receipt[d].units = {}
      /\ \A c \in Receipts \ {d} : receipt'[c] = receipt[c]
  BY DEF CreateReceipt, Owned, UnusedNamesNothing
<1>2. /\ \A u \in us : unit[u].status = "none" /\ unit'[u].status = "received"
      /\ \A u \in Units \ us : unit'[u] = unit[u]
  BY DEF CreateReceipt, Become
<1>3. \A c \in Receipts : receipt[c].units \cap us = {} /\ receipt[c].units \subseteq Units
  BY <1>2 DEF Owned, ReceiptsOwnUnits, Receipt
<1>4. \A u \in Units : unit'[u].status # "none" <=> \E c \in Receipts : u \in receipt'[c].units
  <2> SUFFICES ASSUME NEW u \in Units
               PROVE  unit'[u].status # "none" <=> \E c \in Receipts : u \in receipt'[c].units
    OBVIOUS
  <2>1. CASE u \in us
    BY <1>1, <1>2, <2>1
  <2>2. CASE u \notin us
    <3>1. unit'[u].status # "none" <=> \E c \in Receipts : u \in receipt[c].units
      BY <1>2, <2>2 DEF Owned, ReceiptsOwnUnits
    <3>2. \A c \in Receipts : u \in receipt'[c].units <=> u \in receipt[c].units
      BY <1>1, <2>2
    <3> QED  BY <3>1, <3>2
  <2> QED  BY <2>1, <2>2
<1>5. \A c \in Receipts : \A u \in receipt'[c].units :
        receipt'[c].status = "draft" <=> unit'[u].status = "received"
  BY <1>1, <1>2, <1>3 DEF Owned, ReceiptsOwnUnits
<1>6. \A b, c \in Receipts : b # c => receipt'[b].units \cap receipt'[c].units = {}
  BY <1>1, <1>3 DEF Owned, ReceiptsOwnUnits
<1>7. /\ \A r \in Returns : return'[r].units \cap us = {} /\ return'[r] = return[r]
      /\ \A s \in Sales : sale'[s].units \cap us = {} /\ sale'[s] = sale[s]
  <2>1. UNCHANGED <<return, sale>>
    BY DEF CreateReceipt
  <2>2. /\ \A r \in Returns : \A u \in return[r].units : unit[u].status # "none"
        /\ \A s \in Sales : \A u \in sale[s].units : unit[u].status # "none"
    BY DEF Owned, ReceiptsOwnUnits
  <2>3. \A u \in us : unit[u].status = "none"
    BY <1>2
  <2>4. /\ \A r \in Returns : return[r].units \cap us = {}
        /\ \A s \in Sales : sale[s].units \cap us = {}
    BY <2>2, <2>3
  <2> QED  BY <2>1, <2>4
<1>8. /\ \A r \in Returns : \A u \in return'[r].units : unit'[u].status \notin {"none", "received"}
      /\ \A s \in Sales : \A u \in sale'[s].units : unit'[u].status \notin {"none", "received"}
  BY <1>2, <1>7 DEF Owned, ReceiptsOwnUnits, Return, Sale
<1>9. UnusedNamesNothing'
  BY <1>1 DEF Owned, UnusedNamesNothing
<1> QED  BY <1>4, <1>5, <1>6, <1>8, <1>9 DEF Owned, ReceiptsOwnUnits

(* Posting turns the units of one draft, and of no other receipt.          *)
LEMMA PostKeepsOwned ==
  ASSUME Typed, Owned, NEW d \in Receipts, PostReceipt(d)
  PROVE  Owned'
<1> USE DEF Typed, TypeOK
<1> DEFINE us == receipt[d].units
<1>1. /\ receipt'[d].units = us /\ receipt'[d].status = "posted"
      /\ \A c \in Receipts \ {d} : receipt'[c] = receipt[c]
  BY DEF PostReceipt, Receipt
<1>2. /\ \A u \in us : u \in Units /\ unit[u].status = "received" /\ unit'[u].status = "available"
      /\ \A u \in Units \ us : unit'[u] = unit[u]
  BY DEF PostReceipt, Become, InStock, Receipt
<1>3. \A c \in Receipts : receipt'[c].units = receipt[c].units /\ receipt[c].units \subseteq Units
  BY <1>1 DEF Receipt
<1>4. \A u \in Units : unit'[u].status # "none" <=> \E c \in Receipts : u \in receipt'[c].units
  BY <1>2, <1>3 DEF Owned, ReceiptsOwnUnits
<1>5. \A b, c \in Receipts : b # c => receipt'[b].units \cap receipt'[c].units = {}
  BY <1>3 DEF Owned, ReceiptsOwnUnits
<1>6. \A c \in Receipts : \A u \in receipt'[c].units :
        receipt'[c].status = "draft" <=> unit'[u].status = "received"
  <2> SUFFICES ASSUME NEW c \in Receipts, NEW u \in receipt[c].units
               PROVE  receipt'[c].status = "draft" <=> unit'[u].status = "received"
    BY <1>3
  <2>1. CASE c = d
    BY <1>1, <1>2, <2>1
  <2>2. CASE c # d
    BY <1>1, <1>2, <1>3, <2>2 DEF Owned, ReceiptsOwnUnits
  <2> QED  BY <2>1, <2>2
<1>7. /\ \A r \in Returns : \A u \in return'[r].units : unit'[u].status \notin {"none", "received"}
      /\ \A s \in Sales : \A u \in sale'[s].units : unit'[u].status \notin {"none", "received"}
  BY <1>2 DEF PostReceipt, Owned, ReceiptsOwnUnits, Return, Sale
<1>8. UnusedNamesNothing'
  BY <1>1 DEF Owned, UnusedNamesNothing
<1> QED  BY <1>4, <1>5, <1>6, <1>7, <1>8 DEF Owned, ReceiptsOwnUnits

(* A deleted draft takes along its units, which nothing else names.        *)
LEMMA DeleteKeepsOwned ==
  ASSUME Typed, Owned, NEW d \in Receipts, DeleteReceipt(d)
  PROVE  Owned'
<1> USE DEF Typed, TypeOK
<1> DEFINE us == receipt[d].units
<1>1. /\ receipt'[d].units = {} /\ receipt'[d].status = "none"
      /\ \A c \in Receipts \ {d} : receipt'[c] = receipt[c]
  BY DEF DeleteReceipt
<1>2. /\ \A u \in us : u \in Units /\ unit'[u].status = "none"
      /\ \A u \in Units \ us : unit'[u] = unit[u]
  BY DEF DeleteReceipt, Become, NoUnit, Receipt
<1>3. \A c \in Receipts \ {d} : receipt[c].units \cap us = {} /\ receipt[c].units \subseteq Units
  BY DEF Owned, ReceiptsOwnUnits, Receipt
<1>4. \A u \in Units : unit'[u].status # "none" <=> \E c \in Receipts : u \in receipt'[c].units
  <2> SUFFICES ASSUME NEW u \in Units
               PROVE  unit'[u].status # "none" <=> \E c \in Receipts : u \in receipt'[c].units
    OBVIOUS
  <2>1. CASE u \in us
    <3>1. \A c \in Receipts : u \notin receipt'[c].units
      BY <1>1, <1>3, <2>1
    <3> QED  BY <1>2, <2>1, <3>1
  <2>2. CASE u \notin us
    <3>1. unit'[u].status # "none" <=> \E c \in Receipts : u \in receipt[c].units
      BY <1>2, <2>2 DEF Owned, ReceiptsOwnUnits
    <3>2. \A c \in Receipts : u \in receipt'[c].units <=> u \in receipt[c].units
      BY <1>1, <2>2
    <3> QED  BY <3>1, <3>2
  <2> QED  BY <2>1, <2>2
<1>5. \A c \in Receipts : \A u \in receipt'[c].units :
        receipt'[c].status = "draft" <=> unit'[u].status = "received"
  BY <1>1, <1>2, <1>3 DEF Owned, ReceiptsOwnUnits
<1>6. \A b, c \in Receipts : b # c => receipt'[b].units \cap receipt'[c].units = {}
  BY <1>1 DEF Owned, ReceiptsOwnUnits
<1>7. /\ \A r \in Returns : \A u \in return'[r].units : unit'[u].status \notin {"none", "received"}
      /\ \A s \in Sales : \A u \in sale'[s].units : unit'[u].status \notin {"none", "received"}
  BY <1>2 DEF DeleteReceipt, Owned, ReceiptsOwnUnits, Return, Sale
<1>8. UnusedNamesNothing'
  BY <1>1 DEF Owned, UnusedNamesNothing
<1> QED  BY <1>4, <1>5, <1>6, <1>7, <1>8 DEF Owned, ReceiptsOwnUnits

(* Every other operation is about posted units.                            *)
LEMMA StepKeepsOwned ==
  ASSUME Typed, Owned, [Next]_vars
  PROVE  Owned'
<1> USE DEF Typed, TypeOK
<1>t. Typed'
  BY StepTyped
<1>p. /\ \A r \in Returns : \A u \in return[r].units : Posted(u)
      /\ \A s \in Sales : \A u \in sale[s].units : Posted(u)
  BY NamedPosted
<1>1. CASE Issues
  <2>1. MovesPosted
    BY <1>1, <1>p DEF Issues, IssueStock, Become, InBag, MovesPosted, Posted
  <2> QED  BY <1>t, <2>1, MovesPostedKeeps
<1>2. CASE CreatesReturn
  <2> PICK r \in Returns, us \in SUBSET Units, e \in Employees : CreateReturn(r, us, e)
    BY <1>2 DEF CreatesReturn
  <2>1. \A u \in us : Posted(u) /\ Posted(u)'
    BY DEF CreateReturn, Become, Posted, Unit
  <2>2. \A u \in Units \ us : unit'[u] = unit[u]
    BY DEF CreateReturn, Become
  <2>3. \A o \in Returns : \A u \in return'[o].units : Posted(u)
    BY <1>p, <2>1 DEF CreateReturn
  <2>4. UNCHANGED <<receipt, sale>>
    BY DEF CreateReturn
  <2>5. MovesPosted
    BY <1>p, <2>1, <2>2, <2>3, <2>4 DEF MovesPosted
  <2> QED  BY <1>t, <2>5, MovesPostedKeeps
<1>3. CASE Verifies
  <2> PICK r \in Returns : \E us \in (SUBSET return[r].units) \ {{}} :
             \E decided \in [us -> Decisions] : VerifyReturn(r, decided)
    BY <1>3 DEF Verifies
  <2> PICK us \in SUBSET return[r].units : \E decided \in [us -> Decisions] : VerifyReturn(r, decided)
    OBVIOUS
  <2> PICK decided \in [us -> Decisions] : VerifyReturn(r, decided)
    OBVIOUS
  <2>1. ASSUME NEW u \in Units PROVE unit'[u] = unit[u] \/ (Posted(u) /\ Posted(u)')
    <3>1. CASE u \in us
      <4>1. return[r].employee \in Employees /\ decided[u] \in Decisions
        BY <3>1 DEF VerifyReturn, ReturnsNamed
      <4>2. unit[u].status = "returned" /\ unit'[u] = Decided(decided[u], return[r].employee)
        BY <3>1 DEF VerifyReturn, Become
      <4> QED  BY <4>1, <4>2, DecidedType DEF Posted
    <3>2. CASE u \notin us
      BY <3>2 DEF VerifyReturn, Become
    <3> QED  BY <3>1, <3>2
  <2>2. \/ UNCHANGED return
        \/ return' = [return EXCEPT ![r].status = "verified"]
    BY DEF VerifyReturn
  <2>3. \A o \in Returns : return'[o].units = return[o].units
    BY <2>2 DEF Return
  <2>4. UNCHANGED <<receipt, sale>>
    BY DEF VerifyReturn
  <2>5. MovesPosted
    BY <1>p, <2>1, <2>3, <2>4 DEF MovesPosted
  <2> QED  BY <1>t, <2>5, MovesPostedKeeps
<1>4. CASE WritesSale
  <2> PICK s \in Sales, e \in Employees, us \in SUBSET Units, submit \in BOOLEAN :
             CreateSale(s, e, us, submit) \/ UpdateSale(s, e, us, submit)
    BY <1>4 DEF WritesSale
  <2>1. \A u \in us : Posted(u)
    BY <1>p DEF CreateSale, UpdateSale, Sellable, Posted
  <2>2. \A t \in Sales : \A u \in sale'[t].units : Posted(u)
    BY <1>p, <2>1 DEF CreateSale, UpdateSale
  <2>3. UNCHANGED <<unit, receipt, return>>
    BY DEF CreateSale, UpdateSale
  <2>4. MovesPosted
    BY <1>p, <2>2, <2>3 DEF MovesPosted
  <2> QED  BY <1>t, <2>4, MovesPostedKeeps
<1>5. CASE \E s \in Sales : SubmitSale(s) \/ RejectSale(s)
  <2> PICK s \in Sales : SubmitSale(s) \/ RejectSale(s)
    BY <1>5
  <2>1. MovesPosted
    BY <1>p, SubmitOrReject DEF MovesPosted
  <2> QED  BY <1>t, <2>1, MovesPostedKeeps
<1>6. CASE \E s \in Sales : ApproveSale(s)
  <2> PICK s \in Sales : ApproveSale(s)
    BY <1>6
  <2>1. \A u \in Units : unit'[u] = unit[u] \/ (Posted(u) /\ Posted(u)')
    BY DEF ApproveSale, Become, NoUnit, Posted
  <2>2. /\ UNCHANGED <<receipt, return>>
        /\ \A t \in Sales : sale'[t].units = sale[t].units
    BY SaleTurned DEF ApproveSale
  <2>3. MovesPosted
    BY <1>p, <2>1, <2>2 DEF MovesPosted
  <2> QED  BY <1>t, <2>3, MovesPostedKeeps
<1>7. CASE UNCHANGED vars
  BY <1>7 DEF vars, Owned, ReceiptsOwnUnits, UnusedNamesNothing
<1> QED
  BY <1>1, <1>2, <1>3, <1>4, <1>5, <1>6, <1>7, CreateKeepsOwned, PostKeepsOwned,
     DeleteKeepsOwned, NextSplit DEF CreatesReceipt

(* A unit exists exactly while one receipt names it, and nothing that      *)
(* another document names is deleted with a draft.                         *)
THEOREM UnitsHaveReceipts == Spec => []ReceiptsOwnUnits
<1>1. Init => Owned
  BY DEF Init, Owned, ReceiptsOwnUnits, UnusedNamesNothing, NoUnit
<1>2. Owned => ReceiptsOwnUnits
  BY DEF Owned
<1> QED  BY <1>1, <1>2, InitTyped, StepTyped, StepKeepsOwned, PTL DEF Spec

-----------------------------------------------------------------------------
(* iTopUp balances                                                         *)

(* What a SELECT has found are rows of the holder it was about.            *)
FoundRows ==
  \A q \in Transfers :
    /\ topupFound[q] \subseteq topupRow
    /\ topupPc[q] \in {"lock from", "lock to"} => \A r \in topupFound[q] : HolderOf(r) = Side(q)

(* A request's row is there when the request is done, and has no money     *)
(* before.                                                                 *)
NewRows ==
  /\ \A q \in Transfers : q \in topupRow => topupPc[q] = "done"
  /\ \A r \in TopupRows \ topupRow : topupMoney[r] = 0

(* What a request is going to commit is locked by it, and is what the      *)
(* table and its ledger row say.                                           *)
HeldRows ==
  \A q \in Transfers : \A r \in DOMAIN topupHas[q] :
    /\ r \in topupRow \cup {q}
    /\ topupLock[r] = q
    /\ topupHas[q][r] = topupMoney[r] + Tells(q, r)

(* A lock is held by a request that is under way, on a row that others     *)
(* see or that it inserts.                                                 *)
LiveLocks ==
  \A r \in TopupRows :
    topupLock[r] # Outside =>
      /\ topupPc[topupLock[r]] \notin {"new", "done", "refused"}
      /\ r \in topupRow \cup {topupLock[r]}

(* A row that is inserted and not committed, with the holder it is for     *)
Inserts(q) == topupLock[q] = q /\ q \notin topupRow /\ HolderOf(q) \in Staff

(* It is the only one of its holder.                                       *)
OneOfAKey ==
  /\ \A r, s \in topupRow : HolderOf(r) \in Staff /\ HolderOf(r) = HolderOf(s) => r = s
  /\ \A q \in Transfers : Inserts(q) =>
       /\ \A r \in topupRow : HolderOf(r) # HolderOf(q)
       /\ \A p \in Transfers : Inserts(p) /\ HolderOf(p) = HolderOf(q) => p = q

TopupInv ==
  TopupTypeOK /\ FoundRows /\ NewRows /\ HeldRows /\ LiveLocks /\ OneOfAKey /\ BooksAgree

-----------------------------------------------------------------------------
(* Data                                                                    *)

(* What is known of a request and of the rows.                             *)
LEMMA Orders ==
  ASSUME NEW q \in Transfers
  PROVE  /\ Order[q].from \in Holders \cup {Outside} /\ Order[q].to \in Holders \cup {Outside}
         /\ Order[q].from # Order[q].to
         /\ Order[q].amount \in Nat
         /\ q \in TopupRows /\ q \notin Holders /\ q # Outside /\ Outside \notin Holders
         /\ HolderOf(q) = Order[q].to
         /\ Outside \notin Transfers
BY TopupAssumption DEF OrderType, TopupRows, HolderOf

(* A session without changes has no row.                                   *)
LEMMA NoMoneyEmpty == DOMAIN NoMoney = {} /\ NoMoney \in [DOMAIN NoMoney -> Nat]
BY DEF NoMoney

-----------------------------------------------------------------------------
(* The three kinds of steps                                                *)

(* A step that changes neither tables nor locks keeps what they say.       *)
LEMMA QuietStep ==
  ASSUME TopupInv, NEW q \in Transfers, NEW step \in TopupSteps \ {"new", "done", "refused"},
         topupPc[q] \notin {"done", "refused"}, Goes(q, step),
         topupFound' \in [Transfers -> SUBSET topupRow],
         FoundRows',
         UNCHANGED <<topupTables, topupLock, topupHas>>
  PROVE  TopupInv'
<1> USE DEF topupTables
<1>1. TopupTypeOK'
  <2>1. topupPc' \in [Transfers -> TopupSteps] BY DEF TopupInv, TopupTypeOK, Goes
  <2>2. topupFound' \in [Transfers -> SUBSET TopupRows]
    BY DEF TopupInv, TopupTypeOK
  <2> QED BY <2>1, <2>2 DEF TopupInv, TopupTypeOK
<1>2. NewRows' BY DEF TopupInv, TopupTypeOK, NewRows, Goes
<1>3. HeldRows' BY DEF TopupInv, HeldRows, Tells, HolderOf
<1>4. LiveLocks'
  BY DEF TopupInv, TopupTypeOK, LiveLocks, Goes, TopupSteps
<1>5. OneOfAKey' BY DEF TopupInv, OneOfAKey, Inserts, HolderOf
<1>6. BooksAgree' BY DEF TopupInv, BooksAgree
<1> QED BY <1>1, <1>2, <1>3, <1>4, <1>5, <1>6 DEF TopupInv

(* A request that takes a lock and changes the balance of the row.         *)
LEMMA TakingStep ==
  ASSUME TopupInv, NEW q \in Transfers, NEW r \in topupRow \cup {q},
         NEW step \in TopupSteps \ {"new", "done", "refused", "lock from", "lock to"},
         topupPc[q] \in {"lock from", "lock to", "insert"}, Goes(q, step),
         NEW money \in Nat, money = topupMoney[r] + Tells(q, r), Sets(q, r, money),
         topupLock[r] \in {Outside, q},
         topupLock' = [topupLock EXCEPT ![r] = q],
         OneOfAKey',
         UNCHANGED <<topupTables, topupFound>>
  PROVE  TopupInv'
<1> USE DEF topupTables
<1>r. r \in TopupRows BY Orders DEF TopupInv, TopupTypeOK
<1>l. topupLock'[r] = q /\ \A s \in TopupRows : s # r => topupLock'[s] = topupLock[s]
  BY <1>r DEF TopupInv, TopupTypeOK
<1>h. /\ topupHas'[q] = Put(topupHas[q], r, money)
      /\ \A p \in Transfers : p # q => topupHas'[p] = topupHas[p]
  BY DEF TopupInv, TopupTypeOK, Sets
<1>v. /\ DOMAIN topupHas'[q] = DOMAIN topupHas[q] \cup {r}
      /\ topupHas'[q][r] = money
      /\ \A s \in DOMAIN topupHas[q] : s # r => topupHas'[q][s] = topupHas[q][s]
  <2>1. topupHas'[q] = Put(topupHas[q], r, money) BY <1>h
  <2> QED BY <2>1 DEF Put
<1>p. topupPc'[q] = step /\ \A p \in Transfers : p # q => topupPc'[p] = topupPc[p]
  BY DEF TopupInv, TopupTypeOK, Goes
<1>1. TopupTypeOK'
  <2>1. topupPc' \in [Transfers -> TopupSteps] BY DEF TopupInv, TopupTypeOK, Goes
  <2>2. topupLock' \in [TopupRows -> Transfers \cup {Outside}]
    BY <1>r DEF TopupInv, TopupTypeOK
  <2>3. DOMAIN topupHas' = Transfers BY DEF TopupInv, TopupTypeOK, Sets
  <2>4. ASSUME NEW p \in Transfers
        PROVE  /\ DOMAIN topupHas'[p] \subseteq TopupRows
               /\ topupHas'[p] \in [DOMAIN topupHas'[p] -> Nat]
    <3>1. CASE p = q
      <4>1. topupHas'[p] = Put(topupHas[q], r, money) BY <1>h, <3>1
      <4>2. topupHas[q] \in [DOMAIN topupHas[q] -> Nat] /\ DOMAIN topupHas[q] \subseteq TopupRows
        BY DEF TopupInv, TopupTypeOK
      <4>3. Put(topupHas[q], r, money) \in [DOMAIN topupHas[q] \cup {r} -> Nat]
        BY <4>2 DEF Put
      <4> QED BY <1>r, <1>v, <3>1, <4>1, <4>2, <4>3
    <3>2. CASE p # q
      <4>1. topupHas'[p] = topupHas[p] BY <1>h, <3>2
      <4> QED BY <4>1 DEF TopupInv, TopupTypeOK
    <3> QED BY <3>1, <3>2
  <2> QED BY <2>1, <2>2, <2>3, <2>4 DEF TopupInv, TopupTypeOK
<1>2. FoundRows'
  <2> SUFFICES ASSUME NEW p \in Transfers
               PROVE  /\ topupFound[p] \subseteq topupRow
                      /\ topupPc'[p] \in {"lock from", "lock to"} =>
                           \A s \in topupFound[p] : HolderOf(s) = Side(p)'
    BY DEF FoundRows, HolderOf
  <2>1. CASE p = q BY <1>p, <2>1 DEF TopupInv, FoundRows
  <2>2. CASE p # q
    <3>1. topupPc'[p] = topupPc[p] /\ Side(p)' = Side(p) BY <1>p, <2>2 DEF Side
    <3> QED BY <3>1 DEF TopupInv, FoundRows
  <2> QED BY <2>1, <2>2
<1>3. NewRows' BY DEF TopupInv, TopupTypeOK, NewRows, Goes
<1>4. HeldRows'
  <2> SUFFICES ASSUME NEW p \in Transfers, NEW s \in DOMAIN topupHas'[p]
               PROVE  /\ s \in topupRow \cup {p}
                      /\ topupLock'[s] = p
                      /\ topupHas'[p][s] = topupMoney[s] + Tells(p, s)
    BY DEF HeldRows, Tells, HolderOf
  <2>1. CASE p = q
    <3>1. CASE s = r BY <1>v, <1>l, <2>1, <3>1
    <3>2. CASE s # r
      <4>1. s \in DOMAIN topupHas[q] /\ topupHas'[p][s] = topupHas[q][s]
        BY <1>v, <2>1, <3>2
      <4>2. s \in TopupRows BY <4>1 DEF TopupInv, TopupTypeOK
      <4>3. /\ s \in topupRow \cup {q} /\ topupLock[s] = q
            /\ topupHas[q][s] = topupMoney[s] + Tells(q, s)
        BY <4>1 DEF TopupInv, HeldRows
      <4> QED BY <1>l, <2>1, <3>2, <4>1, <4>2, <4>3
    <3> QED BY <3>1, <3>2
  <2>2. CASE p # q
    <3>1. topupHas'[p] = topupHas[p] BY <1>h, <2>2
    <3>2. /\ s \in topupRow \cup {p} /\ topupLock[s] = p
          /\ topupHas[p][s] = topupMoney[s] + Tells(p, s)
      BY <3>1 DEF TopupInv, HeldRows
    <3>3. s # r BY <2>2, <3>2, Orders
    <3>4. s \in TopupRows BY <3>1 DEF TopupInv, TopupTypeOK
    <3> QED BY <1>l, <3>1, <3>2, <3>3, <3>4
  <2> QED BY <2>1, <2>2
<1>5. LiveLocks'
  <2> SUFFICES ASSUME NEW s \in TopupRows, topupLock'[s] # Outside
               PROVE  /\ topupPc'[topupLock'[s]] \notin {"new", "done", "refused"}
                      /\ s \in topupRow' \cup {topupLock'[s]}
    BY DEF LiveLocks
  <2>1. topupLock'[s] \in Transfers BY <1>1 DEF TopupTypeOK
  <2>2. CASE topupLock'[s] = q
    <3>1. s # r => s \in topupRow \cup {q} BY <1>l, <2>2 DEF TopupInv, LiveLocks
    <3> QED BY <1>p, <2>2, <3>1 DEF TopupSteps
  <2>3. CASE topupLock'[s] # q
    <3>1. topupLock'[s] = topupLock[s] BY <1>l, <2>3
    <3> QED BY <1>p, <2>1, <2>3, <3>1 DEF TopupInv, LiveLocks
  <2> QED BY <2>2, <2>3
<1>6. BooksAgree' BY DEF TopupInv, BooksAgree
<1> QED BY <1>1, <1>2, <1>3, <1>4, <1>5, <1>6 DEF TopupInv

(* A request that ends frees its locks, and nobody else has one of them.   *)
LEMMA Freed ==
  ASSUME TopupInv, NEW q \in Transfers,
         topupLock' = [r \in TopupRows |-> IF topupLock[r] = q THEN Outside ELSE topupLock[r]],
         topupHas' = [topupHas EXCEPT ![q] = NoMoney],
         topupFound' = [topupFound EXCEPT ![q] = {}],
         NEW step \in {"done", "refused"}, Goes(q, step)
  PROVE  /\ topupPc'[q] = step /\ topupFound'[q] = {} /\ DOMAIN topupHas'[q] = {}
         /\ \A p \in Transfers : p # q =>
              topupPc'[p] = topupPc[p] /\ topupFound'[p] = topupFound[p] /\ topupHas'[p] = topupHas[p]
         /\ \A r \in TopupRows : topupLock'[r] # q
         /\ \A r \in TopupRows : topupLock[r] # q => topupLock'[r] = topupLock[r]
         /\ topupLock' \in [TopupRows -> Transfers \cup {Outside}]
         /\ topupPc' \in [Transfers -> TopupSteps]
         /\ topupFound' \in [Transfers -> SUBSET TopupRows]
         /\ DOMAIN topupHas' = Transfers
         /\ \A p \in Transfers :
              DOMAIN topupHas'[p] \subseteq TopupRows /\ topupHas'[p] \in [DOMAIN topupHas'[p] -> Nat]
<1>1. topupPc'[q] = step /\ \A p \in Transfers : p # q => topupPc'[p] = topupPc[p]
  BY DEF TopupInv, TopupTypeOK, Goes
<1>2. topupFound'[q] = {} /\ \A p \in Transfers : p # q => topupFound'[p] = topupFound[p]
  BY DEF TopupInv, TopupTypeOK
<1>3. topupHas'[q] = NoMoney /\ \A p \in Transfers : p # q => topupHas'[p] = topupHas[p]
  BY DEF TopupInv, TopupTypeOK
<1>4. topupLock' \in [TopupRows -> Transfers \cup {Outside}]
  BY DEF TopupInv, TopupTypeOK
<1>5. topupPc' \in [Transfers -> TopupSteps]
  BY DEF TopupInv, TopupTypeOK, Goes, TopupSteps
<1>6. topupFound' \in [Transfers -> SUBSET TopupRows] /\ DOMAIN topupHas' = Transfers
  BY DEF TopupInv, TopupTypeOK
<1>7. ASSUME NEW p \in Transfers
      PROVE  DOMAIN topupHas'[p] \subseteq TopupRows /\ topupHas'[p] \in [DOMAIN topupHas'[p] -> Nat]
  <2>1. CASE p = q BY <1>3, <2>1, NoMoneyEmpty
  <2>2. CASE p # q BY <1>3, <2>2 DEF TopupInv, TopupTypeOK
  <2> QED BY <2>1, <2>2
<1>8. \A r \in TopupRows :
        topupLock'[r] # q /\ (topupLock[r] # q => topupLock'[r] = topupLock[r])
  BY Orders
<1>9. DOMAIN topupHas'[q] = {} BY <1>3, NoMoneyEmpty
<1> HIDE DEF Goes
<1> QED BY <1>1, <1>2, <1>3, <1>4, <1>5, <1>6, <1>7, <1>8, <1>9

(* A request that is refused leaves the tables as they were.               *)
LEMMA RefusedKeeps ==
  ASSUME TopupInv, NEW q \in Transfers, topupPc[q] # "done", Refused(q)
  PROVE  TopupInv'
<1> USE DEF topupTables
<1>f. /\ topupPc'[q] = "refused" /\ topupFound'[q] = {} /\ DOMAIN topupHas'[q] = {}
      /\ \A p \in Transfers : p # q =>
           topupPc'[p] = topupPc[p] /\ topupFound'[p] = topupFound[p] /\ topupHas'[p] = topupHas[p]
      /\ \A r \in TopupRows : topupLock'[r] # q
      /\ \A r \in TopupRows : topupLock[r] # q => topupLock'[r] = topupLock[r]
  BY Freed DEF Refused
<1>t. UNCHANGED <<topupRow, topupMoney, topupTold>> BY DEF Refused
<1>1. TopupTypeOK'
  <2>1. /\ topupLock' \in [TopupRows -> Transfers \cup {Outside}]
        /\ topupPc' \in [Transfers -> TopupSteps]
        /\ topupFound' \in [Transfers -> SUBSET TopupRows]
        /\ DOMAIN topupHas' = Transfers
        /\ \A p \in Transfers :
             DOMAIN topupHas'[p] \subseteq TopupRows /\ topupHas'[p] \in [DOMAIN topupHas'[p] -> Nat]
    BY Freed DEF Refused
  <2> QED BY <1>t, <2>1 DEF TopupInv, TopupTypeOK
<1>2. FoundRows'
  <2> SUFFICES ASSUME NEW p \in Transfers
               PROVE  /\ topupFound'[p] \subseteq topupRow
                      /\ topupPc'[p] \in {"lock from", "lock to"} =>
                           \A s \in topupFound'[p] : HolderOf(s) = Side(p)'
    BY <1>t DEF FoundRows, HolderOf
  <2>1. CASE p = q BY <1>f, <2>1
  <2>2. CASE p # q
    <3>1. topupPc'[p] = topupPc[p] /\ Side(p)' = Side(p) BY <1>f, <2>2 DEF Side
    <3> QED BY <1>f, <2>2, <3>1 DEF TopupInv, FoundRows
  <2> QED BY <2>1, <2>2
<1>3. NewRows' BY <1>f, <1>t DEF TopupInv, NewRows
<1>4. HeldRows'
  <2> SUFFICES ASSUME NEW p \in Transfers, NEW s \in DOMAIN topupHas'[p]
               PROVE  /\ s \in topupRow \cup {p}
                      /\ topupLock'[s] = p
                      /\ topupHas'[p][s] = topupMoney[s] + Tells(p, s)
    BY <1>t DEF HeldRows, Tells, HolderOf
  <2>1. p # q /\ topupHas'[p] = topupHas[p] BY <1>f
  <2>2. s \in TopupRows BY <2>1 DEF TopupInv, TopupTypeOK
  <2> QED BY <1>f, <2>1, <2>2 DEF TopupInv, HeldRows
<1>5. LiveLocks'
  <2> SUFFICES ASSUME NEW s \in TopupRows, topupLock'[s] # Outside
               PROVE  /\ topupPc'[topupLock'[s]] \notin {"new", "done", "refused"}
                      /\ s \in topupRow' \cup {topupLock'[s]}
    BY DEF LiveLocks
  <2>1. topupLock'[s] \in Transfers BY <1>1 DEF TopupTypeOK
  <2>2. topupLock'[s] # q BY <1>f
  <2>3. topupLock'[s] = topupLock[s] BY <1>f DEF Refused
  <2> QED BY <1>f, <1>t, <2>1, <2>2, <2>3 DEF TopupInv, LiveLocks
<1>6. OneOfAKey'
  <2>1. ASSUME NEW p \in Transfers, Inserts(p)' PROVE Inserts(p)
    BY <1>f, <1>t, <2>1, Orders DEF Refused, Inserts, HolderOf
  <2> QED BY <1>t, <2>1 DEF TopupInv, OneOfAKey, HolderOf
<1>7. BooksAgree' BY <1>t DEF TopupInv, BooksAgree
<1> QED BY <1>1, <1>2, <1>3, <1>4, <1>5, <1>6, <1>7 DEF TopupInv

(* A request that commits writes what it holds.                            *)
LEMMA CommitKeeps ==
  ASSUME TopupInv, NEW q \in Transfers, TopupCommit(q)
  PROVE  TopupInv'
<1>f. /\ topupPc'[q] = "done" /\ topupFound'[q] = {} /\ DOMAIN topupHas'[q] = {}
      /\ \A p \in Transfers : p # q =>
           topupPc'[p] = topupPc[p] /\ topupFound'[p] = topupFound[p] /\ topupHas'[p] = topupHas[p]
      /\ \A r \in TopupRows : topupLock'[r] # q
      /\ \A r \in TopupRows : topupLock[r] # q => topupLock'[r] = topupLock[r]
  BY Freed DEF TopupCommit
<1>r. topupRow' = topupRow \cup DOMAIN topupHas[q] BY DEF TopupCommit
<1>o. \A p \in Transfers : p # q => p \notin DOMAIN topupHas[q] \/ p \in topupRow
  BY DEF TopupInv, HeldRows
<1>m. \A r \in TopupRows :
        IF r \in DOMAIN topupHas[q]
        THEN topupMoney'[r] = topupMoney[r] + Tells(q, r) /\ topupTold'[r] = topupTold[r] + Tells(q, r)
        ELSE topupMoney'[r] = topupMoney[r] /\ topupTold'[r] = topupTold[r]
  <2>1. \A r \in TopupRows :
        IF r \in DOMAIN topupHas[q]
        THEN topupMoney'[r] = topupHas[q][r] /\ topupTold'[r] = topupTold[r] + Tells(q, r)
        ELSE topupMoney'[r] = topupMoney[r] /\ topupTold'[r] = topupTold[r]
    BY DEF TopupCommit
  <2> QED BY <2>1 DEF TopupInv, HeldRows
<1>1. TopupTypeOK'
  <2>1. /\ topupLock' \in [TopupRows -> Transfers \cup {Outside}]
        /\ topupPc' \in [Transfers -> TopupSteps]
        /\ topupFound' \in [Transfers -> SUBSET TopupRows]
        /\ DOMAIN topupHas' = Transfers
        /\ \A p \in Transfers :
             DOMAIN topupHas'[p] \subseteq TopupRows /\ topupHas'[p] \in [DOMAIN topupHas'[p] -> Nat]
    BY Freed DEF TopupCommit
  <2>2. topupRow' \subseteq TopupRows BY <1>r DEF TopupInv, TopupTypeOK
  <2>3. topupMoney' \in [TopupRows -> Nat] BY DEF TopupInv, TopupTypeOK, TopupCommit
  <2>4. \A r \in TopupRows : Tells(q, r) \in Int BY Orders DEF Tells
  <2>5. topupTold' \in [TopupRows -> Int] BY <2>4 DEF TopupInv, TopupTypeOK, TopupCommit
  <2> QED BY <2>1, <2>2, <2>3, <2>5 DEF TopupTypeOK
<1>2. FoundRows'
  <2> SUFFICES ASSUME NEW p \in Transfers
               PROVE  /\ topupFound'[p] \subseteq topupRow'
                      /\ topupPc'[p] \in {"lock from", "lock to"} =>
                           \A s \in topupFound'[p] : HolderOf(s) = Side(p)'
    BY DEF FoundRows, HolderOf
  <2>1. CASE p = q BY <1>f, <2>1
  <2>2. CASE p # q
    <3>1. topupPc'[p] = topupPc[p] /\ Side(p)' = Side(p) BY <1>f, <2>2 DEF Side
    <3> QED BY <1>f, <1>r, <2>2, <3>1 DEF TopupInv, FoundRows
  <2> QED BY <2>1, <2>2
<1>3. NewRows'
  <2>1. ASSUME NEW p \in Transfers, p \in topupRow' PROVE topupPc'[p] = "done"
    BY <1>f, <1>r, <1>o, <2>1 DEF TopupInv, NewRows
  <2>2. ASSUME NEW r \in TopupRows, r \notin topupRow' PROVE topupMoney'[r] = 0
    BY <1>r, <1>m, <2>2 DEF TopupInv, NewRows
  <2> QED BY <2>1, <2>2 DEF NewRows
<1>4. HeldRows'
  <2> SUFFICES ASSUME NEW p \in Transfers, NEW s \in DOMAIN topupHas'[p]
               PROVE  /\ s \in topupRow' \cup {p}
                      /\ topupLock'[s] = p
                      /\ topupHas'[p][s] = topupMoney'[s] + Tells(p, s)
    BY DEF HeldRows, Tells, HolderOf
  <2>1. p # q /\ topupHas'[p] = topupHas[p] BY <1>f
  <2>2. s \in TopupRows BY <2>1 DEF TopupInv, TopupTypeOK
  <2>3. /\ s \in topupRow \cup {p} /\ topupLock[s] = p
        /\ topupHas[p][s] = topupMoney[s] + Tells(p, s)
    BY <2>1 DEF TopupInv, HeldRows
  <2>4. s \notin DOMAIN topupHas[q] BY <2>1, <2>3 DEF TopupInv, HeldRows
  <2>5. topupMoney'[s] = topupMoney[s] BY <1>m, <2>2, <2>4
  <2> QED BY <1>f, <1>r, <2>1, <2>2, <2>3, <2>5
<1>5. LiveLocks'
  <2> SUFFICES ASSUME NEW s \in TopupRows, topupLock'[s] # Outside
               PROVE  /\ topupPc'[topupLock'[s]] \notin {"new", "done", "refused"}
                      /\ s \in topupRow' \cup {topupLock'[s]}
    BY DEF LiveLocks
  <2>1. topupLock'[s] \in Transfers BY <1>1 DEF TopupTypeOK
  <2>2. topupLock'[s] # q BY <1>f
  <2>3. topupLock'[s] = topupLock[s] BY <1>f DEF TopupCommit
  <2> QED BY <1>f, <1>r, <2>1, <2>2, <2>3 DEF TopupInv, LiveLocks
<1>6. OneOfAKey'
  <2>1. ASSUME NEW p \in Transfers, Inserts(p)'
        PROVE  p # q /\ Inserts(p)
    BY <1>f, <1>r, <2>1, Orders DEF TopupCommit, Inserts, HolderOf
  <2>2. ASSUME NEW r \in topupRow', r \notin topupRow, HolderOf(r) \in Staff
        PROVE  r = q /\ Inserts(q)
    BY <1>r, <2>2 DEF TopupInv, HeldRows, Inserts
  <2>3. ASSUME NEW r \in topupRow', NEW s \in topupRow', HolderOf(r) \in Staff,
               HolderOf(r) = HolderOf(s)
        PROVE  r = s
    BY <2>2, <2>3 DEF TopupInv, OneOfAKey
  <2>4. ASSUME NEW p \in Transfers, Inserts(p)', NEW r \in topupRow'
        PROVE  HolderOf(r) # HolderOf(p)
    <3>1. p # q /\ Inserts(p) BY <2>1, <2>4
    <3>2. CASE r \in topupRow BY <3>1, <3>2 DEF TopupInv, OneOfAKey
    <3>3. CASE r \notin topupRow /\ HolderOf(r) = HolderOf(p)
      <4>1. r = q /\ Inserts(q) BY <2>2, <2>4, <3>1, <3>3 DEF Inserts
      <4> QED BY <3>1, <3>3, <4>1 DEF TopupInv, OneOfAKey
    <3> QED BY <3>2, <3>3
  <2>5. ASSUME NEW p \in Transfers, NEW o \in Transfers, Inserts(p)', Inserts(o)',
               HolderOf(o) = HolderOf(p)
        PROVE  o = p
    BY <2>1, <2>5 DEF TopupInv, OneOfAKey
  <2> QED BY <2>3, <2>4, <2>5 DEF OneOfAKey, HolderOf
<1>7. BooksAgree' BY <1>m DEF TopupInv, BooksAgree
<1> QED BY <1>1, <1>2, <1>3, <1>4, <1>5, <1>6, <1>7 DEF TopupInv

-----------------------------------------------------------------------------
(* The actions                                                             *)

(* Steps that only go on.                                                  *)
LEMMA BeginKeeps ==
  ASSUME TopupInv, NEW q \in Transfers, TopupBegin(q)
  PROVE  TopupInv'
<1>1. FirstStep(q) \in {"look to", "look from"} BY DEF FirstStep
<1>2. topupFound' \in [Transfers -> SUBSET topupRow]
  BY DEF TopupInv, TopupTypeOK, FoundRows, TopupBegin
<1>3. FoundRows'
  <2> SUFFICES ASSUME NEW p \in Transfers
               PROVE  /\ topupFound[p] \subseteq topupRow
                      /\ topupPc'[p] \in {"lock from", "lock to"} =>
                           \A s \in topupFound[p] : HolderOf(s) = Side(p)'
    BY DEF TopupBegin, topupTables, FoundRows, HolderOf
  <2>1. CASE p = q BY <1>1, <2>1 DEF TopupBegin, Goes, TopupInv, TopupTypeOK, FoundRows
  <2>2. CASE p # q
    <3>1. topupPc'[p] = topupPc[p] BY <2>2 DEF TopupBegin, Goes, TopupInv, TopupTypeOK
    <3>2. Side(p)' = Side(p) BY <3>1 DEF Side
    <3> QED BY <3>1, <3>2 DEF TopupInv, FoundRows
  <2> QED BY <2>1, <2>2
<1>4. FirstStep(q) \in TopupSteps \ {"new", "done", "refused"} BY <1>1 DEF TopupSteps
<1>5. topupPc[q] \notin {"done", "refused"} BY DEF TopupBegin
<1> QED BY <1>2, <1>3, <1>4, <1>5, QuietStep DEF TopupBegin

(* Steps that only look.                                                   *)
LEMMA LookKeeps ==
  ASSUME TopupInv, NEW q \in Transfers, TopupLook(q)
  PROVE  TopupInv'
<1> DEFINE step == IF topupPc[q] = "look from" THEN "lock from" ELSE "lock to"
<1>1. topupFound' \in [Transfers -> SUBSET topupRow]
  BY DEF TopupInv, TopupTypeOK, FoundRows, TopupLook, RowsOf
<1>2. FoundRows'
  <2> SUFFICES ASSUME NEW p \in Transfers
               PROVE  topupPc'[p] \in {"lock from", "lock to"} =>
                        \A s \in topupFound'[p] : HolderOf(s) = Side(p)'
    BY <1>1 DEF TopupLook, topupTables, FoundRows, HolderOf
  <2>1. CASE p = q
    <3>1. topupFound'[q] = RowsOf(Side(q)) BY DEF TopupLook, TopupInv, TopupTypeOK
    <3>2. topupPc'[q] = step BY DEF TopupLook, Goes, TopupInv, TopupTypeOK
    <3>3. Side(q)' = Side(q) BY <3>2 DEF Side, TopupLook
    <3> QED BY <2>1, <3>1, <3>3 DEF RowsOf
  <2>2. CASE p # q
    <3>1. topupPc'[p] = topupPc[p] /\ topupFound'[p] = topupFound[p]
      BY <2>2 DEF TopupLook, Goes, TopupInv, TopupTypeOK
    <3>2. Side(p)' = Side(p) BY <3>1 DEF Side
    <3> QED BY <3>1, <3>2 DEF TopupInv, FoundRows
  <2> QED BY <2>1, <2>2
<1>3. step \in TopupSteps \ {"new", "done", "refused"} BY DEF TopupSteps
<1>4. topupPc[q] \notin {"done", "refused"} /\ Goes(q, step) BY DEF TopupLook
<1> HIDE DEF step
<1> QED BY <1>1, <1>2, <1>3, <1>4, QuietStep DEF TopupLook

(* A SELECT that has found nothing.                                        *)
LEMMA NoRowKeeps ==
  ASSUME TopupInv, NEW q \in Transfers, TopupNoRow(q)
  PROVE  TopupInv'
<1>1. topupFound' \in [Transfers -> SUBSET topupRow]
  BY DEF TopupInv, TopupTypeOK, FoundRows, TopupNoRow
<1>2. FoundRows'
  <2> SUFFICES ASSUME NEW p \in Transfers
               PROVE  topupPc'[p] \in {"lock from", "lock to"} =>
                        \A s \in topupFound[p] : HolderOf(s) = Side(p)'
    BY <1>1 DEF TopupNoRow, topupTables, FoundRows, HolderOf
  <2>1. CASE p = q BY <2>1 DEF TopupNoRow
  <2>2. CASE p # q
    <3>1. topupPc'[p] = topupPc[p] BY <2>2 DEF TopupNoRow, Goes, TopupInv, TopupTypeOK
    <3>2. Side(p)' = Side(p) BY <3>1 DEF Side
    <3> QED BY <3>1, <3>2 DEF TopupInv, FoundRows
  <2> QED BY <2>1, <2>2
<1>3. "insert" \in TopupSteps \ {"new", "done", "refused"} BY DEF TopupSteps
<1>4. topupPc[q] \notin {"done", "refused"} /\ Goes(q, "insert") BY DEF TopupNoRow
<1> QED BY <1>1, <1>2, <1>3, <1>4, QuietStep DEF TopupNoRow

(* A row that is locked is changed by the amount asked for.                *)
LEMMA LockRowKeeps ==
  ASSUME TopupInv, NEW q \in Transfers, TopupLockRow(q)
  PROVE  TopupInv'
<1>1. PICK r \in topupFound[q] :
        /\ topupMoney[r] + Amount(q) >= 0
        /\ topupLock' = [topupLock EXCEPT ![r] = q]
        /\ Sets(q, r, topupMoney[r] + Amount(q))
        /\ Goes(q, IF topupPc[q] = "lock from" THEN AfterFrom(q) ELSE "commit")
        /\ UNCHANGED <<topupTables, topupFound>>
  BY DEF TopupLockRow
<1> DEFINE step == IF topupPc[q] = "lock from" THEN AfterFrom(q) ELSE "commit"
           money == topupMoney[r] + Amount(q)
<1>2. topupPc[q] \in {"lock from", "lock to"} /\ Awaits(q) = {} BY DEF TopupLockRow
<1>3. r \in topupRow /\ HolderOf(r) = Side(q) BY <1>1, <1>2 DEF TopupInv, FoundRows
<1>4. r \in TopupRows BY <1>3 DEF TopupInv, TopupTypeOK
<1>5. Amount(q) = Tells(q, r)
  <2>1. CASE topupPc[q] = "lock from" BY <1>3, <2>1 DEF Side, Amount, Tells
  <2>2. CASE topupPc[q] = "lock to"
    <3>1. Side(q) = Order[q].to BY <2>2 DEF Side
    <3>2. Order[q].to # Order[q].from BY Orders
    <3> QED BY <1>3, <2>2, <3>1, <3>2 DEF Amount, Tells
  <2> QED BY <1>2, <2>1, <2>2
<1>6. money \in Nat
  <2>1. Order[q].amount \in Nat BY Orders
  <2>2. Amount(q) \in Int
    <3>1. CASE topupPc[q] = "lock from"
      <4>1. Amount(q) = -Order[q].amount BY <3>1 DEF Amount
      <4> QED BY <2>1, <4>1
    <3>2. CASE topupPc[q] # "lock from"
      <4>1. Amount(q) = Order[q].amount BY <3>2 DEF Amount
      <4> QED BY <2>1, <4>1
    <3> QED BY <3>1, <3>2
  <2>3. topupMoney[r] \in Nat BY <1>4 DEF TopupInv, TopupTypeOK
  <2>4. topupMoney[r] + Amount(q) >= 0 BY <1>1
  <2> QED BY <2>2, <2>3, <2>4
<1>7. topupLock[r] \in {Outside, q} BY <1>1, <1>2 DEF Awaits
<1>8. step \in TopupSteps \ {"new", "done", "refused", "lock from", "lock to"}
  BY DEF TopupSteps, AfterFrom
<1>9. OneOfAKey'
  <2>1. topupRow' = topupRow BY <1>1 DEF topupTables
  <2>2. ASSUME NEW p \in Transfers, Inserts(p)' PROVE Inserts(p)
    <3>1. p # r BY <1>3, <2>1, <2>2 DEF Inserts
    <3>2. p \in TopupRows BY Orders
    <3>3. topupLock'[p] = topupLock[p] BY <1>1, <3>1, <3>2 DEF TopupInv, TopupTypeOK
    <3> QED BY <2>1, <2>2, <3>3 DEF Inserts, HolderOf
  <2> QED BY <2>1, <2>2 DEF TopupInv, OneOfAKey, HolderOf
<1>10. money = topupMoney[r] + Tells(q, r) BY <1>5
<1>11. Goes(q, step) /\ Sets(q, r, money) BY <1>1
<1> HIDE DEF step, money
<1> QED BY <1>1, <1>2, <1>3, <1>6, <1>7, <1>8, <1>9, <1>10, <1>11, TakingStep

(* An inserted row is the only one of its holder.                          *)
LEMMA InsertRowKeeps ==
  ASSUME TopupInv, NEW q \in Transfers, TopupInsert(q)
  PROVE  TopupInv'
<1>1. /\ topupPc[q] = "insert" /\ Awaits(q) = {} /\ Side(q) = Order[q].to
      /\ Side(q) = Mother \/ RowsOf(Side(q)) = {}
      /\ Amount(q) = Order[q].amount
  BY DEF TopupInsert, Side, Amount
<1>2. q \notin topupRow BY <1>1 DEF TopupInv, NewRows
<1>3. topupMoney[q] = 0 BY <1>2, Orders DEF TopupInv, NewRows
<1>4. Amount(q) = topupMoney[q] + Tells(q, q) /\ Amount(q) \in Nat
  BY <1>1, <1>3, Orders DEF Tells
<1>5. topupLock[q] \in {Outside, q}
  <2>1. topupLock[q] \in Transfers \cup {Outside} BY Orders DEF TopupInv, TopupTypeOK
  <2> QED BY <1>2, <2>1, Orders DEF TopupInv, LiveLocks
<1>6. "commit" \in TopupSteps \ {"new", "done", "refused", "lock from", "lock to"} BY DEF TopupSteps
<1>7. /\ topupLock' = [topupLock EXCEPT ![q] = q]
      /\ UNCHANGED <<topupTables, topupFound>>
      /\ Goes(q, "commit") /\ Sets(q, q, Amount(q))
  BY DEF TopupInsert
<1>8. OneOfAKey'
  <2>1. topupRow' = topupRow BY <1>7 DEF topupTables
  <2>2. ASSUME NEW p \in Transfers, p # q, Inserts(p)' PROVE Inserts(p)
    <3>1. topupLock'[p] = topupLock[p] BY <1>7, <2>2, Orders DEF TopupInv, TopupTypeOK
    <3> QED BY <2>1, <2>2, <3>1 DEF Inserts, HolderOf
  <2>3. HolderOf(q) = Side(q) BY <1>1, Orders
  <2>4. ASSUME Side(q) \in Staff
        PROVE  /\ RowsOf(Side(q)) = {}
               /\ \A p \in Transfers : Inserts(p) /\ HolderOf(p) = Side(q) => p = q
    BY <1>1, <2>4, TopupAssumption DEF Awaits, Inserts
  <2>5. ASSUME NEW p \in Transfers, Inserts(p)'
        PROVE  /\ \A r \in topupRow : HolderOf(r) # HolderOf(p)
               /\ \A o \in Transfers : Inserts(o)' /\ HolderOf(o) = HolderOf(p) => o = p
    <3>1. HolderOf(p) \in Staff BY <2>5 DEF Inserts, HolderOf
    <3>2. CASE p = q BY <2>2, <2>3, <2>4, <3>1, <3>2 DEF RowsOf
    <3>3. CASE p # q
      <4>1. Inserts(p) BY <2>2, <2>5, <3>3
      <4>2. HolderOf(p) # HolderOf(q) BY <2>3, <2>4, <3>1, <3>3, <4>1
      <4> QED BY <2>2, <4>1, <4>2 DEF TopupInv, OneOfAKey
    <3> QED BY <3>2, <3>3
  <2>6. \A r, s \in topupRow : HolderOf(r) \in Staff /\ HolderOf(r) = HolderOf(s) => r = s
    BY DEF TopupInv, OneOfAKey
  <2> QED BY <2>1, <2>5, <2>6 DEF OneOfAKey, HolderOf
<1> QED BY <1>1, <1>4, <1>5, <1>6, <1>7, <1>8, TakingStep

(* The invariant holds at first.                                           *)
LEMMA TopupInvAtFirst == TopupInit => TopupInv
<1> SUFFICES ASSUME TopupInit PROVE TopupInv OBVIOUS
<1>1. TopupTypeOK
  <2>1. topupRow \subseteq TopupRows BY DEF TopupInit, TopupRows
  <2>2. topupMoney \in [TopupRows -> Nat]
    BY TopupAssumption DEF TopupInit
  <2>3. topupTold \in [TopupRows -> Int] BY <2>2 DEF TopupInit
  <2>4. /\ topupLock \in [TopupRows -> Transfers \cup {Outside}]
        /\ topupPc \in [Transfers -> TopupSteps]
        /\ topupFound \in [Transfers -> SUBSET TopupRows]
    BY DEF TopupInit, TopupSteps
  <2>5. DOMAIN topupHas = Transfers /\ \A q \in Transfers : topupHas[q] = NoMoney
    BY DEF TopupInit
  <2> QED BY <2>1, <2>2, <2>3, <2>4, <2>5, NoMoneyEmpty DEF TopupTypeOK
<1>2. FoundRows BY DEF TopupInit, FoundRows
<1>3. NewRows BY Orders DEF TopupInit, NewRows
<1>4. HeldRows BY NoMoneyEmpty DEF TopupInit, HeldRows
<1>5. LiveLocks BY DEF TopupInit, LiveLocks
<1>6. OneOfAKey
  <2>1. \A r \in topupRow : HolderOf(r) = r BY DEF TopupInit, HolderOf
  <2>2. \A q \in Transfers : ~Inserts(q) BY Orders DEF TopupInit, Inserts
  <2> QED BY <2>1, <2>2 DEF OneOfAKey
<1>7. BooksAgree BY DEF TopupInit, BooksAgree
<1> QED BY <1>1, <1>2, <1>3, <1>4, <1>5, <1>6, <1>7 DEF TopupInv

(* Every step keeps the invariant.                                         *)
LEMMA TopupInvKept == TopupInv /\ [TopupNext]_topupVars => TopupInv'
<1> SUFFICES ASSUME TopupInv, [TopupNext]_topupVars PROVE TopupInv' OBVIOUS
<1>1. CASE UNCHANGED topupVars
  <2>1. UNCHANGED <<topupRow, topupMoney, topupTold, topupLock, topupPc, topupFound, topupHas>>
    BY <1>1 DEF topupVars, topupTables
  <2>2. TopupTypeOK' /\ BooksAgree' BY <2>1 DEF TopupInv, TopupTypeOK, BooksAgree
  <2>3. FoundRows' BY <2>1 DEF TopupInv, FoundRows, HolderOf, Side
  <2>4. NewRows' /\ LiveLocks' BY <2>1 DEF TopupInv, NewRows, LiveLocks
  <2>5. HeldRows' BY <2>1 DEF TopupInv, HeldRows, HolderOf, Tells
  <2>6. OneOfAKey' BY <2>1 DEF TopupInv, OneOfAKey, Inserts, HolderOf
  <2> QED BY <2>2, <2>3, <2>4, <2>5, <2>6 DEF TopupInv
<1>2. ASSUME NEW q \in Transfers, TopupBegin(q) PROVE TopupInv' BY <1>2, BeginKeeps
<1>3. ASSUME NEW q \in Transfers, TopupLook(q) PROVE TopupInv' BY <1>3, LookKeeps
<1>4. ASSUME NEW q \in Transfers, TopupLockRow(q) PROVE TopupInv' BY <1>4, LockRowKeeps
<1>5. ASSUME NEW q \in Transfers, TopupRefuse(q) PROVE TopupInv'
  BY <1>5, RefusedKeeps DEF TopupRefuse
<1>6. ASSUME NEW q \in Transfers, TopupNoRow(q) PROVE TopupInv' BY <1>6, NoRowKeeps
<1>7. ASSUME NEW q \in Transfers, TopupInsert(q) PROVE TopupInv' BY <1>7, InsertRowKeeps
<1>8. ASSUME NEW q \in Transfers, TopupInsertFails(q) PROVE TopupInv'
  BY <1>8, RefusedKeeps DEF TopupInsertFails
<1>9. ASSUME NEW q \in Transfers, TopupCommit(q) PROVE TopupInv' BY <1>9, CommitKeeps
<1>10. ASSUME NEW q \in Transfers, TopupVictim(q) PROVE TopupInv'
  <2>1. topupPc[q] # "done" BY <1>10 DEF TopupVictim, Awaits
  <2> QED BY <1>10, <2>1, RefusedKeeps DEF TopupVictim
<1>11. ASSUME NEW q \in Transfers, TopupCutOff(q) PROVE TopupInv'
  BY <1>11, RefusedKeeps DEF TopupCutOff
<1> QED BY <1>1, <1>2, <1>3, <1>4, <1>5, <1>6, <1>7, <1>8, <1>9, <1>10, <1>11 DEF TopupNext

-----------------------------------------------------------------------------
(* The theorems                                                            *)

(* The invariant holds always.                                             *)
LEMMA TopupInvAlways == TopupSpec => []TopupInv
BY TopupInvAtFirst, TopupInvKept, PTL DEF TopupSpec

(* Rows and sessions are what their tables allow; no balance is negative.  *)
THEOREM TopupTypeCorrect == TopupSpec => []TopupTypeOK
<1>1. TopupInv => TopupTypeOK BY DEF TopupInv
<1> QED BY <1>1, TopupInvAlways, PTL

(* Whatever requests overlap, fail or are cut off, every balance is the    *)
(* sum of its ledger rows.                                                 *)
THEOREM BooksAlwaysAgree == TopupSpec => []BooksAgree
<1>1. TopupInv => BooksAgree BY DEF TopupInv
<1> QED BY <1>1, TopupInvAlways, PTL

(* No employee gets a second row.                                          *)
THEOREM AlwaysOneRowEach == TopupSpec => []OneRowEach
<1>1. TopupInv => OneRowEach
  <2> SUFFICES ASSUME TopupInv, NEW h \in Staff PROVE Cardinality(RowsOf(h)) <= 1
    BY DEF OneRowEach
  <2>1. \A r, s \in RowsOf(h) : r = s BY DEF TopupInv, OneOfAKey, RowsOf
  <2>2. CASE RowsOf(h) = {} BY <2>2, FS_EmptySet
  <2>3. CASE RowsOf(h) # {}
    <3>1. PICK r \in RowsOf(h) : TRUE BY <2>3
    <3>2. RowsOf(h) = {r} BY <2>1, <3>1
    <3>3. Cardinality({r}) = 1 BY FS_Singleton
    <3> QED BY <3>2, <3>3
  <2> QED BY <2>2, <2>3
<1> QED BY <1>1, TopupInvAlways, PTL

(* No request waits for one that has ended.                                *)
THEOREM WaitsAlwaysEnd == TopupSpec => []WaitsEnd
<1>1. TopupInv => WaitsEnd
  <2> SUFFICES ASSUME TopupInv, NEW q \in Transfers, NEW p \in Awaits(q)
               PROVE  topupPc[p] \notin {"new", "done", "refused"}
    BY DEF WaitsEnd
  <2>1. PICK r \in TopupRows : topupLock[r] = p /\ p # Outside
    <3>1. CASE topupPc[q] \in {"lock from", "lock to"}
      BY <3>1 DEF Awaits, TopupInv, TopupTypeOK
    <3>2. CASE topupPc[q] = "insert" /\ Side(q) \in Staff
      <4>1. p \in Transfers /\ topupLock[p] = p BY <3>2 DEF Awaits
      <4> QED BY <4>1, Orders
    <3>3. CASE topupPc[q] \notin {"lock from", "lock to"}
               /\ ~(topupPc[q] = "insert" /\ Side(q) \in Staff)
      BY <3>3 DEF Awaits
    <3> QED BY <3>1, <3>2, <3>3
  <2> QED BY <2>1 DEF TopupInv, LiveLocks
<1> QED BY <1>1, TopupInvAlways, PTL

-----------------------------------------------------------------------------
(* The accounts that the balances implement                                *)

(* The holders whose part of a request is done                             *)
Reached(q) ==
  {h \in Holders :
     \/ h = Order[q].from /\ topupPc[q] \in {"look to", "lock to", "insert", "commit"}
     \/ h = Order[q].to /\ topupPc[q] = "commit"}

(* A session holds one row of each of them, and no other.                  *)
HoldsParts ==
  \A q \in Transfers :
    /\ \A r \in DOMAIN topupHas[q] : HolderOf(r) \in Reached(q)
    /\ \A h \in Reached(q) : \E r \in DOMAIN topupHas[q] : HolderOf(r) = h
    /\ \A r, s \in DOMAIN topupHas[q] : HolderOf(r) = HolderOf(s) => r = s

(* A request is at a part that it asks for, and has changed nothing before *)
(* it begins.                                                              *)
PartsAsked ==
  \A q \in Transfers :
    /\ topupPc[q] = "new" => DOMAIN topupHas[q] = {}
    /\ topupPc[q] \in {"look from", "lock from"} => Order[q].from \in Holders
    /\ topupPc[q] \in {"look to", "lock to", "insert"} => Order[q].to \in Holders

(* The inductive invariant of the refinement                               *)
AccountsInv == TopupInv /\ HoldsParts /\ PartsAsked

(* A request that only goes on keeps its rows.                             *)
LEMMA StillHolds ==
  ASSUME HoldsParts, NEW q \in Transfers,
         \A p \in Transfers : p # q => topupPc'[p] = topupPc[p] /\ topupHas'[p] = topupHas[p],
         topupHas'[q] = topupHas[q], Reached(q)' = Reached(q)
  PROVE  HoldsParts'
<1> SUFFICES ASSUME NEW p \in Transfers
             PROVE  /\ \A r \in DOMAIN topupHas'[p] : HolderOf(r) \in Reached(p)'
                    /\ \A h \in Reached(p)' : \E r \in DOMAIN topupHas'[p] : HolderOf(r) = h
                    /\ \A r, s \in DOMAIN topupHas'[p] : HolderOf(r) = HolderOf(s) => r = s
  BY DEF HoldsParts, HolderOf
<1>1. topupHas'[p] = topupHas[p] /\ Reached(p)' = Reached(p)
  <2>1. CASE p = q BY <2>1
  <2>2. CASE p # q BY <2>2 DEF Reached
  <2> QED BY <2>1, <2>2
<1> QED BY <1>1 DEF HoldsParts

(* A request that changes a row of one more holder holds the rows of one   *)
(* more.                                                                   *)
LEMMA TakesPart ==
  ASSUME HoldsParts, NEW q \in Transfers, NEW r, NEW money, NEW h,
         \A p \in Transfers : p # q => topupPc'[p] = topupPc[p] /\ topupHas'[p] = topupHas[p],
         topupHas'[q] = Put(topupHas[q], r, money),
         HolderOf(r) = h, h \notin Reached(q), Reached(q)' = Reached(q) \cup {h}
  PROVE  HoldsParts'
<1> SUFFICES ASSUME NEW p \in Transfers
             PROVE  /\ \A s \in DOMAIN topupHas'[p] : HolderOf(s) \in Reached(p)'
                    /\ \A g \in Reached(p)' : \E s \in DOMAIN topupHas'[p] : HolderOf(s) = g
                    /\ \A s, t \in DOMAIN topupHas'[p] : HolderOf(s) = HolderOf(t) => s = t
  BY DEF HoldsParts, HolderOf
<1>1. CASE p = q
  <2>1. DOMAIN topupHas'[p] = DOMAIN topupHas[q] \cup {r}
    BY <1>1 DEF Put
  <2> QED BY <1>1, <2>1 DEF HoldsParts
<1>2. CASE p # q
  <2>1. topupHas'[p] = topupHas[p] /\ Reached(p)' = Reached(p)
    BY <1>2 DEF Reached
  <2> QED BY <2>1 DEF HoldsParts
<1> QED BY <1>1, <1>2

(* A request that has ended holds none.                                    *)
LEMMA DropsParts ==
  ASSUME HoldsParts, NEW q \in Transfers,
         \A p \in Transfers : p # q => topupPc'[p] = topupPc[p] /\ topupHas'[p] = topupHas[p],
         DOMAIN topupHas'[q] = {}, topupPc'[q] \in {"done", "refused"}
  PROVE  HoldsParts'
<1> SUFFICES ASSUME NEW p \in Transfers
             PROVE  /\ \A r \in DOMAIN topupHas'[p] : HolderOf(r) \in Reached(p)'
                    /\ \A h \in Reached(p)' : \E r \in DOMAIN topupHas'[p] : HolderOf(r) = h
                    /\ \A r, s \in DOMAIN topupHas'[p] : HolderOf(r) = HolderOf(s) => r = s
  BY DEF HoldsParts, HolderOf
<1>1. CASE p = q
  BY <1>1 DEF Reached
<1>2. CASE p # q
  <2>1. topupHas'[p] = topupHas[p] /\ Reached(p)' = Reached(p)
    BY <1>2 DEF Reached
  <2> QED BY <2>1 DEF HoldsParts
<1> QED BY <1>1, <1>2

(* Every step keeps what sessions hold.                                    *)
LEMMA PartsStep ==
  ASSUME AccountsInv, TopupInv', [TopupNext]_topupVars
  PROVE  HoldsParts' /\ PartsAsked'
<1> USE DEF AccountsInv
<1>0. ASSUME NEW q \in Transfers, NEW step \in TopupSteps, Goes(q, step)
      PROVE  topupPc'[q] = step /\ \A p \in Transfers : p # q => topupPc'[p] = topupPc[p]
  BY <1>0 DEF Goes, TopupInv, TopupTypeOK
<1>1. CASE UNCHANGED topupVars
  <2>1. topupPc' = topupPc /\ topupHas' = topupHas
    BY <1>1 DEF topupVars
  <2>2. \A q \in Transfers : Reached(q)' = Reached(q)
    BY <2>1 DEF Reached
  <2>3. HoldsParts'
    BY <2>1, <2>2 DEF HoldsParts, HolderOf
  <2>4. PartsAsked'
    BY <2>1 DEF PartsAsked
  <2> QED BY <2>3, <2>4
<1>2. ASSUME NEW q \in Transfers, TopupBegin(q) PROVE HoldsParts' /\ PartsAsked'
  <2>1. topupPc[q] = "new" /\ topupHas' = topupHas /\ FirstStep(q) \in TopupSteps
    BY <1>2 DEF TopupBegin, FirstStep, TopupSteps
  <2>2. topupPc'[q] = FirstStep(q) /\ \A p \in Transfers : p # q => topupPc'[p] = topupPc[p]
    BY <1>0, <1>2, <2>1 DEF TopupBegin
  <2>3. Reached(q) = {} /\ Reached(q)' = {}
    <3>1. Reached(q) = {}
      BY <2>1 DEF Reached
    <3>2. ASSUME NEW h \in Holders PROVE h \notin Reached(q)'
      <4>1. CASE Order[q].from = Outside
        BY <2>2, <4>1, Orders DEF Reached, FirstStep
      <4>2. CASE Order[q].from # Outside
        BY <2>2, <4>2 DEF Reached, FirstStep
      <4> QED BY <4>1, <4>2
    <3>3. Reached(q)' \subseteq Holders
      BY DEF Reached
    <3> QED BY <3>1, <3>2, <3>3
  <2>4. HoldsParts'
    BY <2>1, <2>2, <2>3, StillHolds
  <2>5. PartsAsked'
    BY <2>1, <2>2, Orders DEF PartsAsked, FirstStep
  <2> QED BY <2>4, <2>5
<1>3. ASSUME NEW q \in Transfers, TopupLook(q) PROVE HoldsParts' /\ PartsAsked'
  <2> DEFINE step == IF topupPc[q] = "look from" THEN "lock from" ELSE "lock to"
  <2>1. topupPc[q] \in {"look from", "look to"} /\ topupHas' = topupHas
    BY <1>3 DEF TopupLook
  <2>2. topupPc'[q] = step /\ \A p \in Transfers : p # q => topupPc'[p] = topupPc[p]
    BY <1>0, <1>3 DEF TopupLook, TopupSteps
  <2>3. Reached(q)' = Reached(q)
    BY <2>1, <2>2 DEF Reached
  <2>4. HoldsParts'
    BY <2>1, <2>2, <2>3, StillHolds
  <2>5. PartsAsked'
    BY <2>1, <2>2 DEF PartsAsked
  <2> QED BY <2>4, <2>5
<1>4. ASSUME NEW q \in Transfers, TopupNoRow(q) PROVE HoldsParts' /\ PartsAsked'
  <2>1. topupPc[q] = "lock to" /\ topupHas' = topupHas
    BY <1>4 DEF TopupNoRow
  <2>2. topupPc'[q] = "insert" /\ \A p \in Transfers : p # q => topupPc'[p] = topupPc[p]
    BY <1>0, <1>4 DEF TopupNoRow, TopupSteps
  <2>3. Reached(q)' = Reached(q)
    BY <2>1, <2>2 DEF Reached
  <2>4. HoldsParts'
    BY <2>1, <2>2, <2>3, StillHolds
  <2>5. PartsAsked'
    BY <2>1, <2>2 DEF PartsAsked
  <2> QED BY <2>4, <2>5
<1>5. ASSUME NEW q \in Transfers, TopupLockRow(q) PROVE HoldsParts' /\ PartsAsked'
  <2>1. PICK r \in topupFound[q] :
          /\ Sets(q, r, topupMoney[r] + Amount(q))
          /\ Goes(q, IF topupPc[q] = "lock from" THEN AfterFrom(q) ELSE "commit")
    BY <1>5 DEF TopupLockRow
  <2> DEFINE step == IF topupPc[q] = "lock from" THEN AfterFrom(q) ELSE "commit"
  <2>2. topupPc[q] \in {"lock from", "lock to"}
    BY <1>5 DEF TopupLockRow
  <2>3. topupPc'[q] = step /\ \A p \in Transfers : p # q => topupPc'[p] = topupPc[p]
    <3>1. step \in TopupSteps
      BY DEF AfterFrom, TopupSteps
    <3> QED BY <1>0, <2>1, <3>1
  <2>4. /\ topupHas'[q] = Put(topupHas[q], r, topupMoney[r] + Amount(q))
        /\ \A p \in Transfers : p # q => topupHas'[p] = topupHas[p]
    BY <2>1 DEF Sets, TopupInv, TopupTypeOK
  <2>5. PICK h \in Holders : h = Side(q)
    BY <2>2 DEF PartsAsked, Side
  <2>6. HolderOf(r) = h
    BY <2>1, <2>2, <2>5 DEF TopupInv, FoundRows
  <2>7. h \notin Reached(q) /\ Reached(q)' = Reached(q) \cup {h}
    <3>1. Order[q].from # Order[q].to /\ Outside \notin Holders
      BY Orders
    <3>2. CASE topupPc[q] = "lock from"
      <4>1. h = Order[q].from /\ topupPc'[q] \in {"look to", "commit"}
        BY <2>3, <2>5, <3>2 DEF Side, AfterFrom
      <4>2. topupPc'[q] = "commit" => Order[q].to = Outside
        BY <2>3, <3>2 DEF AfterFrom
      <4>3. \A g \in Holders : g \in Reached(q)' <=> g = h
        BY <3>1, <4>1, <4>2 DEF Reached
      <4>4. \A g \in Holders : g \notin Reached(q)
        BY <3>2 DEF Reached
      <4> QED BY <4>3, <4>4 DEF Reached
    <3>3. CASE topupPc[q] = "lock to"
      <4>1. h = Order[q].to /\ topupPc'[q] = "commit"
        BY <2>3, <2>5, <3>3 DEF Side
      <4>2. \A g \in Holders : g \in Reached(q)' <=> g = Order[q].from \/ g = h
        BY <4>1 DEF Reached
      <4>3. \A g \in Holders : g \in Reached(q) <=> g = Order[q].from
        BY <3>3 DEF Reached
      <4> QED BY <3>1, <4>1, <4>2, <4>3 DEF Reached
    <3> QED BY <2>2, <3>2, <3>3
  <2>8. HoldsParts'
    BY <2>3, <2>4, <2>6, <2>7, TakesPart
  <2>9. PartsAsked'
    BY <2>2, <2>3, <2>4, Orders DEF PartsAsked, AfterFrom
  <2> QED BY <2>8, <2>9
<1>6. ASSUME NEW q \in Transfers, TopupInsert(q) PROVE HoldsParts' /\ PartsAsked'
  <2>1. topupPc[q] = "insert" /\ Side(q) = Order[q].to
    BY <1>6 DEF TopupInsert, Side
  <2>2. topupPc'[q] = "commit" /\ \A p \in Transfers : p # q => topupPc'[p] = topupPc[p]
    BY <1>0, <1>6 DEF TopupInsert, TopupSteps
  <2>3. /\ topupHas'[q] = Put(topupHas[q], q, Amount(q))
        /\ \A p \in Transfers : p # q => topupHas'[p] = topupHas[p]
    BY <1>6 DEF TopupInsert, Sets, TopupInv, TopupTypeOK
  <2>4. PICK h \in Holders : h = Order[q].to
    BY <2>1 DEF PartsAsked
  <2>5. HolderOf(q) = h /\ h # Order[q].from
    BY <2>4, Orders
  <2>6. h \notin Reached(q) /\ Reached(q)' = Reached(q) \cup {h}
    BY <2>1, <2>2, <2>4, <2>5 DEF Reached
  <2>7. HoldsParts'
    BY <2>2, <2>3, <2>5, <2>6, TakesPart
  <2>8. PartsAsked'
    BY <2>1, <2>2, <2>3 DEF PartsAsked
  <2> QED BY <2>7, <2>8
<1>7. ASSUME NEW q \in Transfers,
             /\ topupPc'[q] \in {"done", "refused"} /\ DOMAIN topupHas'[q] = {}
             /\ \A p \in Transfers : p # q =>
                  topupPc'[p] = topupPc[p] /\ topupHas'[p] = topupHas[p]
      PROVE  HoldsParts' /\ PartsAsked'
  <2>1. HoldsParts'
    BY <1>7, DropsParts
  <2>2. PartsAsked'
    BY <1>7 DEF PartsAsked
  <2> QED BY <2>1, <2>2
<1>8. ASSUME NEW q \in Transfers,
             TopupCommit(q) \/ TopupRefuse(q) \/ TopupInsertFails(q) \/ TopupVictim(q) \/ TopupCutOff(q)
      PROVE  HoldsParts' /\ PartsAsked'
  <2>1. CASE TopupCommit(q)
    <3>1. /\ topupPc'[q] = "done" /\ DOMAIN topupHas'[q] = {}
          /\ \A p \in Transfers : p # q =>
               topupPc'[p] = topupPc[p] /\ topupHas'[p] = topupHas[p]
      BY <2>1, Freed DEF TopupCommit
    <3> QED BY <1>7, <3>1
  <2>2. CASE Refused(q)
    <3>1. /\ topupPc'[q] = "refused" /\ DOMAIN topupHas'[q] = {}
          /\ \A p \in Transfers : p # q =>
               topupPc'[p] = topupPc[p] /\ topupHas'[p] = topupHas[p]
      BY <2>2, Freed DEF Refused
    <3> QED BY <1>7, <3>1
  <2> QED BY <1>8, <2>1, <2>2 DEF TopupRefuse, TopupInsertFails, TopupVictim, TopupCutOff
<1> QED BY <1>1, <1>2, <1>3, <1>4, <1>5, <1>6, <1>8 DEF TopupNext

-----------------------------------------------------------------------------
(* The rows of a holder are finitely many, with natural balances.          *)
LEMMA RowsFinite ==
  ASSUME TopupInv, NEW h
  PROVE  /\ IsFiniteSet(TopupRows) /\ IsFiniteSet(RowsOf(h)) /\ RowsOf(h) \subseteq TopupRows
         /\ \A r \in TopupRows : topupMoney[r] \in Nat
<1>1. IsFiniteSet(TopupRows)
  <2>1. IsFiniteSet({Mother})
    BY FS_Singleton
  <2>2. IsFiniteSet(Staff \cup {Mother})
    BY <2>1, TopupAssumption, FS_Union
  <2> QED BY <2>2, TopupAssumption, FS_Union DEF TopupRows, Holders
<1>2. RowsOf(h) \subseteq TopupRows
  BY DEF TopupInv, TopupTypeOK, RowsOf
<1>3. IsFiniteSet(RowsOf(h))
  BY <1>1, <1>2, FS_Subset
<1> QED BY <1>1, <1>2, <1>3 DEF TopupInv, TopupTypeOK

(* The ledger rows of every holder sum to his balance.                     *)
LEMMA LedgerIsBalance ==
  TopupInv => HoldersMoney(topupTold) = HoldersMoney(topupMoney)
<1> SUFFICES ASSUME TopupInv PROVE HoldersMoney(topupTold) = HoldersMoney(topupMoney)
  OBVIOUS
<1> SUFFICES ASSUME NEW h \in Holders
             PROVE  SumFunctionOnSet(topupTold, RowsOf(h)) = SumFunctionOnSet(topupMoney, RowsOf(h))
  BY DEF HoldersMoney
<1>1. \A r \in RowsOf(h) : topupTold[r] = topupMoney[r] /\ topupTold[r] \in Int
  BY RowsFinite DEF TopupInv, BooksAgree
<1>2. IsFiniteSet(RowsOf(h))
  BY RowsFinite
<1> QED BY <1>1, <1>2, SumsAgree

(* No holder is overdrawn.                                                 *)
LEMMA BalancesTyped ==
  TopupInv => HoldersMoney(topupMoney) \in [Holders -> Nat]
<1> SUFFICES ASSUME TopupInv PROVE HoldersMoney(topupMoney) \in [Holders -> Nat]
  OBVIOUS
<1> SUFFICES ASSUME NEW h \in Holders
             PROVE  SumFunctionOnSet(topupMoney, RowsOf(h)) \in Nat
  BY DEF HoldersMoney
<1>1. IsFiniteSet(RowsOf(h)) /\ \A r \in RowsOf(h) : topupMoney[r] \in Nat
  BY RowsFinite
<1> QED BY <1>1, SumIsNat

(* A commit changes what every holder has by what the request adds to him. *)
LEMMA HolderSettled ==
  ASSUME AccountsInv, TopupInv', NEW q \in Transfers, TopupCommit(q), NEW h \in Holders
  PROVE  SumFunctionOnSet(topupMoney', RowsOf(h)')
           = SumFunctionOnSet(topupMoney, RowsOf(h)) + Accounts!Change(q, h)
<1> DEFINE rows == DOMAIN topupHas[q]
<1>0. TopupInv /\ TopupInv'
  BY DEF AccountsInv
<1>1. /\ topupPc[q] = "commit" /\ topupRow' = topupRow \cup rows
      /\ topupMoney' = [r \in TopupRows |->
                          IF r \in rows THEN topupHas[q][r] ELSE topupMoney[r]]
  BY DEF TopupCommit
<1>2. \A r \in rows :
        /\ r \in TopupRows /\ topupHas[q][r] = topupMoney[r] + Tells(q, r)
        /\ r \notin topupRow => topupMoney[r] = 0
  BY <1>0 DEF TopupInv, TopupTypeOK, HeldRows, NewRows
<1>3. RowsOf(h)' = RowsOf(h) \cup {r \in rows : HolderOf(r) = h}
  BY <1>1 DEF RowsOf, HolderOf
<1>4. /\ IsFiniteSet(RowsOf(h)) /\ RowsOf(h) \subseteq TopupRows
      /\ \A r \in TopupRows : topupMoney[r] \in Nat
  BY <1>0, RowsFinite
<1>5. /\ IsFiniteSet(RowsOf(h)') /\ RowsOf(h)' \subseteq TopupRows
      /\ \A r \in TopupRows : topupMoney'[r] \in Nat
  <2>1. \A r \in TopupRows : topupMoney'[r] \in Nat
    BY <1>0 DEF TopupInv, TopupTypeOK
  <2>2. RowsOf(h)' \subseteq TopupRows
    BY <1>2, <1>3, <1>4
  <2>3. IsFiniteSet(TopupRows)
    BY <1>0, RowsFinite
  <2> QED BY <2>1, <2>2, <2>3, FS_Subset
<1>6. CASE h \notin Reached(q)
  <2>1. \A r \in rows : HolderOf(r) # h
    BY <1>6 DEF AccountsInv, HoldsParts
  <2>2. RowsOf(h)' = RowsOf(h)
    BY <1>3, <2>1
  <2>3. \A r \in RowsOf(h) : topupMoney'[r] = topupMoney[r] /\ topupMoney'[r] \in Int
    BY <1>1, <1>4, <2>1 DEF RowsOf
  <2>4. SumFunctionOnSet(topupMoney', RowsOf(h)) = SumFunctionOnSet(topupMoney, RowsOf(h))
    BY <1>4, <2>3, SumsAgree
  <2>5. Accounts!Change(q, h) = 0
    BY <1>1, <1>6 DEF Accounts!Change, Reached
  <2>6. SumFunctionOnSet(topupMoney, RowsOf(h)) \in Nat
    BY <1>4, SumIsNat
  <2> QED BY <2>2, <2>4, <2>5, <2>6
<1>7. CASE h \in Reached(q)
  <2>1. PICK r \in rows : HolderOf(r) = h /\ \A s \in rows : HolderOf(s) = h => s = r
    BY <1>7 DEF AccountsInv, HoldsParts
  <2> DEFINE others == RowsOf(h) \ {r}
  <2>2. RowsOf(h)' = RowsOf(h) \cup {r} /\ RowsOf(h)' \ {r} = others
    BY <1>3, <2>1
  <2>3. IsFiniteSet(others) /\ \A s \in others : topupMoney[s] \in Nat
    BY <1>4, FS_Subset
  <2>4. \A s \in others : topupMoney'[s] = topupMoney[s] /\ topupMoney'[s] \in Int
    BY <1>1, <1>4, <2>1 DEF RowsOf
  <2> HIDE DEF others
  <2>5. SumFunctionOnSet(topupMoney', others) = SumFunctionOnSet(topupMoney, others)
    BY <2>3, <2>4, SumsAgree
  <2>6. SumFunctionOnSet(topupMoney, others) \in Nat
    BY <2>3, SumIsNat
  <2>7. SumFunctionOnSet(topupMoney', RowsOf(h)')
          = topupMoney'[r] + SumFunctionOnSet(topupMoney', others)
    <3>1. \A s \in RowsOf(h)' : topupMoney'[s] \in Int
      BY <1>5
    <3>2. r \in RowsOf(h)' /\ IsFiniteSet(RowsOf(h)')
      BY <1>5, <2>2
    <3>3. SumFunctionOnSet(topupMoney', RowsOf(h)')
            = topupMoney'[r] + SumFunctionOnSet(topupMoney', RowsOf(h)' \ {r})
      BY <3>1, <3>2, SumOfAny
    <3> QED BY <3>3, <2>2
  <2>8. SumFunctionOnSet(topupMoney, RowsOf(h))
          = topupMoney[r] + SumFunctionOnSet(topupMoney, others)
    <3>1. CASE r \in RowsOf(h)
      <4>1. \A s \in RowsOf(h) : topupMoney[s] \in Int
        BY <1>4
      <4> QED BY <1>4, <3>1, <4>1, SumOfAny DEF others
    <3>2. CASE r \notin RowsOf(h)
      <4>1. others = RowsOf(h) /\ topupMoney[r] = 0
        BY <1>2, <2>1, <3>2 DEF RowsOf, others
      <4> QED BY <2>6, <4>1
    <3> QED BY <3>1, <3>2
  <2>9. topupMoney'[r] = topupMoney[r] + Tells(q, r) /\ topupMoney[r] \in Nat
    BY <1>1, <1>2, <1>4
  <2>10. Tells(q, r) = Accounts!Change(q, h) /\ Tells(q, r) \in Int
    <3>1. h = Order[q].from \/ h = Order[q].to
      BY <1>7 DEF Reached
    <3>2. Order[q].amount \in Int
      BY Orders
    <3>3. Tells(q, r) = IF h = Order[q].from THEN -Order[q].amount ELSE Order[q].amount
      BY <2>1 DEF Tells
    <3> QED BY <3>1, <3>2, <3>3 DEF Accounts!Change
  <2> QED BY <2>5, <2>6, <2>7, <2>8, <2>9, <2>10
<1> QED BY <1>6, <1>7

(* A commit is a whole request of the accounts.                            *)
LEMMA CommitSettles ==
  ASSUME AccountsInv, TopupInv', NEW q \in Transfers, TopupCommit(q)
  PROVE  Accounts!Settle(q)
<1> DEFINE before == HoldersMoney(topupMoney)
           after == HoldersMoney(topupMoney)'
<1>1. TopupInv /\ TopupInv'
  BY DEF AccountsInv
<1>2. after = [h \in Holders |-> before[h] + Accounts!Change(q, h)]
  BY HolderSettled DEF HoldersMoney
<1>3. after \in [Holders -> Nat]
  <2>1. (TopupInv => HoldersMoney(topupMoney) \in [Holders -> Nat])'
    BY BalancesTyped, PTL
  <2> QED BY <1>1, <2>1
<1>4. HoldersMoney(topupTold) = before /\ before \in [Holders -> Nat]
  BY <1>1, LedgerIsBalance, BalancesTyped
<1>5. HoldersMoney(topupTold)' = after
  <2>1. (TopupInv => HoldersMoney(topupTold) = HoldersMoney(topupMoney))'
    BY LedgerIsBalance, PTL
  <2> QED BY <1>1, <2>1
<1>6. \A h \in Holders : before[h] + Accounts!Change(q, h) >= 0
  BY <1>2, <1>3
<1>7. topupPc[q] = "commit" /\ Goes(q, "done")
  BY DEF TopupCommit
<1>8. {p \in Transfers : topupPc'[p] = "done"} = {p \in Transfers : topupPc[p] = "done"} \cup {q}
  BY <1>1, <1>7 DEF Goes, TopupInv, TopupTypeOK
<1> HIDE DEF before, after
<1>9. after = [h \in Holders |-> HoldersMoney(topupTold)[h] + Accounts!Change(q, h)]
  BY <1>2, <1>4
<1> QED BY <1>2, <1>4, <1>5, <1>6, <1>7, <1>8, <1>9 DEF Accounts!Settle, before, after

(* A step that commits nothing leaves the accounts alone.                  *)
LEMMA OthersRest ==
  ASSUME AccountsInv, NEW q \in Transfers, UNCHANGED topupTables, topupPc[q] # "done",
         \E step : step # "done" /\ Goes(q, step)
  PROVE  UNCHANGED Accounts!accounts
<1>1. UNCHANGED <<topupRow, topupMoney, topupTold>>
  BY DEF topupTables
<1>2. /\ HoldersMoney(topupMoney)' = HoldersMoney(topupMoney)
      /\ HoldersMoney(topupTold)' = HoldersMoney(topupTold)
  BY <1>1 DEF HoldersMoney, RowsOf, HolderOf
<1>3. {p \in Transfers : topupPc'[p] = "done"} = {p \in Transfers : topupPc[p] = "done"}
  BY DEF Goes, AccountsInv, TopupInv, TopupTypeOK
<1> QED BY <1>2, <1>3 DEF Accounts!accounts

(* The tables are accounts at first.                                       *)
LEMMA AccountsAtFirst == TopupInit => AccountsInv /\ Accounts!AccountsInit
<1> SUFFICES ASSUME TopupInit PROVE AccountsInv /\ Accounts!AccountsInit
  OBVIOUS
<1>1. TopupInv
  BY TopupInvAtFirst
<1>2. \A q \in Transfers : topupPc[q] = "new" /\ DOMAIN topupHas[q] = {}
  BY NoMoneyEmpty DEF TopupInit
<1>3. HoldsParts /\ PartsAsked
  BY <1>2 DEF HoldsParts, PartsAsked, Reached
<1>4. {q \in Transfers : topupPc[q] = "done"} = {}
  BY <1>2
<1>5. HoldersMoney(topupMoney) \in [Holders -> Nat] /\ HoldersMoney(topupTold) = HoldersMoney(topupMoney)
  BY <1>1, BalancesTyped, LedgerIsBalance
<1> QED BY <1>1, <1>3, <1>4, <1>5 DEF AccountsInv, Accounts!AccountsInit

(* Every step is a whole request of the accounts or leaves them alone.     *)
LEMMA AccountsStep ==
  AccountsInv /\ [TopupNext]_topupVars =>
    AccountsInv' /\ [\E q \in Transfers : Accounts!Settle(q)]_(Accounts!accounts)
<1> SUFFICES ASSUME AccountsInv, [TopupNext]_topupVars
             PROVE  AccountsInv' /\ [\E q \in Transfers : Accounts!Settle(q)]_(Accounts!accounts)
  OBVIOUS
<1>1. TopupInv'
  BY TopupInvKept DEF AccountsInv
<1>2. AccountsInv'
  BY <1>1, PartsStep DEF AccountsInv
<1>3. ASSUME UNCHANGED topupVars PROVE UNCHANGED Accounts!accounts
  <2>1. UNCHANGED <<topupRow, topupMoney, topupTold, topupPc>>
    BY <1>3 DEF topupVars, topupTables
  <2>2. /\ HoldersMoney(topupMoney)' = HoldersMoney(topupMoney)
        /\ HoldersMoney(topupTold)' = HoldersMoney(topupTold)
    BY <2>1 DEF HoldersMoney, RowsOf, HolderOf
  <2> QED BY <2>1, <2>2 DEF Accounts!accounts
<1>4. ASSUME NEW q \in Transfers, TopupCommit(q) PROVE Accounts!Settle(q)
  BY <1>1, <1>4, CommitSettles
<1>5. ASSUME NEW q \in Transfers, Refused(q), topupPc[q] # "done"
      PROVE  UNCHANGED Accounts!accounts
  <2>1. UNCHANGED topupTables /\ Goes(q, "refused") /\ "refused" # "done"
    BY <1>5 DEF Refused
  <2> QED BY <1>5, <2>1, OthersRest
<1>6. ASSUME NEW q \in Transfers,
             TopupRefuse(q) \/ TopupInsertFails(q) \/ TopupVictim(q) \/ TopupCutOff(q)
      PROVE  Refused(q) /\ topupPc[q] # "done"
  BY <1>6 DEF TopupRefuse, TopupInsertFails, TopupVictim, TopupCutOff, Awaits
<1>7. ASSUME NEW q \in Transfers,
             TopupBegin(q) \/ TopupLook(q) \/ TopupLockRow(q) \/ TopupNoRow(q) \/ TopupInsert(q)
      PROVE  UNCHANGED Accounts!accounts
  <2>1. UNCHANGED topupTables /\ topupPc[q] # "done"
    BY <1>7 DEF TopupBegin, TopupLook, TopupLockRow, TopupNoRow, TopupInsert
  <2>2. \E step : step # "done" /\ Goes(q, step)
    <3>1. \E step \in {"look from", "look to", "lock from", "lock to", "insert", "commit"} : Goes(q, step)
      BY <1>7
      DEF TopupBegin, TopupLook, TopupLockRow, TopupNoRow, TopupInsert, FirstStep, AfterFrom
    <3> QED BY <3>1
  <2> QED BY <2>1, <2>2, OthersRest
<1> QED BY <1>2, <1>3, <1>4, <1>5, <1>6, <1>7 DEF TopupNext

(* The tables implement TopupAccounts: a transfer is never half done, no   *)
(* holder is overdrawn, what is refused or cut off has changed nothing,    *)
(* and the ledger moves with the balances.                                 *)
THEOREM BalancesImplementAccounts == TopupSpec => ImplementsAccounts
BY AccountsAtFirst, AccountsStep, PTL
DEF TopupSpec, ImplementsAccounts, Accounts!AccountsSpec

-----------------------------------------------------------------------------
(* Expenses and the cash book                                              *)

Statuses == {"none", "pending", "approved", "rejected", "paid"}
Operations == {"approve", "reject", "pay", "reverse"}
Desk == {Idle} \cup
        [step : {"date", "find", "insert", "write"}, op : Operations, about : Expenses]

CashTypes ==
  /\ expense \in [Expenses -> Statuses]
  /\ cash \in [Sources -> {0, 1}]
  /\ desk \in [Clerks -> Desk]
  /\ inserted \in [Clerks -> SUBSET Sources]

(* An entry that is inserted and not committed is the only one of its      *)
(* source.                                                                 *)
InsertedAlone ==
  \A c \in Clerks : \A s \in inserted[c] :
    cash[s] = 0 /\ \A d \in Clerks : s \in inserted[d] => d = c

(* A payment that is about to be written has its entry.                    *)
PaysWithEntry ==
  \A c \in Clerks :
    desk[c].step = "write" /\ desk[c].op = "pay" =>
      cash[Source(c)] = 1 \/ Source(c) \in inserted[c]

CashInv == CashTypes /\ InsertedAlone /\ PaysWithEntry /\ PaidIsBooked

-----------------------------------------------------------------------------
(* A request under way has an operation, an expense and a source.          *)
LEMMA Busy ==
  ASSUME CashInv, NEW c \in Clerks, desk[c].step # "idle"
  PROVE  /\ desk[c] \in [step : {"date", "find", "insert", "write"}, op : Operations, about : Expenses]
         /\ Source(c) \in Sources
         /\ desk[c].op = "pay" => Source(c) = <<"expense", desk[c].about>>
<1>1. desk[c] \in Desk BY DEF CashInv, CashTypes
<1>2. desk[c] # Idle BY DEF Idle
<1>3. desk[c] \in [step : {"date", "find", "insert", "write"}, op : Operations, about : Expenses]
  BY <1>1, <1>2 DEF Desk
<1> QED BY <1>3 DEF Source, Sources

(* Going on changes the step and nothing else.                             *)
LEMMA GoingOn ==
  ASSUME CashInv, NEW c \in Clerks, desk[c].step # "idle",
         NEW step \in {"date", "find", "insert", "write"}, GoesTo(c, step)
  PROVE  /\ desk' \in [Clerks -> Desk]
         /\ desk'[c].step = step /\ desk'[c].op = desk[c].op /\ Source(c)' = Source(c)
         /\ \A d \in Clerks : d # c => desk'[d] = desk[d] /\ Source(d)' = Source(d)
<1>1. desk[c] \in [step : {"date", "find", "insert", "write"}, op : Operations, about : Expenses]
  BY Busy
<1>2. desk'[c] = [desk[c] EXCEPT !.step = step] /\ \A d \in Clerks : d # c => desk'[d] = desk[d]
  BY DEF GoesTo, CashInv, CashTypes
<1>3. /\ desk'[c] \in [step : {"date", "find", "insert", "write"}, op : Operations, about : Expenses]
      /\ desk'[c].step = step /\ desk'[c].op = desk[c].op /\ desk'[c].about = desk[c].about
  BY <1>1, <1>2
<1>4. desk' \in [Clerks -> Desk]
  BY <1>3 DEF GoesTo, CashInv, CashTypes, Desk
<1> QED BY <1>2, <1>3, <1>4 DEF Source

(* A request that is dropped leaves everything else as it was.             *)
LEMMA DroppedKeeps ==
  ASSUME CashInv, NEW c \in Clerks, Dropped(c)
  PROVE  CashInv'
<1>1. /\ desk'[c] = Idle /\ inserted'[c] = {}
      /\ \A d \in Clerks : d # c => desk'[d] = desk[d] /\ inserted'[d] = inserted[d]
      /\ UNCHANGED <<expense, cash>>
  BY DEF Dropped, CashInv, CashTypes
<1>2. CashTypes' BY DEF Dropped, CashInv, CashTypes, Desk
<1>3. InsertedAlone' BY <1>1 DEF CashInv, InsertedAlone
<1>4. PaysWithEntry' BY <1>1 DEF CashInv, PaysWithEntry, Source, Idle
<1>5. PaidIsBooked' BY <1>1 DEF CashInv, PaidIsBooked
<1> QED BY <1>2, <1>3, <1>4, <1>5 DEF CashInv

(* A request that only goes on keeps the invariant, if it has the entry it *)
(* is going to write.                                                      *)
LEMMA GoingOnKeeps ==
  ASSUME CashInv, NEW c \in Clerks, desk[c].step # "idle",
         NEW step \in {"date", "find", "insert", "write"}, GoesTo(c, step),
         step = "write" => cash[Source(c)] = 1,
         UNCHANGED <<expense, cash, day, inserted>>
  PROVE  CashInv'
<1>1. /\ desk' \in [Clerks -> Desk]
      /\ desk'[c].step = step /\ desk'[c].op = desk[c].op /\ Source(c)' = Source(c)
      /\ \A d \in Clerks : d # c => desk'[d] = desk[d] /\ Source(d)' = Source(d)
  BY GoingOn
<1>2. CashTypes' BY <1>1 DEF CashInv, CashTypes
<1>3. InsertedAlone' BY DEF CashInv, InsertedAlone
<1>4. PaysWithEntry' BY <1>1 DEF CashInv, PaysWithEntry
<1>5. PaidIsBooked' BY DEF CashInv, PaidIsBooked
<1> QED BY <1>2, <1>3, <1>4, <1>5 DEF CashInv

(* Creating, asking and closing touch no cash.                             *)
LEMMA DeskKeeps ==
  ASSUME CashInv,
         \/ \E e \in Expenses : CreateExpense(e)
         \/ \E c \in Clerks, e \in Expenses, op \in Operations : AskFor(c, op, e)
         \/ CloseDay
         \/ UNCHANGED cashVars
  PROVE  CashInv'
<1>1. CASE \E e \in Expenses : CreateExpense(e)
  <2>1. PICK e \in Expenses : CreateExpense(e) BY <1>1
  <2>2. CashTypes' BY <2>1 DEF CreateExpense, CashInv, CashTypes, Statuses
  <2>3. InsertedAlone' /\ PaysWithEntry'
    BY <2>1 DEF CreateExpense, CashInv, InsertedAlone, PaysWithEntry, Source
  <2>4. PaidIsBooked' BY <2>1 DEF CreateExpense, CashInv, CashTypes, PaidIsBooked
  <2> QED BY <2>2, <2>3, <2>4 DEF CashInv
<1>2. CASE \E c \in Clerks, e \in Expenses, op \in Operations : AskFor(c, op, e)
  <2>1. PICK c \in Clerks, e \in Expenses, op \in Operations : AskFor(c, op, e) BY <1>2
  <2> DEFINE asked == [step |-> IF op \in {"pay", "reverse"} THEN "date" ELSE "write",
                       op |-> op, about |-> e]
  <2>2. /\ desk'[c] = asked /\ \A d \in Clerks : d # c => desk'[d] = desk[d]
        /\ UNCHANGED <<expense, cash, inserted>>
    BY <2>1 DEF AskFor, CashInv, CashTypes
  <2>3. asked \in Desk BY DEF Desk, Operations
  <2>4. CashTypes' BY <2>1, <2>3 DEF AskFor, CashInv, CashTypes
  <2>5. InsertedAlone' BY <2>2 DEF CashInv, InsertedAlone
  <2>6. PaysWithEntry'
    <3> SUFFICES ASSUME NEW d \in Clerks, desk'[d].step = "write", desk'[d].op = "pay"
                 PROVE  cash'[Source(d)'] = 1 \/ Source(d)' \in inserted'[d]
      BY DEF PaysWithEntry
    <3>1. d # c BY <2>2
    <3> QED BY <2>2, <3>1 DEF CashInv, PaysWithEntry, Source
  <2>7. PaidIsBooked' BY <2>2 DEF CashInv, PaidIsBooked
  <2> QED BY <2>4, <2>5, <2>6, <2>7 DEF CashInv
<1>3. CASE CloseDay
  BY <1>3 DEF CloseDay, CashInv, CashTypes, InsertedAlone, PaysWithEntry, PaidIsBooked, Source
<1>4. CASE UNCHANGED cashVars
  BY <1>4 DEF cashVars, CashInv, CashTypes, InsertedAlone, PaysWithEntry, PaidIsBooked, Source
<1> QED BY <1>1, <1>2, <1>3, <1>4

(* The entry that is inserted is the only one of its source.               *)
LEMMA InsertEntryKeeps ==
  ASSUME CashInv, NEW c \in Clerks, InsertEntry(c)
  PROVE  CashInv'
<1>1. desk[c].step # "idle" BY DEF InsertEntry, At
<1>2. CASE cash[Source(c)] > 0 BY <1>2, DroppedKeeps DEF InsertEntry
<1>3. CASE ~(cash[Source(c)] > 0)
  <2>1. /\ inserted'[c] = {Source(c)} /\ \A d \in Clerks : d # c => inserted'[d] = inserted[d]
        /\ inserted' = [inserted EXCEPT ![c] = {Source(c)}]
        /\ GoesTo(c, "write") /\ UNCHANGED <<expense, cash>>
        /\ \A d \in Clerks \ {c} : Source(c) \notin inserted[d]
    BY <1>3 DEF InsertEntry, CashInv, CashTypes
  <2>2. /\ desk' \in [Clerks -> Desk] /\ Source(c)' = Source(c)
        /\ \A d \in Clerks : d # c => desk'[d] = desk[d] /\ Source(d)' = Source(d)
    BY <1>1, <2>1, GoingOn
  <2>3. Source(c) \in Sources BY <1>1, Busy
  <2>4. cash[Source(c)] = 0 BY <1>3, <2>3 DEF CashInv, CashTypes
  <2>5. CashTypes' BY <2>1, <2>2, <2>3 DEF CashInv, CashTypes
  <2>6. InsertedAlone' BY <2>1, <2>4 DEF CashInv, InsertedAlone
  <2>7. PaysWithEntry' BY <2>1, <2>2 DEF CashInv, PaysWithEntry
  <2>8. PaidIsBooked' BY <2>1 DEF CashInv, PaidIsBooked
  <2> QED BY <2>5, <2>6, <2>7, <2>8 DEF CashInv
<1> QED BY <1>2, <1>3

(* What is committed is committed once, and with the payment.              *)
LEMMA WriteKeeps ==
  ASSUME CashInv, NEW c \in Clerks, WriteExpense(c)
  PROVE  CashInv'
<1>1. desk[c].step = "write" BY DEF WriteExpense, At
<1>2. /\ desk[c].op \in Operations /\ desk[c].about \in Expenses
      /\ desk[c].op = "pay" => Source(c) = <<"expense", desk[c].about>>
  BY <1>1, Busy
<1> DEFINE status == StatusAfter(desk[c].op, expense[desk[c].about])
<1>3. /\ status \in Statuses
      /\ status = "paid" => desk[c].op = "pay" \/ expense[desk[c].about] = "paid"
  BY <1>2 DEF StatusAfter, Operations, Statuses, CashInv, CashTypes
<1>4. /\ expense' = [expense EXCEPT ![desk[c].about] = status]
      /\ desk'[c] = Idle /\ inserted'[c] = {}
      /\ \A d \in Clerks : d # c => desk'[d] = desk[d] /\ inserted'[d] = inserted[d]
      /\ desk' \in [Clerks -> Desk] /\ inserted' \in [Clerks -> SUBSET Sources]
  BY DEF WriteExpense, CashInv, CashTypes, Desk
<1>5. /\ cash' \in [Sources -> {0, 1}]
      /\ \A s \in Sources : cash'[s] = IF s \in inserted[c] THEN 1 ELSE cash[s]
  <2>1. ASSUME NEW s \in Sources
        PROVE  (IF s \in inserted[c] THEN cash[s] + 1 ELSE cash[s]) =
               (IF s \in inserted[c] THEN 1 ELSE cash[s])
    BY DEF CashInv, InsertedAlone
  <2>2. cash' = [s \in Sources |-> IF s \in inserted[c] THEN 1 ELSE cash[s]]
    BY <2>1 DEF WriteExpense
  <2> QED BY <2>2 DEF CashInv, CashTypes
<1> HIDE DEF status
<1>6. CashTypes' BY <1>2, <1>3, <1>4, <1>5 DEF CashInv, CashTypes
<1>7. InsertedAlone'
  <2> SUFFICES ASSUME NEW d \in Clerks, NEW s \in inserted'[d]
               PROVE  cash'[s] = 0 /\ \A o \in Clerks : s \in inserted'[o] => o = d
    BY DEF InsertedAlone
  <2>1. d # c /\ s \in inserted[d] BY <1>4
  <2>2. s \in Sources /\ s \notin inserted[c] BY <2>1 DEF CashInv, CashTypes, InsertedAlone
  <2> QED BY <1>4, <1>5, <2>1, <2>2 DEF CashInv, InsertedAlone
<1>8. PaysWithEntry'
  <2> SUFFICES ASSUME NEW d \in Clerks, desk'[d].step = "write", desk'[d].op = "pay"
               PROVE  cash'[Source(d)'] = 1 \/ Source(d)' \in inserted'[d]
    BY DEF PaysWithEntry
  <2>1. d # c BY <1>4 DEF Idle
  <2>2. desk'[d] = desk[d] /\ Source(d)' = Source(d) /\ inserted'[d] = inserted[d]
    BY <1>4, <2>1 DEF Source
  <2>3. Source(d) \in Sources BY <2>2, Busy
  <2> QED BY <1>5, <2>2, <2>3 DEF CashInv, PaysWithEntry
<1>9. PaidIsBooked'
  <2> SUFFICES ASSUME NEW e \in Expenses, expense'[e] = "paid"
               PROVE  cash'[<<"expense", e>>] = 1
    BY DEF PaidIsBooked
  <2>1. <<"expense", e>> \in Sources BY DEF Sources
  <2>2. CASE expense[e] = "paid" BY <1>5, <2>1, <2>2 DEF CashInv, PaidIsBooked
  <2>3. CASE expense[e] # "paid"
    <3>1. e = desk[c].about /\ desk[c].op = "pay"
      BY <1>2, <1>3, <1>4, <2>3 DEF CashInv, CashTypes
    <3>2. Source(c) = <<"expense", e>> BY <1>2, <3>1
    <3>3. cash[Source(c)] = 1 \/ Source(c) \in inserted[c]
      BY <1>1, <3>1 DEF CashInv, PaysWithEntry
    <3> QED BY <1>5, <2>1, <3>2, <3>3
  <2> QED BY <2>2, <2>3
<1> QED BY <1>6, <1>7, <1>8, <1>9 DEF CashInv

-----------------------------------------------------------------------------
(* The invariant holds always.                                             *)
LEMMA CashInvAlways == CashSpec => []CashInv
<1>1. CashInit => CashInv
  BY DEF CashInit, CashInv, CashTypes, Statuses, Desk, InsertedAlone, PaysWithEntry, PaidIsBooked, Idle
<1>2. CashInv /\ [CashNext]_cashVars => CashInv'
  <2> SUFFICES ASSUME CashInv, [CashNext]_cashVars PROVE CashInv' OBVIOUS
  <2>1. ASSUME NEW c \in Clerks, CheckDate(c) PROVE CashInv'
    <3>1. desk[c].step = "date" BY <2>1 DEF CheckDate, At
    <3>2. CASE day = "approved" BY <2>1, <3>2, DroppedKeeps DEF CheckDate
    <3>3. CASE day # "approved" BY <2>1, <3>1, <3>3, GoingOnKeeps DEF CheckDate
    <3> QED BY <3>2, <3>3
  <2>2. ASSUME NEW c \in Clerks, FindEntry(c) PROVE CashInv'
    <3>1. desk[c].step = "find" BY <2>2 DEF FindEntry, At
    <3>2. Source(c) \in Sources BY <3>1, Busy
    <3>3. cash[Source(c)] > 0 => cash[Source(c)] = 1 BY <3>2 DEF CashInv, CashTypes
    <3>4. CASE cash[Source(c)] > 0 /\ desk[c].op = "reverse"
      BY <2>2, <3>4, DroppedKeeps DEF FindEntry
    <3>5. CASE ~(cash[Source(c)] > 0 /\ desk[c].op = "reverse")
      <4>1. /\ GoesTo(c, IF cash[Source(c)] > 0 THEN "write" ELSE "insert")
            /\ UNCHANGED <<expense, cash, day, inserted>>
        BY <2>2, <3>5 DEF FindEntry
      <4> QED BY <3>1, <3>3, <4>1, GoingOnKeeps
    <3> QED BY <3>4, <3>5
  <2>3. ASSUME NEW c \in Clerks, InsertEntry(c) PROVE CashInv' BY <2>3, InsertEntryKeeps
  <2>4. ASSUME NEW c \in Clerks, WriteExpense(c) PROVE CashInv' BY <2>4, WriteKeeps
  <2>5. ASSUME NEW c \in Clerks, LoseClerk(c) PROVE CashInv'
    BY <2>5, DroppedKeeps DEF LoseClerk
  <2> QED BY <2>1, <2>2, <2>3, <2>4, <2>5, DeskKeeps DEF CashNext, Operations
<1> QED BY <1>1, <1>2, PTL DEF CashSpec

(* However many clerks pay, reverse, approve and reject, and wherever they *)
(* are cut off, every source has one cash entry at most.                   *)
THEOREM AlwaysBookedOnce == CashSpec => []BookedOnce
<1>1. CashInv => BookedOnce BY DEF CashInv, CashTypes, BookedOnce
<1> QED BY <1>1, CashInvAlways, PTL

(* No expense is paid without its entry.                                   *)
THEOREM PaidAlwaysBooked == CashSpec => []PaidIsBooked
<1>1. CashInv => PaidIsBooked BY DEF CashInv
<1> QED BY <1>1, CashInvAlways, PTL
===============================================================================
