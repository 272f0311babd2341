----------------------------- MODULE SerialStock -----------------------------
(***************************************************************************)
(* Serial numbers (SIMs, scratch cards) on their way from a receipt to a   *)
(* sale: received, issued to an employee, returned and verified, sold.     *)
(* Code: backend/app/services/inventory_service.py and                     *)
(* field_sales_service.py.                                                 *)
(*                                                                         *)
(* Every operation locks the document and the serial units it decides on,  *)
(* and commits at its end, so that an operation is one action; a refused   *)
(* one is rolled back and changes nothing.  What is hard is the order in   *)
(* which documents about the same unit are written: a unit that came back  *)
(* may be issued, returned and sold again while older documents that name  *)
(* it are still open.                                                      *)
(***************************************************************************)
EXTENDS Integers, FiniteSets

CONSTANTS
  Units,       \* serial units of one house and product
  Employees,   \* who carries stock; a bag is named by its employee
  House,       \* the house's own stock
  Quarantine,  \* where damaged units go
  None,        \* NULL: no employee, no location
  Receipts,    \* ids of receiving vouchers
  Returns,     \* ids of return vouchers
  Sales        \* ids of field sales

Places == Employees \cup {House, Quarantine}

ASSUME PlacesAssumption ==
  /\ House \notin Employees \cup {Quarantine, None}
  /\ Quarantine \notin Employees \cup {None}
  /\ None \notin Employees

VARIABLES
  unit,     \* table serial_units
  ledger,   \* table inventory_ledger: per unit and place, the sum of quantities
  receipt,  \* receiving vouchers and the units they name
  return,   \* return vouchers: status, employee, units
  sale      \* field sales: status, employee, units

vars == <<unit, ledger, receipt, return, sale>>

Unit == [status : {"none", "received", "available", "assigned", "returned", "damaged", "sold"},
         employee : Employees \cup {None}, location : Places \cup {None}]
Receipt == [status : {"none", "draft", "posted"}, units : SUBSET Units]
Return == [status : {"none", "submitted", "verified"}, employee : Employees \cup {None},
           units : SUBSET Units]
Sale == [status : {"none", "draft", "submitted", "approved", "rejected"},
         employee : Employees \cup {None}, units : SUBSET Units]

NoUnit == [status |-> "none", employee |-> None, location |-> None]
InStock == [status |-> "available", employee |-> None, location |-> House]
InBag(e) == [status |-> "assigned", employee |-> e, location |-> e]

(* The units of us become what the function row says.                      *)
Become(us, row) == unit' = [u \in Units |-> IF u \in us THEN row[u] ELSE unit[u]]

(* Every unit of us gets ledger rows: one less there, one more here.       *)
LedgerOut(us, place) ==
  ledger' = [u \in Units |-> IF u \in us THEN [ledger[u] EXCEPT ![place] = @ - 1] ELSE ledger[u]]
LedgerIn(us, place) ==
  ledger' = [u \in Units |-> IF u \in us THEN [ledger[u] EXCEPT ![place] = @ + 1] ELSE ledger[u]]
LedgerMove(us, from, to) ==
  ledger' = [u \in Units |-> IF u \in us
                               THEN [ledger[u] EXCEPT ![from] = @ - 1, ![to] = @ + 1]
                               ELSE ledger[u]]

-----------------------------------------------------------------------------
(* Receipts.                                                               *)

(* A draft creates the units it names; a serial that exists already is     *)
(* refused by the unique key.                                              *)
CreateReceipt(d, us) ==
  /\ receipt[d].status = "none" /\ us # {}
  /\ \A u \in us : unit[u].status = "none"
  /\ receipt' = [receipt EXCEPT ![d] = [status |-> "draft", units |-> us]]
  /\ Become(us, [u \in us |-> [status |-> "received", employee |-> None, location |-> House]])
  /\ UNCHANGED <<ledger, return, sale>>

PostReceipt(d) ==
  LET us == receipt[d].units IN
  /\ receipt[d].status = "draft"
  /\ \A u \in us : unit[u].status = "received"
  /\ Become(us, [u \in us |-> InStock])
  /\ LedgerIn(us, House)
  /\ receipt' = [receipt EXCEPT ![d].status = "posted"]
  /\ UNCHANGED <<return, sale>>

(* permanently_delete_draft_receipt: the units it created go with it,      *)
(* unless another document or the ledger names one of them.                *)
DeleteReceipt(d) ==
  LET us == receipt[d].units IN
  /\ receipt[d].status = "draft"
  /\ \A u \in us :
       /\ unit[u].status = "received"
       /\ \A p \in Places : ledger[u][p] = 0
       /\ \A r \in Returns : u \notin return[r].units
       /\ \A s \in Sales : u \notin sale[s].units
  /\ Become(us, [u \in us |-> NoUnit])
  /\ receipt' = [receipt EXCEPT ![d] = [status |-> "none", units |-> {}]]
  /\ UNCHANGED <<ledger, return, sale>>

-----------------------------------------------------------------------------
(* Issues and returns.                                                     *)

IssueStock(us, e) ==
  /\ us # {} /\ \A u \in us : unit[u].status = "available"
  /\ Become(us, [u \in us |-> InBag(e)])
  /\ LedgerMove(us, House, e)
  /\ UNCHANGED <<receipt, return, sale>>

(* The units stay with the employee until the return is verified, but the  *)
(* ledger takes them out of the bag at once.                               *)
CreateReturn(r, us, e) ==
  /\ return[r].status = "none" /\ us # {}
  /\ \A u \in us : unit[u].employee = e /\ unit[u].status = "assigned"
  /\ return' = [return EXCEPT ![r] = [status |-> "submitted", employee |-> e, units |-> us]]
  /\ Become(us, [u \in us |-> [unit[u] EXCEPT !.status = "returned"]])
  /\ LedgerOut(us, e)
  /\ UNCHANGED <<receipt, sale>>

Decisions == {"accept", "damaged", "reject"}

(* What a decision makes of a unit, given who the voucher is for.          *)
Decided(decision, e) ==
  CASE decision = "accept"  -> InStock
    [] decision = "damaged" -> [status |-> "damaged", employee |-> None, location |-> Quarantine]
    [] decision = "reject"  -> InBag(e)

(* A decided unit is recorded where it goes.                               *)
VerifiedLedger(decided, e) ==
  [u \in Units |->
     IF u \in DOMAIN decided
       THEN [ledger[u] EXCEPT ![Decided(decided[u], e).location] = @ + 1]
       ELSE ledger[u]]

(* Fault: one round of decisions closes the voucher.                       *)
VerifyReturnAtOnce(r, decided) ==
  LET e == return[r].employee IN
  /\ return[r].status = "submitted"
  /\ \A u \in DOMAIN decided : unit[u].status = "returned"
  /\ Become(DOMAIN decided, [u \in DOMAIN decided |-> Decided(decided[u], e)])
  /\ ledger' = VerifiedLedger(decided, e)
  /\ return' = [return EXCEPT ![r].status = "verified"]
  /\ UNCHANGED <<receipt, sale>>

(* Any part of the voucher may be decided; it is verified when none of its *)
(* units is in status returned.  A unit is known by that status, whichever *)
(* voucher put it there.                                                   *)
VerifyReturn(r, decided) ==
  LET e == return[r].employee IN
  /\ return[r].status = "submitted"
  /\ \A u \in DOMAIN decided : unit[u].status = "returned"
  /\ Become(DOMAIN decided, [u \in DOMAIN decided |-> Decided(decided[u], e)])
  /\ ledger' = VerifiedLedger(decided, e)
  /\ IF \A u \in return[r].units \ DOMAIN decided : unit[u].status # "returned"
       THEN return' = [return EXCEPT ![r].status = "verified"]
       ELSE UNCHANGED return
  /\ UNCHANGED <<receipt, sale>>

-----------------------------------------------------------------------------
(* Field sales.                                                            *)

(* validate_sale_items: the units are in the employee's bag, and no other  *)
(* submitted sale names one of them.                                       *)
Sellable(us, e, s) ==
  /\ \A u \in us : unit[u].employee = e /\ unit[u].status = "assigned"
  /\ \A o \in Sales \ {s} : sale[o].status = "submitted" => sale[o].units \cap us = {}

Submitted(submit) == IF submit THEN "submitted" ELSE "draft"

CreateSale(s, e, us, submit) ==
  /\ sale[s].status = "none" /\ us # {}
  /\ Sellable(us, e, s)
  /\ sale' = [sale EXCEPT ![s] = [status |-> Submitted(submit), employee |-> e, units |-> us]]
  /\ UNCHANGED <<unit, ledger, receipt, return>>

(* The form may change the employee, the items or neither, and submit.     *)
(* Items are validated when they are given, and only then.                 *)
UpdateSale(s, e, us, submit) ==
  /\ sale[s].status \in {"draft", "rejected"} /\ us # {}
  /\ \/ us = sale[s].units
     \/ Sellable(us, e, s)
  /\ sale' = [sale EXCEPT ![s] = [status |-> IF submit THEN "submitted" ELSE @.status,
                                  employee |-> e, units |-> us]]
  /\ UNCHANGED <<unit, ledger, receipt, return>>

SubmitSale(s) ==
  /\ sale[s].status \in {"draft", "rejected"}
  /\ Sellable(sale[s].units, sale[s].employee, s)
  /\ sale' = [sale EXCEPT ![s].status = "submitted"]
  /\ UNCHANGED <<unit, ledger, receipt, return>>

(* Fault: that the sale was submitted is taken for the units' state.       *)
ApproveSaleTrusting(s) ==
  LET us == sale[s].units
      e == sale[s].employee
  IN
  /\ sale[s].status = "submitted"
  /\ Become(us, [u \in us |-> [NoUnit EXCEPT !.status = "sold"]])
  /\ LedgerOut(us, e)
  /\ sale' = [sale EXCEPT ![s].status = "approved"]
  /\ UNCHANGED <<receipt, return>>

(* The units are looked at again, under their locks.                       *)
ApproveSale(s) ==
  LET us == sale[s].units
      e == sale[s].employee
  IN
  /\ sale[s].status = "submitted"
  /\ \A u \in us : unit[u].status = "assigned" /\ unit[u].employee = e
  /\ Become(us, [u \in us |-> [NoUnit EXCEPT !.status = "sold"]])
  /\ LedgerOut(us, e)
  /\ sale' = [sale EXCEPT ![s].status = "approved"]
  /\ UNCHANGED <<receipt, return>>

(* Fault: a sale can be rejected after its approval.                       *)
RejectSaleAny(s) ==
  /\ sale[s].status \in {"submitted", "approved"}
  /\ sale' = [sale EXCEPT ![s].status = "rejected"]
  /\ UNCHANGED <<unit, ledger, receipt, return>>

RejectSale(s) ==
  /\ sale[s].status = "submitted"
  /\ sale' = [sale EXCEPT ![s].status = "rejected"]
  /\ UNCHANGED <<unit, ledger, receipt, return>>

-----------------------------------------------------------------------------
Init ==
  /\ unit = [u \in Units |-> NoUnit]
  /\ ledger = [u \in Units |-> [p \in Places |-> 0]]
  /\ receipt = [d \in Receipts |-> [status |-> "none", units |-> {}]]
  /\ return = [r \in Returns |-> [status |-> "none", employee |-> None, units |-> {}]]
  /\ sale = [s \in Sales |-> [status |-> "none", employee |-> None, units |-> {}]]

Store ==
  \/ \E d \in Receipts, us \in SUBSET Units : CreateReceipt(d, us)
  \/ \E d \in Receipts : PostReceipt(d)
  \/ \E d \in Receipts : DeleteReceipt(d)
  \/ \E us \in SUBSET Units, e \in Employees : IssueStock(us, e)
  \/ \E r \in Returns, us \in SUBSET Units, e \in Employees : CreateReturn(r, us, e)
  \/ \E r \in Returns : \E us \in (SUBSET return[r].units) \ {{}} :
       \E decided \in [us -> Decisions] : VerifyReturn(r, decided)

Field ==
  \/ \E s \in Sales, e \in Employees, us \in SUBSET Units, submit \in BOOLEAN :
       CreateSale(s, e, us, submit) \/ UpdateSale(s, e, us, submit)
  \/ \E s \in Sales : SubmitSale(s)
  \/ \E s \in Sales : ApproveSale(s)
  \/ \E s \in Sales : RejectSale(s)

Next == Store \/ Field

Spec == Init /\ [][Next]_vars

-----------------------------------------------------------------------------
(* Properties.                                                             *)

(* Every row has the columns and values its table allows.                  *)
TypeOK ==
  /\ unit \in [Units -> Unit]
  /\ ledger \in [Units -> [Places -> Int]]
  /\ receipt \in [Receipts -> Receipt]
  /\ return \in [Returns -> Return]
  /\ sale \in [Sales -> Sale]

(* Where a unit counts as stock: nowhere before it is posted, while its    *)
(* return is open, and after its sale.                                     *)
Counts(u, p) ==
  unit[u].status \in {"available", "assigned", "damaged"} /\ unit[u].location = p

(* Stock of the house is in the house, and a bag holds its holder's units. *)
Placed(u) ==
  /\ unit[u].status = "available" => unit[u].location = House
  /\ unit[u].status \in {"assigned", "returned"} =>
       unit[u].employee \in Employees /\ unit[u].location = unit[u].employee

(* The ledger, an append-only table written beside the units, always adds  *)
(* up to where the units are, through any history of issues, partial       *)
(* verifications and sales.                                                *)
LedgerBalances ==
  \A u \in Units :
    /\ \A p \in Places : ledger[u][p] = IF Counts(u, p) THEN 1 ELSE 0
    /\ Placed(u)

(* A unit is sold if and only if one approved sale names it, and by one    *)
(* only, although two submitted sales may name it.                         *)
SoldOnce ==
  /\ \A u \in Units :
       unit[u].status = "sold" <=> \E s \in Sales : sale[s].status = "approved" /\ u \in sale[s].units
  /\ \A s, t \in Sales :
       sale[s].status = "approved" /\ sale[t].status = "approved" /\ s # t
         => sale[s].units \cap sale[t].units = {}

(* A unit that waits for verification is named by an open return, so that  *)
(* a decision about it is still possible, however vouchers overlap.        *)
ReturnedUnitsPending ==
  \A u \in Units :
    unit[u].status = "returned" => \E r \in Returns : return[r].status = "submitted" /\ u \in return[r].units

(* A unit exists exactly while one receipt names it, waits exactly while   *)
(* that is a draft, and what other documents name is never deleted.        *)
ReceiptsOwnUnits ==
  /\ \A u \in Units : unit[u].status # "none" <=> \E d \in Receipts : u \in receipt[d].units
  /\ \A d \in Receipts : \A u \in receipt[d].units :
       receipt[d].status = "draft" <=> unit[u].status = "received"
  /\ \A c, d \in Receipts : c # d => receipt[c].units \cap receipt[d].units = {}
  /\ \A r \in Returns : \A u \in return[r].units : unit[u].status \notin {"none", "received"}
  /\ \A s \in Sales : \A u \in sale[s].units : unit[u].status \notin {"none", "received"}

(* A rejected return gives a unit back to the employee who returned it.    *)
(* No run checks it, for it does not hold: a partly verified voucher still *)
(* names the units it has let go, and a unit that is issued to and         *)
(* returned by somebody else meanwhile can be rejected through it.         *)
ReturnedToReturner ==
  [][\A u \in Units :
       unit[u].status = "returned" /\ unit'[u].status = "assigned"
         => unit'[u].employee = unit[u].employee]_vars
=============================================================================
