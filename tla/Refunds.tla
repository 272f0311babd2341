------------------------------ MODULE Refunds ------------------------------
(***************************************************************************)
(* Refunds of approved payments.  A clerk records a refund ("processing"), *)
(* gives the money back, and completes the refund, or rejects it when the  *)
(* transfer bounced.  Code: backend/app/routers/admin_billing.py, with the *)
(* tables of backend/app/models/payment.py.                                *)
(*                                                                         *)
(* Every request has a session of its own: it decides on the rows it has   *)
(* loaded and writes them later.  Completing locks the payment's row from  *)
(* CompleteLock to its commit; recording and rejecting lock nothing, but a *)
(* new refund refers to the payment, whose row its insertion shares.       *)
(***************************************************************************)
EXTENDS Naturals, FiniteSetsExt

CONSTANTS
  Payments,    \* approved payments
  Price,       \* the amount of each
  RefundIds,   \* the rows the table can hold
  Creations,   \* requests that record a refund
  Completions, \* requests that complete one
  Rejections   \* requests that reject one

Requests == Creations \cup Completions \cup Rejections

ASSUME RefundsAssumption ==
  /\ Price \in Nat \ {0}
  /\ Payments # {}
  /\ RefundIds # {} /\ IsFiniteSet(RefundIds)
  /\ Creations \cap (Completions \cup Rejections) = {}
  /\ Completions \cap Rejections = {}

VARIABLES
  status,  \* table payments: status
  refund,  \* table refunds
  pc,      \* where each request is
  txn      \* what each request has read into its session

vars == <<status, refund, pc, txn>>

PaymentStatuses == {"succeeded", "partially_refunded", "refunded"}
RefundStatuses == {"none", "processing", "succeeded", "failed"}
RefundRow == [payment : Payments, amount : 0..Price, status : RefundStatuses]
Session == [payment : Payments, refund : RefundIds, amount : Nat]

Stages == {"new", "loaded", "locked", "summed", "done"}

-----------------------------------------------------------------------------
(* Amounts.                                                                *)

RefundsOf(p, statuses) == {r \in RefundIds : refund[r].payment = p /\ refund[r].status \in statuses}

Amounts == [r \in RefundIds |-> refund[r].amount]

SumOf(rows) == SumFunctionOnSet(Amounts, rows)

(* _reserved_refund_amount, with REFUND_ACTIVE_STATUSES.                   *)
Reserved(p) == SumOf(RefundsOf(p, {"processing", "succeeded"}))

(* What has been recorded, given back or not, and what has been returned.  *)
Recorded(p) == SumOf(RefundsOf(p, {"processing", "succeeded"}))
Returned(p) == SumOf(RefundsOf(p, {"succeeded"}))

(* The ledger, with the completed refunds as what was returned.            *)
Ledger == INSTANCE RefundLedger WITH returned <- [p \in Payments |-> Returned(p)]

-----------------------------------------------------------------------------
(* Sessions and locks.                                                     *)

(* No completion holds the payment's row.                                  *)
PaymentFree(p) ==
  \A c \in Completions : pc[c] \in {"locked", "summed"} => txn[c].payment # p

(* The row of a refund that is being completed is locked once its update   *)
(* is flushed.                                                             *)
RefundFree(r) == \A c \in Completions : pc[c] = "summed" => txn[c].refund # r

Continue(q, stage, session) ==
  /\ pc' = [pc EXCEPT ![q] = stage]
  /\ txn' = [txn EXCEPT ![q] = session]

Blank == [payment |-> CHOOSE p \in Payments : TRUE, refund |-> CHOOSE r \in RefundIds : TRUE,
          amount |-> 0]

Finish(q) == Continue(q, "done", Blank)

-----------------------------------------------------------------------------
(* admin_create_refund: what is left of the payment bounds the amount.     *)
CreateLoad(k, p, amount) ==
  /\ pc[k] = "new"
  /\ status[p] \in {"succeeded", "partially_refunded"}
  /\ amount + Reserved(p) <= Price
  /\ Continue(k, "loaded", [Blank EXCEPT !.payment = p, !.amount = amount])
  /\ UNCHANGED <<status, refund>>

CreateCommit(k) ==
  LET t == txn[k] IN
  /\ pc[k] = "loaded"
  /\ PaymentFree(t.payment)
  /\ \E r \in RefundIds :
       /\ refund[r].status = "none"
       /\ refund' = [refund EXCEPT ![r] = [payment |-> t.payment, amount |-> t.amount,
                                           status |-> "processing"]]
  /\ Finish(k)
  /\ UNCHANGED status

-----------------------------------------------------------------------------
(* admin_complete_refund and admin_reject_refund load the refund.          *)
Load(q, r) ==
  /\ pc[q] = "new"
  /\ refund[r].status = "processing"
  /\ Continue(q, "loaded", [Blank EXCEPT !.payment = refund[r].payment, !.refund = r])
  /\ UNCHANGED <<status, refund>>

(* Fault: the payment is read without its lock.                            *)
CompleteLockless(c) ==
  /\ pc[c] = "loaded"
  /\ Continue(c, "locked", txn[c])
  /\ UNCHANGED <<status, refund>>

(* The payment's row is locked.  The refund is not read again.             *)
CompleteLock(c) ==
  /\ pc[c] = "loaded"
  /\ PaymentFree(txn[c].payment)
  /\ Continue(c, "locked", txn[c])
  /\ UNCHANGED <<status, refund>>

(* Fault: the refund is flushed after the sum is taken.                    *)
CompleteSumBeforeFlush(c) ==
  LET p == txn[c].payment IN
  /\ pc[c] = "locked"
  /\ Continue(c, "summed", [txn[c] EXCEPT !.amount = Returned(p)])
  /\ UNCHANGED <<status, refund>>

(* Fault: a refund that is not in progress any more is waited for, with the *)
(* payment locked.                                                         *)
CompleteSumWaiting(c) ==
  LET r == txn[c].refund IN
  /\ pc[c] = "locked"
  /\ refund[r].status = "processing"
  /\ Continue(c, "summed", [txn[c] EXCEPT !.amount = Returned(txn[c].payment) + refund[r].amount])
  /\ UNCHANGED <<status, refund>>

(* The refund is flushed as succeeded, and the total is taken over it and  *)
(* over what others have committed.                                        *)
CompleteSum(c) ==
  LET r == txn[c].refund
      p == txn[c].payment
  IN
  /\ pc[c] = "locked"
  /\ RefundFree(r)
  /\ Continue(c, "summed", [txn[c] EXCEPT !.amount = SumOf(RefundsOf(p, {"succeeded"}) \cup {r})])
  /\ UNCHANGED <<status, refund>>

CompleteCommit(c) ==
  LET t == txn[c] IN
  /\ pc[c] = "summed"
  /\ refund' = [refund EXCEPT ![t.refund].status = "succeeded"]
  /\ status' = [status EXCEPT ![t.payment] = IF t.amount >= Price THEN "refunded"
                                             ELSE "partially_refunded"]
  /\ Finish(c)

(* The status loaded at the beginning decides; nothing is locked.          *)
RejectCommit(j) ==
  LET t == txn[j] IN
  /\ pc[j] = "loaded"
  /\ RefundFree(t.refund)
  /\ refund' = [refund EXCEPT ![t.refund].status = "failed"]
  /\ Finish(j)
  /\ UNCHANGED status

-----------------------------------------------------------------------------
(* Approved payments with any refunds recorded and completed before, and   *)
(* room in the table for every new one.                                    *)
NoRefund == [payment |-> Blank.payment, amount |-> 0, status |-> "none"]

Init ==
  /\ refund \in [RefundIds -> [payment : Payments, amount : 1..Price,
                               status : RefundStatuses \ {"none"}] \cup {NoRefund}]
  /\ Cardinality({r \in RefundIds : refund[r].status = "none"}) >= Cardinality(Creations)
  /\ \A p \in Payments : Recorded(p) <= Price
  /\ status = [p \in Payments |-> Ledger!StatusOf(Returned(p))]
  /\ pc = [q \in Requests |-> "new"]
  /\ txn = [q \in Requests |-> Blank]

Arrive ==
  \/ \E k \in Creations, p \in Payments, amount \in 1..Price : CreateLoad(k, p, amount)
  \/ \E q \in Completions \cup Rejections, r \in RefundIds : Load(q, r)

Advance(q) ==
  \/ q \in Creations /\ CreateCommit(q)
  \/ q \in Completions /\ CompleteLock(q)
  \/ q \in Completions /\ CompleteSum(q)
  \/ q \in Completions /\ CompleteCommit(q)
  \/ q \in Rejections /\ RejectCommit(q)

(* Nothing is left to do.                                                  *)
Rest == (\A q \in Requests : pc[q] \in {"new", "done"}) /\ UNCHANGED vars

Next ==
  \/ Arrive
  \/ \E q \in Requests : Advance(q)
  \/ Rest

(* The event loop resumes every request, and the database serves every     *)
(* statement once the rows it needs are free.                              *)
Fairness == \A q \in Requests : WF_vars(Advance(q))

Spec == Init /\ [][Next]_vars /\ Fairness

-----------------------------------------------------------------------------
(* Properties.                                                             *)

(* Rows and sessions have the values they may have.                        *)
TypeOK ==
  /\ status \in [Payments -> PaymentStatuses]
  /\ refund \in [RefundIds -> RefundRow]
  /\ pc \in [Requests -> Stages]
  /\ txn \in [Requests -> Session]

(* Refunds in progress and refunds done never exceed the payment.          *)
NotOverRefunded == \A p \in Payments : Recorded(p) <= Price

(* A payment never says less than its completed refunds: two completions   *)
(* that overlap see each other's amount.                                   *)
NeverUnderstated ==
  \A p \in Payments :
    /\ Returned(p) >= Price => status[p] = "refunded"
    /\ Returned(p) > 0 => status[p] # "succeeded"

(* A payment never says more than its completed refunds: money is not      *)
(* reported as given back that was not.  Part of the ledger that one clerk *)
(* keeps; no run checks it with rejections, which it does not survive: one *)
(* that was decided before the completion undoes the refund.               *)
NeverOverstated ==
  \A p \in Payments :
    /\ status[p] = "refunded" => Returned(p) >= Price
    /\ status[p] = "partially_refunded" => Returned(p) > 0

(* Clerks record one refund after the other, and nobody rejects one: the   *)
(* conditions under which the tables are the ledger of RefundLedger.       *)
OneAtATime ==
  /\ \A k, l \in Creations : pc[k] = "loaded" /\ pc[l] = "loaded" => k = l
  /\ \A j \in Rejections : pc[j] = "new"

(* Every completion and rejection that has begun is answered: the locks    *)
(* never leave one waiting for ever.                                       *)
EveryRequestAnswered == \A q \in Requests : pc[q] # "new" ~> pc[q] = "done"
=============================================================================
