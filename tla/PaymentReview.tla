---------------------------- MODULE PaymentReview ----------------------------
(***************************************************************************)
(* The review of offline payments: tenants submit payment requests for     *)
(* open invoices, billing administrators approve, reject or question them, *)
(* or record cash directly.  Code: backend/app/services/                   *)
(* payment_requests.py, manual_payment.py, subscription_service.py and the *)
(* routers that call them.                                                 *)
(*                                                                         *)
(* Every HTTP request is a process with a database session of its own.  It *)
(* reads rows into memory, awaits, and writes later, so the rows may have  *)
(* changed in between; the database runs READ COMMITTED, so a read sees    *)
(* only committed rows and an UPDATE waits for the row's lock and then     *)
(* overwrites whatever it finds.  An action is one stretch of a request    *)
(* between two points where it can wait for, or be seen by, another one.   *)
(* The row locks are not variables: which request holds which row follows  *)
(* from the program counters (HoldsPayment, HoldsInvoice, Inserting).      *)
(***************************************************************************)
EXTENDS Naturals, Sequences, FiniteSets

CONSTANTS
  Houses,        \* the tenants; each has one subscription
  Invoices,      \* invoice ids, in the order the database hands them out
  Owner,         \* [Invoices -> Houses]: who an invoice is issued to
  References,    \* normalized transaction references a payer may claim
  NoRef,         \* no reference given
  NoPayment,     \* the absent payment
  Submissions,   \* POST /billing/payments/request
  CashEntries,   \* POST /admin/invoices/{id}/mark-paid
  Approvals,     \* POST /admin/payments/{id}/approve
  Rejections,    \* POST /admin/payments/{id}/reject
  InfoRequests,  \* POST /admin/payments/{id}/request-info
  Issuers,       \* whoever issues an invoice: runner, renew, admin
  Unreliable,    \* the requests a disconnect or a crash may cut off
  Interval,      \* length of a billing period
  TrialLength,   \* length of the free tier, 0 for none
  MaxTime        \* bound on the clock

ASSUME ConstantsAssumption ==
  /\ Invoices \subseteq Nat /\ Invoices # {}
  /\ Owner \in [Invoices -> Houses]
  /\ \A h \in Houses : Cardinality({i \in Invoices : Owner[i] = h}) > Cardinality(Issuers)
  /\ NoRef \notin References
  /\ Interval \in Nat \ {0}
  /\ TrialLength \in Nat
  /\ MaxTime \in Nat

(* No request is of two kinds.                                             *)
ASSUME RequestsAssumption ==
  /\ Submissions \cap (CashEntries \cup Approvals \cup Rejections
                         \cup InfoRequests \cup Issuers) = {}
  /\ CashEntries \cap (Approvals \cup Rejections \cup InfoRequests
                         \cup Issuers) = {}
  /\ Approvals \cap (Rejections \cup InfoRequests \cup Issuers) = {}
  /\ Rejections \cap (InfoRequests \cup Issuers) = {}
  /\ InfoRequests \cap Issuers = {}
  /\ NoPayment \notin Submissions \cup CashEntries
  /\ Unreliable \subseteq Submissions \cup CashEntries \cup Approvals
                   \cup Rejections \cup InfoRequests \cup Issuers

(* A payment row is named by the request that inserts it.                  *)
Payments == Submissions \cup CashEntries
Requests == Payments \cup Approvals \cup Rejections \cup InfoRequests \cup Issuers
AnyRef == References \cup {NoRef}

VARIABLES
  invoice,      \* table invoices: status and end of the billing period
  sub,          \* table house_subscriptions: status and current_period_end
  payment,      \* table payments: status, invoice and claimed reference
  activations,  \* per invoice, the payments that marked it paid, in order
  pc,           \* where each request is
  txn,          \* what each request has read into its session
  reply,        \* what each request answered
  now           \* the clock (now_naive)

vars == <<invoice, sub, payment, activations, pc, txn, reply, now>>
tables == <<invoice, sub, payment, activations>>

InvoiceRow == [status : {"none", "issued", "paid"}, end : Nat]
SubRow == [status : {"trialing", "expired", "active"}, end : Nat]
PaymentRow == [status : {"none", "pending", "needs_info", "succeeded", "failed"},
               inv : Invoices, ref : AnyRef]

AnyInvoice == CHOOSE i \in Invoices : TRUE
NoPaymentRow == [status |-> "none", inv |-> AnyInvoice, ref |-> NoRef]

(* What a session holds: the target invoice and payment, the superseded    *)
(* needs_info payment, the claimed reference, the subscription as it was   *)
(* when it was loaded, the period end computed from it, and the pending    *)
(* payments found for supersession.                                        *)
Session == [inv : Invoices, pay : Payments \cup {NoPayment},
            old : Payments \cup {NoPayment}, ref : AnyRef,
            seen : SubRow, end : Nat, listed : SUBSET Payments]
NoSub == [status |-> "expired", end |-> 0]
Blank == [inv |-> AnyInvoice, pay |-> NoPayment, old |-> NoPayment, ref |-> NoRef,
          seen |-> NoSub, end |-> 0, listed |-> {}]

Stages == {"new", "loaded", "locked", "ready", "claimed", "inserted", "settled",
           "superseding", "done"}
Replies == {"none", "ok", "refused", "already_approved", "already_paid", "failed",
            "aborted"}

-----------------------------------------------------------------------------
(* Row locks and the unique index.                                         *)

(* SELECT ... FOR UPDATE on the payment (approval), or the UPDATE that     *)
(* autoflush issued for the superseded request (submission).               *)
HoldsPayment(r, p) ==
  \/ r \in Approvals /\ pc[r] \in {"locked", "ready"} /\ txn[r].pay = p
  \/ r \in Submissions /\ pc[r] = "claimed" /\ txn[r].old = p

(* Fault: approvals do not lock the invoice.                               *)
HoldsInvoiceNever(r, i) == FALSE

(* SELECT ... FOR UPDATE on the invoice (approval).                        *)
HoldsInvoice(r, i) == r \in Approvals /\ pc[r] = "ready" /\ txn[r].inv = i

(* An uncommitted INSERT INTO payments: it keeps its unique keys reserved  *)
(* and, by the foreign key, a share lock on the invoice row.               *)
Inserting(r) == r \in CashEntries /\ pc[r] = "inserted"

PaymentFree(p) == p = NoPayment \/ \A r \in Requests : ~HoldsPayment(r, p)
InvoiceFree(i) == \A r \in Requests : ~HoldsInvoice(r, i)

(* The rows of the partial unique index.                                   *)
Live(p) == payment[p].status \notin {"none", "failed"}

(* An uncommitted change of the index entry of this reference: an          *)
(* insertion, or a superseded payment about to release it.                 *)
Reserves(r, ref) ==
  \/ Inserting(r) /\ txn[r].ref = ref
  \/ /\ r \in Submissions /\ pc[r] = "claimed"
     /\ txn[r].old # NoPayment /\ Live(txn[r].old) /\ payment[txn[r].old].ref = ref

ReferenceFree(r, ref) ==
  ref = NoRef \/ \A o \in Requests \ {r} : ~Reserves(o, ref)

(* uq_payment_transaction_reference: the reference is taken by a live      *)
(* payment other than those in ignored.                                    *)
ReferenceTaken(ref, ignored) ==
  ref # NoRef /\ \E p \in Payments \ ignored : Live(p) /\ payment[p].ref = ref

(* uq_payment_gateway_tran_id for CASH-<invoice_no>.                       *)
CashRecorded(i) == \E p \in CashEntries : payment[p].status # "none" /\ payment[p].inv = i

-----------------------------------------------------------------------------
(* Reads and writes the handlers share.                                    *)

PaymentsOf(i, status) == {p \in Payments : payment[p].status = status /\ payment[p].inv = i}

(* A newer open invoice replaced this order.                               *)
Replaced(i) == \E j \in Invoices : j > i /\ Owner[j] = Owner[i] /\ invoice[j].status = "issued"

(* ensure_no_open_invoice.                                                 *)
HasOpenInvoice(h) == \E j \in Invoices : Owner[j] = h /\ invoice[j].status = "issued"

OtherPaid(i) == \E j \in Invoices \ {i} : Owner[j] = Owner[i] /\ invoice[j].status = "paid"

(* Fault: every payment buys a period from now on.                         *)
PaidPeriodFromNow(i, seen) == now + Interval

(* mark_invoice_paid, first half: the period end a payment of invoice i    *)
(* buys, decided from the subscription as the session loaded it.           *)
PaidPeriodEnd(i, seen) ==
  LET renewal == OtherPaid(i) \/ seen.status \in {"active", "past_due"}
      start == IF renewal /\ seen.end > now THEN seen.end ELSE now
  IN  start + Interval

(* Fault: a subscription that is still usable is not written.              *)
MarkInvoicePaidUsable(r, i, p, end) ==
  /\ invoice' = [invoice EXCEPT ![i] = [status |-> "paid", end |-> end]]
  /\ IF sub[Owner[i]].end > now
       THEN UNCHANGED sub
       ELSE sub' = [sub EXCEPT ![Owner[i]] = [status |-> "active", end |-> end]]
  /\ activations' = [activations EXCEPT ![i] = Append(@, [by |-> r, pay |-> p])]

(* mark_invoice_paid, second half: the rows it writes.  activations is the *)
(* subscription change log, which records who paid what with what.         *)
MarkInvoicePaid(r, i, p, end) ==
  /\ invoice' = [invoice EXCEPT ![i] = [status |-> "paid", end |-> end]]
  /\ sub' = [sub EXCEPT ![Owner[i]] = [status |-> "active", end |-> end]]
  /\ activations' = [activations EXCEPT ![i] = Append(@, [by |-> r, pay |-> p])]

(* The request answers; its session closes, and what it did not commit is  *)
(* rolled back.                                                            *)
Answer(r, code) ==
  /\ pc' = [pc EXCEPT ![r] = "done"]
  /\ reply' = [reply EXCEPT ![r] = code]
  /\ txn' = [txn EXCEPT ![r] = Blank]
  /\ UNCHANGED now

(* The request keeps what it read and goes on to the next stage.           *)
Continue(r, stage, session) ==
  /\ pc' = [pc EXCEPT ![r] = stage]
  /\ txn' = [txn EXCEPT ![r] = session]
  /\ UNCHANGED <<reply, now>>

-----------------------------------------------------------------------------
(* Submission: submit_request.                                             *)

(* The router loads the invoice; the service checks that it is open, not   *)
(* replaced, not stale and without a pending payment, and finds the        *)
(* needs_info payment that the new one will supersede.                     *)
SubmitLoad(s, i, ref) ==
  /\ pc[s] = "new"
  /\ invoice[i].status = "issued"
  /\ ~Replaced(i)
  /\ now <= invoice[i].end + Interval
  /\ PaymentsOf(i, "pending") = {}
  /\ \E old \in PaymentsOf(i, "needs_info") \cup {NoPayment} :
       /\ old = NoPayment => PaymentsOf(i, "needs_info") = {}
       /\ Continue(s, "loaded", [Blank EXCEPT !.inv = i, !.ref = ref, !.old = old])
  /\ UNCHANGED tables

(* The look-up of the reference's owner first flushes the superseded       *)
(* payment as failed, which takes its row lock.                            *)
SubmitCheckReference(s) ==
  LET t == txn[s] IN
  /\ pc[s] = "loaded" /\ t.ref # NoRef
  /\ PaymentFree(t.old)
  /\ IF ReferenceTaken(t.ref, {t.old})
       THEN Answer(s, "refused")
       ELSE Continue(s, "claimed", t)
  /\ UNCHANGED tables

(* Fault: no unique index stands behind the look-up.                       *)
SubmitCommitUnchecked(s) ==
  LET t == txn[s] IN
  /\ \/ pc[s] = "claimed"
     \/ pc[s] = "loaded" /\ t.ref = NoRef /\ PaymentFree(t.old)
  /\ InvoiceFree(t.inv)
  /\ Answer(s, "ok")
  /\ payment' = [p \in Payments |->
                   CASE p = s -> [status |-> "pending", inv |-> t.inv, ref |-> t.ref]
                     [] p # s /\ p = t.old -> [payment[p] EXCEPT !.status = "failed"]
                     [] OTHER -> payment[p]]
  /\ UNCHANGED <<invoice, sub, activations>>

(* INSERT and COMMIT: waits for the invoice row an approval has locked and *)
(* for an insertion of the same reference; the unique index has the last   *)
(* word.                                                                   *)
SubmitCommit(s) ==
  LET t == txn[s]
      closed == IF t.old = NoPayment THEN payment
                ELSE [payment EXCEPT ![t.old].status = "failed"]
  IN
  /\ \/ pc[s] = "claimed"
     \/ pc[s] = "loaded" /\ t.ref = NoRef /\ PaymentFree(t.old)
  /\ InvoiceFree(t.inv)
  /\ ReferenceFree(s, t.ref)
  /\ IF ReferenceTaken(t.ref, {t.old})
       THEN Answer(s, "refused") /\ UNCHANGED payment
       ELSE /\ Answer(s, "ok")
            /\ payment' = [closed EXCEPT
                             ![s] = [status |-> "pending", inv |-> t.inv, ref |-> t.ref]]
  /\ UNCHANGED <<invoice, sub, activations>>

-----------------------------------------------------------------------------
(* Approval: approve_request.                                              *)

(* The router loads the payment with its invoice and subscription, without *)
(* a lock.                                                                 *)
ApproveLoad(a, p) ==
  /\ pc[a] = "new"
  /\ payment[p].status # "none"
  /\ LET i == payment[p].inv IN
       Continue(a, "loaded", [Blank EXCEPT !.pay = p, !.inv = i, !.seen = sub[Owner[i]]])
  /\ UNCHANGED tables

(* Fault: a payment that is not pending is polled until it is.             *)
ApproveLockPaymentPolling(a) ==
  LET p == txn[a].pay IN
  /\ pc[a] = "loaded"
  /\ PaymentFree(p)
  /\ CASE payment[p].status = "succeeded" -> Answer(a, "already_approved")
       [] payment[p].status = "pending" -> Continue(a, "locked", txn[a])
       [] OTHER -> Continue(a, "loaded", txn[a])
  /\ UNCHANGED tables

ApproveLockPayment(a) ==
  LET p == txn[a].pay IN
  /\ pc[a] = "loaded"
  /\ PaymentFree(p)
  /\ CASE payment[p].status = "succeeded" -> Answer(a, "already_approved")
       [] payment[p].status \in {"pending", "needs_info"} -> Continue(a, "locked", txn[a])
       [] OTHER -> Answer(a, "refused")
  /\ UNCHANGED tables

(* The reference already funded another payment.                           *)
ReferenceFunded(p) ==
  /\ payment[p].ref # NoRef
  /\ \E q \in Payments \ {p} : payment[q].ref = payment[p].ref /\ payment[q].status = "succeeded"

(* The subscription a session goes by after refreshing the invoice: the    *)
(* object it has, or the row read again if nothing refers to that object   *)
(* any more (sessions hold their objects weakly).                          *)
Snapshots(a) == {txn[a].seen, sub[Owner[txn[a].inv]]}

(* Fault: the invoice is locked but its status is not read again.          *)
ApproveLockInvoiceStale(a) ==
  LET p == txn[a].pay
      i == txn[a].inv
  IN
  /\ pc[a] = "locked"
  /\ InvoiceFree(i)
  /\ IF ReferenceFunded(p)
       THEN Answer(a, "refused")
       ELSE \E seen \in Snapshots(a) :
              Continue(a, "ready", [txn[a] EXCEPT !.end = PaidPeriodEnd(i, seen)])
  /\ UNCHANGED tables

(* Lock and re-read the invoice.  If another payment was first, this one   *)
(* is closed; otherwise the reference is checked and the period computed.  *)
ApproveLockInvoice(a) ==
  LET p == txn[a].pay
      i == txn[a].inv
  IN
  /\ pc[a] = "locked"
  /\ InvoiceFree(i)
  /\ \A c \in CashEntries : ~(Inserting(c) /\ txn[c].inv = i)
  /\ \/ /\ invoice[i].status = "paid"
        /\ payment' = [payment EXCEPT ![p].status = "failed"]
        /\ Answer(a, "refused")
     \/ /\ invoice[i].status # "paid" /\ ReferenceFunded(p)
        /\ Answer(a, "refused")
        /\ UNCHANGED payment
     \/ /\ invoice[i].status # "paid" /\ ~ReferenceFunded(p)
        /\ \E seen \in Snapshots(a) :
             Continue(a, "ready", [txn[a] EXCEPT !.end = PaidPeriodEnd(i, seen)])
        /\ UNCHANGED payment
  /\ UNCHANGED <<invoice, sub, activations>>

(* Payment, invoice, subscription and change log in one commit.            *)
ApproveCommit(a) ==
  LET t == txn[a] IN
  /\ pc[a] = "ready"
  /\ payment' = [payment EXCEPT ![t.pay].status = "succeeded"]
  /\ MarkInvoicePaid(a, t.inv, t.pay, t.end)
  /\ Answer(a, "ok")

-----------------------------------------------------------------------------
(* Rejection and information request: reject_request, _set_info_requested. *)
(* Both decide on the status the router read, take no lock and do not read *)
(* the row again before they write it.                                     *)

ReviewLoad(r, p) ==
  /\ pc[r] = "new"
  /\ payment[p].status = "pending"
  /\ Continue(r, "loaded", [Blank EXCEPT !.pay = p])
  /\ UNCHANGED tables

RejectCommit(r) ==
  LET p == txn[r].pay IN
  /\ pc[r] = "loaded"
  /\ PaymentFree(p)
  /\ payment' = [payment EXCEPT ![p].status = "failed"]
  /\ Answer(r, "ok")
  /\ UNCHANGED <<invoice, sub, activations>>

(* The write brings a row that has failed meanwhile back into the unique   *)
(* index; if its reference is taken again, the commit fails.               *)
RequestInfoCommit(r) ==
  LET p == txn[r].pay IN
  /\ pc[r] = "loaded"
  /\ PaymentFree(p)
  /\ ReferenceFree(r, payment[p].ref)
  /\ IF ReferenceTaken(payment[p].ref, {p})
       THEN Answer(r, "failed") /\ UNCHANGED payment
       ELSE /\ payment' = [payment EXCEPT ![p].status = "needs_info"]
            /\ Answer(r, "ok")
  /\ UNCHANGED <<invoice, sub, activations>>

-----------------------------------------------------------------------------
(* Cash entry: pay_invoice_manually.                                       *)

(* The router loads the invoice with its subscription; the service refuses *)
(* a reference recorded against another invoice.  An invoice that is paid  *)
(* already is answered without a change.                                   *)
CashLoad(c, i, ref) ==
  /\ pc[c] = "new"
  /\ invoice[i].status # "none"
  /\ IF invoice[i].status = "paid"
       THEN Answer(c, "already_paid")
       ELSE /\ ref # NoRef => \A p \in Payments :
                 payment[p].status \in {"succeeded", "pending"} /\ payment[p].ref = ref
                    => payment[p].inv = i
            /\ Continue(c, "loaded", [Blank EXCEPT !.inv = i, !.ref = ref,
                                                   !.seen = sub[Owner[i]]])
  /\ UNCHANGED tables

(* flush() inserts the payment, and mark_invoice_paid reads what decides   *)
(* the period.  On a duplicate key the session is rolled back, which       *)
(* expires the invoice it loaded; the handler goes on to read invoice.id,  *)
(* which cannot be reloaded there (MissingGreenlet), so that the request   *)
(* fails whatever the duplicate was.                                       *)
CashInsert(c) ==
  LET t == txn[c] IN
  /\ pc[c] = "loaded"
  /\ InvoiceFree(t.inv)
  /\ ReferenceFree(c, t.ref)
  /\ \A o \in CashEntries : ~(Inserting(o) /\ txn[o].inv = t.inv)
  /\ IF ReferenceTaken(t.ref, {}) \/ CashRecorded(t.inv)
       THEN Answer(c, "failed")
       ELSE Continue(c, "inserted", [t EXCEPT !.end = PaidPeriodEnd(t.inv, t.seen)])
  /\ UNCHANGED tables

(* mark_invoice_paid writes and commits, trusting the invoice status the   *)
(* router read.                                                            *)
CashCommit(c) ==
  LET t == txn[c] IN
  /\ pc[c] = "inserted"
  /\ payment' = [payment EXCEPT ![c] = [status |-> "succeeded", inv |-> t.inv, ref |-> t.ref]]
  /\ MarkInvoicePaid(c, t.inv, c, t.end)
  /\ Continue(c, "settled", t)

(* In a second transaction the pending requests for the invoice are found  *)
(* and then closed.                                                        *)
CashFindPending(c) ==
  LET pending == PaymentsOf(txn[c].inv, "pending") \ {c} IN
  /\ pc[c] = "settled"
  /\ IF pending = {}
       THEN Answer(c, "ok")
       ELSE Continue(c, "superseding", [txn[c] EXCEPT !.listed = pending])
  /\ UNCHANGED tables

CashSupersede(c) ==
  /\ pc[c] = "superseding"
  /\ \A p \in txn[c].listed : PaymentFree(p)
  /\ payment' = [p \in Payments |-> IF p \in txn[c].listed
                                      THEN [payment[p] EXCEPT !.status = "failed"]
                                      ELSE payment[p]]
  /\ Answer(c, "ok")
  /\ UNCHANGED <<invoice, sub, activations>>

-----------------------------------------------------------------------------
(* Issuing an invoice: issue_invoice, called for a loaded subscription.    *)

IssueCheck(n, i) ==
  LET start == IF sub[Owner[i]].end > now THEN sub[Owner[i]].end ELSE now IN
  /\ pc[n] = "new"
  /\ ~HasOpenInvoice(Owner[i])
  /\ Continue(n, "loaded", [Blank EXCEPT !.inv = i, !.end = start + Interval])
  /\ UNCHANGED tables

(* The row gets the owner's next invoice id, whatever has been issued      *)
(* since the check.                                                        *)
IssueCommit(n, i) ==
  /\ pc[n] = "loaded"
  /\ Owner[i] = Owner[txn[n].inv]
  /\ invoice[i].status = "none"
  /\ \A j \in Invoices : j < i /\ Owner[j] = Owner[i] => invoice[j].status # "none"
  /\ invoice' = [invoice EXCEPT ![i] = [status |-> "issued", end |-> txn[n].end]]
  /\ Answer(n, "ok")
  /\ UNCHANGED <<sub, payment, activations>>

-----------------------------------------------------------------------------
(* The payment order issued together with the plan selection.              *)
FirstOrders == {i \in Invoices : \A j \in Invoices : Owner[j] = Owner[i] => i <= j}

(* Each house has selected a plan: it is on the free tier, or blocked if   *)
(* the plan has none, and its first payment order is open.                 *)
Init ==
  /\ invoice = [i \in Invoices |->
                  IF i \in FirstOrders
                    THEN [status |-> "issued", end |-> TrialLength + Interval]
                    ELSE [status |-> "none", end |-> 0]]
  /\ sub = [h \in Houses |-> [status |-> IF TrialLength > 0 THEN "trialing" ELSE "expired",
                              end |-> TrialLength]]
  /\ payment = [p \in Payments |-> NoPaymentRow]
  /\ activations = [i \in Invoices |-> << >>]
  /\ pc = [r \in Requests |-> "new"]
  /\ txn = [r \in Requests |-> Blank]
  /\ reply = [r \in Requests |-> "none"]
  /\ now = 0

(* A request arrives, with inputs of its own.                              *)
Arrive ==
  \/ \E s \in Submissions, i \in Invoices, ref \in AnyRef : SubmitLoad(s, i, ref)
  \/ \E c \in CashEntries, i \in Invoices, ref \in AnyRef : CashLoad(c, i, ref)
  \/ \E a \in Approvals, p \in Payments : ApproveLoad(a, p)
  \/ \E r \in Rejections \cup InfoRequests, p \in Payments : ReviewLoad(r, p)
  \/ \E n \in Issuers, i \in FirstOrders : IssueCheck(n, i)

(* A request that has arrived goes on.                                     *)
Advance(r) ==
  \/ r \in Submissions /\ SubmitCheckReference(r)
  \/ r \in Submissions /\ SubmitCommit(r)
  \/ r \in Approvals /\ ApproveLockPayment(r)
  \/ r \in Approvals /\ ApproveLockInvoice(r)
  \/ r \in Approvals /\ ApproveCommit(r)
  \/ r \in Rejections /\ RejectCommit(r)
  \/ r \in InfoRequests /\ RequestInfoCommit(r)
  \/ r \in CashEntries /\ CashInsert(r)
  \/ r \in CashEntries /\ CashCommit(r)
  \/ r \in CashEntries /\ CashFindPending(r)
  \/ r \in CashEntries /\ CashSupersede(r)
  \/ r \in Issuers /\ \E i \in Invoices : IssueCommit(r, i)

InFlight(r) == pc[r] \notin {"new", "done"}

(* The connection drops or the process restarts: the open transaction is   *)
(* rolled back, what was committed stays.                                  *)
Abort(r) ==
  /\ InFlight(r)
  /\ Answer(r, "aborted")
  /\ UNCHANGED tables

Tick ==
  /\ now < MaxTime
  /\ now' = now + 1
  /\ UNCHANGED <<tables, pc, txn, reply>>

(* Nothing in flight: the system may rest.  A request that waits forever   *)
(* is therefore a deadlock.                                                *)
Rest == (\A r \in Requests : ~InFlight(r)) /\ UNCHANGED vars

Next ==
  \/ Arrive
  \/ \E r \in Requests : Advance(r)
  \/ \E r \in Unreliable : Abort(r)
  \/ Tick
  \/ Rest

(* The event loop resumes every request that can go on, and the database   *)
(* grants a lock once it is free.                                          *)
Fairness == \A r \in Requests : WF_vars(Advance(r))

Spec == Init /\ [][Next]_vars /\ Fairness

-----------------------------------------------------------------------------
(* Properties.                                                             *)

(* Every row and session has the columns and values its table allows.      *)
TypeOK ==
  /\ invoice \in [Invoices -> InvoiceRow]
  /\ sub \in [Houses -> SubRow]
  /\ payment \in [Payments -> PaymentRow]
  /\ activations \in [Invoices -> Seq([by : Requests, pay : Payments])]
  /\ pc \in [Requests -> Stages]
  /\ txn \in [Requests -> Session]
  /\ reply \in [Requests -> Replies]
  /\ now \in Nat

(* approve_request never pays an invoice that somebody has paid before,    *)
(* however reviews and cash entries interleave: an approval is always the  *)
(* first activation of its invoice.                                        *)
ApprovalPaysOpenInvoice ==
  \A i \in Invoices : \A k \in 1 .. Len(activations[i]) :
    activations[i][k].by \in Approvals => k = 1

(* An invoice is marked paid, and a period bought with it, at most once    *)
(* (mark_invoice_paid is idempotent).                                      *)
PaidOnce == \A i \in Invoices : Len(activations[i]) <= 1

(* The rows the unique index must keep apart are apart, although claims    *)
(* are released and taken over by uncommitted transactions.                *)
LiveReferencesUnique ==
  \A p, q \in Payments :
    Live(p) /\ Live(q) /\ payment[p].ref = payment[q].ref /\ p # q => payment[p].ref = NoRef

(* Invoice, change log and subscription agree whatever a request managed   *)
(* to commit before it was cut off: an invoice is paid exactly if it was   *)
(* activated, and the subscription runs to the end of a period paid for.   *)
BooksAgree ==
  /\ \A i \in Invoices : invoice[i].status = "paid" <=> activations[i] # << >>
  /\ \A h \in Houses :
       LET paid == {i \in Invoices : Owner[i] = h /\ invoice[i].status = "paid"} IN
       paid # {} => /\ sub[h].status = "active"
                    /\ \E i \in paid : invoice[i].end = sub[h].end

(* A renewal adds a whole period to what is left of the last one.          *)
RenewalExtends ==
  [][\A i \in Invoices :
       activations'[i] # activations[i] /\ OtherPaid(i)
         => sub'[Owner[i]].end >= sub[Owner[i]].end + Interval]_vars

(* Every request is answered: row locks are never held for ever, and no    *)
(* request waits for ever on one.                                          *)
EveryRequestAnswered == \A r \in Requests : InFlight(r) ~> pc[r] = "done"
=============================================================================
