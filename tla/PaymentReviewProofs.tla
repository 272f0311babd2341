------------------------- MODULE PaymentReviewProofs -------------------------
(***************************************************************************)
(* Proofs about PaymentReview, for any sets of requests, invoices and      *)
(* references and any clock bound.                                         *)
(***************************************************************************)
EXTENDS PaymentReview, TLAPS

-----------------------------------------------------------------------------
(* Typing of the pieces.                                                   *)

(* The fixed rows and the empty session have the types of their tables.    *)
LEMMA BlankType ==
  /\ AnyInvoice \in Invoices
  /\ NoPaymentRow \in PaymentRow
  /\ Blank \in Session
<1>1. AnyInvoice \in Invoices
  BY ConstantsAssumption DEF AnyInvoice
<1>2. NoPaymentRow \in PaymentRow
  BY <1>1 DEF NoPaymentRow, PaymentRow, AnyRef
<1>3. Blank \in Session
  BY <1>1 DEF Blank, Session, NoSub, SubRow, AnyRef
<1> QED  BY <1>1, <1>2, <1>3

(* A period end is a time.                                                 *)
LEMMA PeriodType ==
  ASSUME NEW i, NEW seen \in SubRow, now \in Nat
  PROVE  PaidPeriodEnd(i, seen) \in Nat
BY ConstantsAssumption DEF PaidPeriodEnd, SubRow

(* What a request touches besides the tables.                              *)
ControlOK ==
  /\ pc \in [Requests -> Stages]
  /\ txn \in [Requests -> Session]
  /\ reply \in [Requests -> Replies]
  /\ now \in Nat

(* Answering keeps the control state typed.                                *)
LEMMA AnswerType ==
  ASSUME ControlOK, NEW r \in Requests, NEW code \in Replies, Answer(r, code)
  PROVE  ControlOK'
<1>1. pc' \in [Requests -> Stages]
  BY DEF ControlOK, Answer, Stages
<1>2. txn' \in [Requests -> Session]
  BY BlankType DEF ControlOK, Answer
<1>3. reply' \in [Requests -> Replies]
  BY DEF ControlOK, Answer
<1>4. now' \in Nat
  BY DEF ControlOK, Answer
<1> QED  BY <1>1, <1>2, <1>3, <1>4 DEF ControlOK

(* Going on with a typed session keeps the control state typed.            *)
LEMMA ContinueType ==
  ASSUME ControlOK, NEW r \in Requests, NEW stage \in Stages, NEW session \in Session,
         Continue(r, stage, session)
  PROVE  ControlOK'
<1>1. pc' \in [Requests -> Stages]
  BY DEF ControlOK, Continue
<1>2. txn' \in [Requests -> Session]
  BY DEF ControlOK, Continue
<1>3. reply' \in [Requests -> Replies] /\ now' \in Nat
  BY DEF ControlOK, Continue
<1> QED  BY <1>1, <1>2, <1>3 DEF ControlOK

TablesOK ==
  /\ invoice \in [Invoices -> InvoiceRow]
  /\ sub \in [Houses -> SubRow]
  /\ payment \in [Payments -> PaymentRow]
  /\ activations \in [Invoices -> Seq([by : Requests, pay : Payments])]

(* Changing the status column keeps the payments typed.                    *)
LEMMA StatusType ==
  ASSUME payment \in [Payments -> PaymentRow], NEW p,
         NEW st \in {"none", "pending", "needs_info", "succeeded", "failed"}
  PROVE  [payment EXCEPT ![p].status = st] \in [Payments -> PaymentRow]
BY DEF PaymentRow

(* Appending a typed entry keeps a log typed, one entry longer, with the   *)
(* old entries in place.                                                   *)
LEMMA AppendType ==
  ASSUME NEW E, NEW log \in Seq(E), NEW e \in E
  PROVE  /\ Append(log, e) \in Seq(E)
         /\ Len(log) \in Nat
         /\ Len(Append(log, e)) = Len(log) + 1
         /\ Append(log, e)[Len(log) + 1] = e
         /\ \A k \in 1 .. Len(log) : Append(log, e)[k] = log[k]
OBVIOUS

(* Marking an invoice paid keeps the tables typed.                         *)
LEMMA MarkType ==
  ASSUME TablesOK, NEW r \in Requests, NEW i \in Invoices, NEW p \in Payments,
         NEW end \in Nat, MarkInvoicePaid(r, i, p, end)
  PROVE  /\ invoice' \in [Invoices -> InvoiceRow]
         /\ sub' \in [Houses -> SubRow]
         /\ activations' \in [Invoices -> Seq([by : Requests, pay : Payments])]
<1>1. invoice' \in [Invoices -> InvoiceRow]
  BY DEF TablesOK, MarkInvoicePaid, InvoiceRow
<1>2. sub' \in [Houses -> SubRow]
  BY DEF TablesOK, MarkInvoicePaid, SubRow
<1>3. Append(activations[i], [by |-> r, pay |-> p]) \in Seq([by : Requests, pay : Payments])
  <2> DEFINE E == [by : Requests, pay : Payments]
  <2>1. activations[i] \in Seq(E)
    BY DEF TablesOK
  <2>2. [by |-> r, pay |-> p] \in E
    OBVIOUS
  <2> HIDE DEF E
  <2>3. Append(activations[i], [by |-> r, pay |-> p]) \in Seq(E)
    BY <2>1, <2>2, AppendType
  <2> QED  BY <2>3 DEF E
<1>4. activations' \in [Invoices -> Seq([by : Requests, pay : Payments])]
  BY <1>3 DEF TablesOK, MarkInvoicePaid
<1> QED  BY <1>1, <1>2, <1>4

-----------------------------------------------------------------------------
(* Type correctness.                                                       *)

(* An approval in flight has a payment to review.                          *)
ApprovalHasTarget == \A a \in Approvals : InFlight(a) => txn[a].pay \in Payments

Typed == TypeOK /\ ApprovalHasTarget

(* The type invariant is the typing of the tables and of the control.      *)
LEMMA TypeSplit == TypeOK <=> TablesOK /\ ControlOK
BY DEF TypeOK, TablesOK, ControlOK

(* The steps, grouped by the kind of request that takes them.              *)
SubmissionStep(s) ==
  \/ \E i \in Invoices, ref \in AnyRef : SubmitLoad(s, i, ref)
  \/ SubmitCheckReference(s)
  \/ SubmitCommit(s)

ApprovalStep(a) ==
  \/ \E p \in Payments : ApproveLoad(a, p)
  \/ ApproveLockPayment(a)
  \/ ApproveLockInvoice(a)
  \/ ApproveCommit(a)

ReviewStep(r) ==
  \/ \E p \in Payments : ReviewLoad(r, p)
  \/ RejectCommit(r)
  \/ RequestInfoCommit(r)

CashStep(c) ==
  \/ \E i \in Invoices, ref \in AnyRef : CashLoad(c, i, ref)
  \/ CashInsert(c)
  \/ CashCommit(c)
  \/ CashFindPending(c)
  \/ CashSupersede(c)

IssueStep(n) ==
  \/ \E i \in FirstOrders : IssueCheck(n, i)
  \/ \E i \in Invoices : IssueCommit(n, i)

(* Every step belongs to one of the groups.                                *)
LEMMA NextSplit ==
  Next => \/ \E s \in Submissions : SubmissionStep(s)
          \/ \E a \in Approvals : ApprovalStep(a)
          \/ \E r \in Rejections \cup InfoRequests : ReviewStep(r)
          \/ \E c \in CashEntries : CashStep(c)
          \/ \E n \in Issuers : IssueStep(n)
          \/ \E r \in Unreliable : Abort(r)
          \/ Tick
          \/ UNCHANGED vars
<1> SUFFICES ASSUME Next
             PROVE  \/ \E s \in Submissions : SubmissionStep(s)
                    \/ \E a \in Approvals : ApprovalStep(a)
                    \/ \E r \in Rejections \cup InfoRequests : ReviewStep(r)
                    \/ \E c \in CashEntries : CashStep(c)
                    \/ \E n \in Issuers : IssueStep(n)
                    \/ \E r \in Unreliable : Abort(r)
                    \/ Tick
                    \/ UNCHANGED vars
  OBVIOUS
<1>1. CASE Arrive
  BY <1>1 DEF Arrive, SubmissionStep, ApprovalStep, ReviewStep, CashStep, IssueStep
<1>2. CASE \E r \in Requests : Advance(r)
  BY <1>2 DEF Advance, SubmissionStep, ApprovalStep, ReviewStep, CashStep, IssueStep
<1>3. CASE Rest
  BY <1>3 DEF Rest
<1> QED  BY <1>1, <1>2, <1>3 DEF Next

(* A step that leaves the tables alone leaves them typed.                  *)
LEMMA TablesSame ==
  ASSUME TablesOK, UNCHANGED tables
  PROVE  TablesOK'
BY DEF TablesOK, tables

(* A step that writes the payments only leaves the tables typed if it      *)
(* writes typed payments.                                                  *)
LEMMA TablesPayments ==
  ASSUME TablesOK, UNCHANGED <<invoice, sub, activations>>,
         payment' \in [Payments -> PaymentRow]
  PROVE  TablesOK'
BY DEF TablesOK

(* Submissions keep rows and sessions typed.                               *)
LEMMA SubmissionType ==
  ASSUME TypeOK, NEW s \in Submissions,
         SubmissionStep(s)
  PROVE  TypeOK'
<1> s \in Requests /\ s \in Payments
  BY DEF Requests, Payments
<1> TablesOK /\ ControlOK
  BY TypeSplit
<1>t. txn[s] \in Session
  BY DEF ControlOK
<1>1. CASE \E i \in Invoices, ref \in AnyRef : SubmitLoad(s, i, ref)
  <2>1. PICK i \in Invoices, ref \in AnyRef : SubmitLoad(s, i, ref)
    BY <1>1
  <2>2. PICK old \in Payments \cup {NoPayment} :
          Continue(s, "loaded", [Blank EXCEPT !.inv = i, !.ref = ref, !.old = old])
    BY <2>1 DEF SubmitLoad, PaymentsOf
  <2>3. [Blank EXCEPT !.inv = i, !.ref = ref, !.old = old] \in Session
    BY BlankType DEF Session
  <2>4. ControlOK'
    BY <2>2, <2>3, ContinueType DEF Stages
  <2> QED  BY <2>1, <2>4, TablesSame, TypeSplit DEF SubmitLoad, TypeOK, TablesOK, ControlOK
<1>2. CASE SubmitCheckReference(s)
  <2>1. Answer(s, "refused") \/ Continue(s, "claimed", txn[s])
    BY <1>2 DEF SubmitCheckReference
  <2>2. ControlOK'
    BY <2>1, <1>t, AnswerType, ContinueType DEF Stages, Replies
  <2>3. TablesOK'
    BY <1>2, TablesSame DEF SubmitCheckReference
  <2> QED  BY <2>2, <2>3 DEF TypeOK, TablesOK, ControlOK
<1>3. CASE SubmitCommit(s)
  <2>1. Answer(s, "refused") \/ Answer(s, "ok")
    BY <1>3 DEF SubmitCommit
  <2>2. ControlOK'
    BY <2>1, AnswerType DEF Replies
  <2>3. payment' \in [Payments -> PaymentRow]
    <3> DEFINE t == txn[s]
               closed == IF t.old = NoPayment THEN payment
                         ELSE [payment EXCEPT ![t.old].status = "failed"]
               row == [status |-> "pending", inv |-> t.inv, ref |-> t.ref]
    <3>1. closed \in [Payments -> PaymentRow]
      BY StatusType DEF TablesOK
    <3>2. row \in PaymentRow
      BY <1>t DEF PaymentRow, Session
    <3> HIDE DEF closed, row
    <3>3. [closed EXCEPT ![s] = row] \in [Payments -> PaymentRow]
      BY <3>1, <3>2
    <3> QED  BY <1>3, <3>3 DEF SubmitCommit, TablesOK, closed, row
  <2>4. TablesOK'
    BY <1>3, <2>3, TablesPayments DEF SubmitCommit
  <2> QED  BY <2>2, <2>4 DEF TypeOK, TablesOK, ControlOK
<1> QED  BY <1>1, <1>2, <1>3 DEF SubmissionStep

(* The second lock of an approval: it closes the request, or goes on with  *)
(* an open invoice and a period that ends some time.                       *)
LEMMA InvoiceLocked ==
  ASSUME Typed, NEW a \in Approvals, ApproveLockInvoice(a)
  PROVE  \/ Answer(a, "refused")
         \/ /\ invoice[txn[a].inv].status # "paid"
            /\ \E end \in Nat : Continue(a, "ready", [txn[a] EXCEPT !.end = end])
<1>1. txn[a] \in Session /\ now \in Nat
  BY DEF Typed, TypeOK, Requests
<1>2. txn[a].inv \in Invoices /\ txn[a].seen \in SubRow
  BY <1>1 DEF Session
<1>3. sub[Owner[txn[a].inv]] \in SubRow
  BY <1>2, ConstantsAssumption DEF Typed, TypeOK
<1>4. \A seen \in Snapshots(a) : PaidPeriodEnd(txn[a].inv, seen) \in Nat
  BY <1>1, <1>2, <1>3, PeriodType DEF Snapshots
<1> QED  BY <1>4 DEF ApproveLockInvoice

(* Approvals keep rows and sessions typed.                                 *)
LEMMA ApprovalType ==
  ASSUME Typed, NEW a \in Approvals,
         ApprovalStep(a)
  PROVE  TypeOK'
<1> a \in Requests
  BY DEF Requests
<1> TablesOK /\ ControlOK
  BY TypeSplit DEF Typed
<1>t. txn[a] \in Session
  BY DEF ControlOK
<1>1. CASE \E p \in Payments : ApproveLoad(a, p)
  <2>1. PICK p \in Payments : ApproveLoad(a, p)
    BY <1>1
  <2> DEFINE i == payment[p].inv
             session == [Blank EXCEPT !.pay = p, !.inv = i, !.seen = sub[Owner[i]]]
  <2>2. i \in Invoices
    BY DEF TablesOK, PaymentRow
  <2>3. sub[Owner[i]] \in SubRow
    BY <2>2, ConstantsAssumption DEF TablesOK
  <2>4. session \in Session
    BY <2>2, <2>3, BlankType DEF Session
  <2>5. ControlOK'
    BY <2>1, <2>4, ContinueType DEF ApproveLoad, Stages
  <2>6. TablesOK'
    BY <2>1, TablesSame DEF ApproveLoad
  <2> QED  BY <2>5, <2>6, TypeSplit DEF TypeOK, TablesOK, ControlOK
<1>2. CASE ApproveLockPayment(a)
  <2>1. \/ Answer(a, "already_approved")
        \/ Continue(a, "locked", txn[a])
        \/ Answer(a, "refused")
    BY <1>2 DEF ApproveLockPayment
  <2>2. ControlOK'
    BY <2>1, <1>t, AnswerType, ContinueType DEF Stages, Replies
  <2>3. TablesOK'
    BY <1>2, TablesSame DEF ApproveLockPayment
  <2> QED  BY <2>2, <2>3 DEF TypeOK, TablesOK, ControlOK
<1>3. CASE ApproveLockInvoice(a)
  <2>1. \/ Answer(a, "refused")
        \/ \E end \in Nat : Continue(a, "ready", [txn[a] EXCEPT !.end = end])
    BY <1>3, InvoiceLocked
  <2>2. \A end \in Nat : [txn[a] EXCEPT !.end = end] \in Session
    BY <1>t DEF Session
  <2>5. ControlOK'
    BY <2>1, <2>2, AnswerType, ContinueType DEF Stages, Replies
  <2>6. payment' \in [Payments -> PaymentRow]
    <3>1. \/ payment' = [payment EXCEPT ![txn[a].pay].status = "failed"]
          \/ payment' = payment
      BY <1>3 DEF ApproveLockInvoice
    <3>2. [payment EXCEPT ![txn[a].pay].status = "failed"] \in [Payments -> PaymentRow]
      BY StatusType DEF TablesOK
    <3> QED  BY <3>1, <3>2 DEF TablesOK
  <2>7. TablesOK'
    BY <1>3, <2>6, TablesPayments DEF ApproveLockInvoice
  <2> QED  BY <2>5, <2>7 DEF TypeOK, TablesOK, ControlOK
<1>4. CASE ApproveCommit(a)
  <2>1. txn[a].pay \in Payments
    BY <1>4 DEF Typed, ApprovalHasTarget, InFlight, ApproveCommit
  <2>2. txn[a].inv \in Invoices /\ txn[a].end \in Nat
    BY <1>t DEF Session
  <2>3. ControlOK'
    BY <1>4, AnswerType DEF ApproveCommit, Replies
  <2>4. payment' \in [Payments -> PaymentRow]
    BY <1>4, StatusType DEF ApproveCommit, TablesOK
  <2>5. MarkInvoicePaid(a, txn[a].inv, txn[a].pay, txn[a].end)
    BY <1>4 DEF ApproveCommit
  <2>6. TablesOK'
    BY <2>1, <2>2, <2>4, <2>5, MarkType DEF TablesOK
  <2> QED  BY <2>3, <2>6 DEF TypeOK, TablesOK, ControlOK
<1> QED  BY <1>1, <1>2, <1>3, <1>4 DEF ApprovalStep

(* Rejections and information requests keep rows and sessions typed.       *)
LEMMA ReviewType ==
  ASSUME TypeOK, NEW r \in Requests,
         ReviewStep(r)
  PROVE  TypeOK'
<1> TablesOK /\ ControlOK
  BY TypeSplit
<1>1. CASE \E p \in Payments : ReviewLoad(r, p)
  <2>1. PICK p \in Payments : ReviewLoad(r, p)
    BY <1>1
  <2>2. [Blank EXCEPT !.pay = p] \in Session
    BY BlankType DEF Session
  <2>3. ControlOK'
    BY <2>1, <2>2, ContinueType DEF ReviewLoad, Stages
  <2>4. TablesOK'
    BY <2>1, TablesSame DEF ReviewLoad
  <2> QED  BY <2>3, <2>4 DEF TypeOK, TablesOK, ControlOK
<1>2. CASE RejectCommit(r)
  <2>1. ControlOK'
    BY <1>2, AnswerType DEF RejectCommit, Replies
  <2>2. payment' \in [Payments -> PaymentRow]
    BY <1>2, StatusType DEF RejectCommit, TablesOK
  <2>3. TablesOK'
    BY <1>2, <2>2, TablesPayments DEF RejectCommit
  <2> QED  BY <2>1, <2>3 DEF TypeOK, TablesOK, ControlOK
<1>3. CASE RequestInfoCommit(r)
  <2>1. Answer(r, "failed") \/ Answer(r, "ok")
    BY <1>3 DEF RequestInfoCommit
  <2>2. ControlOK'
    BY <2>1, AnswerType DEF Replies
  <2>3. payment' \in [Payments -> PaymentRow]
    <3>1. \/ payment' = [payment EXCEPT ![txn[r].pay].status = "needs_info"]
          \/ payment' = payment
      BY <1>3 DEF RequestInfoCommit
    <3>2. [payment EXCEPT ![txn[r].pay].status = "needs_info"] \in [Payments -> PaymentRow]
      BY StatusType DEF TablesOK
    <3> QED  BY <3>1, <3>2 DEF TablesOK
  <2>4. TablesOK'
    BY <1>3, <2>3, TablesPayments DEF RequestInfoCommit
  <2> QED  BY <2>2, <2>4 DEF TypeOK, TablesOK, ControlOK
<1> QED  BY <1>1, <1>2, <1>3 DEF ReviewStep

(* Cash entries keep rows and sessions typed.                              *)
LEMMA CashType ==
  ASSUME TypeOK, NEW c \in CashEntries,
         CashStep(c)
  PROVE  TypeOK'
<1> c \in Requests /\ c \in Payments
  BY DEF Requests, Payments
<1> TablesOK /\ ControlOK
  BY TypeSplit
<1>t. txn[c] \in Session
  BY DEF ControlOK
<1>1. CASE \E i \in Invoices, ref \in AnyRef : CashLoad(c, i, ref)
  <2>1. PICK i \in Invoices, ref \in AnyRef : CashLoad(c, i, ref)
    BY <1>1
  <2> DEFINE session == [Blank EXCEPT !.inv = i, !.ref = ref, !.seen = sub[Owner[i]]]
  <2>2. Answer(c, "already_paid") \/ Continue(c, "loaded", session)
    BY <2>1 DEF CashLoad
  <2>3. sub[Owner[i]] \in SubRow
    BY ConstantsAssumption DEF TablesOK
  <2>4. session \in Session
    BY <2>3, BlankType DEF Session
  <2>5. ControlOK'
    BY <2>2, <2>4, AnswerType, ContinueType DEF Stages, Replies
  <2>6. TablesOK'
    BY <2>1, TablesSame DEF CashLoad
  <2> QED  BY <2>5, <2>6 DEF TypeOK, TablesOK, ControlOK
<1>2. CASE CashInsert(c)
  <2> DEFINE session == [txn[c] EXCEPT !.end = PaidPeriodEnd(txn[c].inv, txn[c].seen)]
  <2>1. Answer(c, "failed") \/ Continue(c, "inserted", session)
    BY <1>2 DEF CashInsert
  <2>2. PaidPeriodEnd(txn[c].inv, txn[c].seen) \in Nat
    BY <1>t, PeriodType DEF Session, ControlOK
  <2>3. session \in Session
    BY <1>t, <2>2 DEF Session
  <2>4. ControlOK'
    BY <2>1, <2>3, AnswerType, ContinueType DEF Stages, Replies
  <2>5. TablesOK'
    BY <1>2, TablesSame DEF CashInsert
  <2> QED  BY <2>4, <2>5 DEF TypeOK, TablesOK, ControlOK
<1>3. CASE CashCommit(c)
  <2> DEFINE row == [status |-> "succeeded", inv |-> txn[c].inv, ref |-> txn[c].ref]
  <2>1. txn[c].inv \in Invoices /\ txn[c].end \in Nat
    BY <1>t DEF Session
  <2>2. row \in PaymentRow
    BY <1>t DEF PaymentRow, Session
  <2>3. payment' = [payment EXCEPT ![c] = row]
    BY <1>3 DEF CashCommit
  <2>4. payment' \in [Payments -> PaymentRow]
    <3> HIDE DEF row
    <3> QED  BY <2>2, <2>3 DEF TablesOK
  <2>5. MarkInvoicePaid(c, txn[c].inv, c, txn[c].end)
    BY <1>3 DEF CashCommit
  <2>6. TablesOK'
    BY <2>1, <2>4, <2>5, MarkType DEF TablesOK
  <2>7. ControlOK'
    BY <1>3, <1>t, ContinueType DEF CashCommit, Stages
  <2> QED  BY <2>6, <2>7 DEF TypeOK, TablesOK, ControlOK
<1>4. CASE CashFindPending(c)
  <2> DEFINE session == [txn[c] EXCEPT !.listed = PaymentsOf(txn[c].inv, "pending") \ {c}]
  <2>1. Answer(c, "ok") \/ Continue(c, "superseding", session)
    BY <1>4 DEF CashFindPending
  <2>2. session \in Session
    BY <1>t DEF Session, PaymentsOf
  <2>3. ControlOK'
    BY <2>1, <2>2, AnswerType, ContinueType DEF Stages, Replies
  <2>4. TablesOK'
    BY <1>4, TablesSame DEF CashFindPending
  <2> QED  BY <2>3, <2>4 DEF TypeOK, TablesOK, ControlOK
<1>5. CASE CashSupersede(c)
  <2>1. ControlOK'
    BY <1>5, AnswerType DEF CashSupersede, Replies
  <2>2. \A p \in Payments : [payment[p] EXCEPT !.status = "failed"] \in PaymentRow
    BY DEF TablesOK, PaymentRow
  <2>3. payment' \in [Payments -> PaymentRow]
    BY <1>5, <2>2 DEF CashSupersede, TablesOK
  <2>4. TablesOK'
    BY <1>5, <2>3, TablesPayments DEF CashSupersede
  <2> QED  BY <2>1, <2>4 DEF TypeOK, TablesOK, ControlOK
<1> QED  BY <1>1, <1>2, <1>3, <1>4, <1>5 DEF CashStep

(* Issuing an invoice keeps rows and sessions typed.                       *)
LEMMA IssueType ==
  ASSUME TypeOK, NEW n \in Issuers,
         IssueStep(n)
  PROVE  TypeOK'
<1> n \in Requests
  BY DEF Requests
<1> TablesOK /\ ControlOK
  BY TypeSplit
<1>t. txn[n] \in Session
  BY DEF ControlOK
<1>1. CASE \E i \in FirstOrders : IssueCheck(n, i)
  <2>1. PICK i \in Invoices : IssueCheck(n, i)
    BY <1>1 DEF FirstOrders
  <2> DEFINE end == (IF sub[Owner[i]].end > now THEN sub[Owner[i]].end ELSE now) + Interval
  <2>2. sub[Owner[i]] \in SubRow
    BY ConstantsAssumption DEF TablesOK
  <2>3. end \in Nat
    BY <2>2, ConstantsAssumption DEF SubRow, ControlOK
  <2>4. Continue(n, "loaded", [Blank EXCEPT !.inv = i, !.end = end])
    BY <2>1 DEF IssueCheck
  <2> HIDE DEF end
  <2>5. [Blank EXCEPT !.inv = i, !.end = end] \in Session
    BY <2>3, BlankType DEF Session
  <2>6. ControlOK'
    BY <2>4, <2>5, ContinueType DEF Stages
  <2>7. TablesOK'
    BY <2>1, TablesSame DEF IssueCheck
  <2> QED  BY <2>6, <2>7 DEF TypeOK, TablesOK, ControlOK
<1>2. CASE \E i \in Invoices : IssueCommit(n, i)
  <2>1. PICK i \in Invoices : IssueCommit(n, i)
    BY <1>2
  <2>2. ControlOK'
    BY <2>1, AnswerType DEF IssueCommit, Replies
  <2>3. [status |-> "issued", end |-> txn[n].end] \in InvoiceRow
    BY <1>t DEF InvoiceRow, Session
  <2>4. TablesOK'
    BY <2>1, <2>3 DEF IssueCommit, TablesOK
  <2> QED  BY <2>2, <2>4 DEF TypeOK, TablesOK, ControlOK
<1> QED  BY <1>1, <1>2 DEF IssueStep

(* A request's step leaves the program counter and session of every other  *)
(* request alone.                                                          *)
Own(r) == \A o \in Requests \ {r} : pc'[o] = pc[o] /\ txn'[o] = txn[o]

(* Answering is such a step.                                               *)
LEMMA AnswerOwn ==
  ASSUME ControlOK, NEW r, NEW code, Answer(r, code)
  PROVE  Own(r)
BY DEF ControlOK, Answer, Own

(* Going on is such a step.                                                *)
LEMMA ContinueOwn ==
  ASSUME ControlOK, NEW r, NEW stage, NEW session, Continue(r, stage, session)
  PROVE  Own(r)
BY DEF ControlOK, Continue, Own

(* Hence every handler's step is such a step.                              *)
LEMMA StepOwn ==
  ASSUME ControlOK, NEW r \in Requests,
         \/ SubmissionStep(r) \/ ApprovalStep(r) \/ ReviewStep(r)
         \/ CashStep(r) \/ IssueStep(r) \/ Abort(r)
  PROVE  Own(r)
<1>1. CASE SubmissionStep(r)
  BY <1>1, AnswerOwn, ContinueOwn
  DEF SubmissionStep, SubmitLoad, SubmitCheckReference, SubmitCommit
<1>2. CASE ApprovalStep(r)
  BY <1>2, AnswerOwn, ContinueOwn
  DEF ApprovalStep, ApproveLoad, ApproveLockPayment, ApproveLockInvoice, ApproveCommit
<1>3. CASE ReviewStep(r)
  BY <1>3, AnswerOwn, ContinueOwn
  DEF ReviewStep, ReviewLoad, RejectCommit, RequestInfoCommit
<1>4. CASE CashStep(r)
  BY <1>4, AnswerOwn, ContinueOwn
  DEF CashStep, CashLoad, CashInsert, CashCommit, CashFindPending, CashSupersede
<1>5. CASE IssueStep(r)
  BY <1>5, AnswerOwn, ContinueOwn DEF IssueStep, IssueCheck, IssueCommit
<1>6. CASE Abort(r)
  BY <1>6, AnswerOwn DEF Abort
<1> QED  BY <1>1, <1>2, <1>3, <1>4, <1>5, <1>6

(* An approval keeps its target until it is answered.                      *)
LEMMA TargetKept ==
  ASSUME Typed, Next
  PROVE  ApprovalHasTarget'
<1> TypeOK /\ ControlOK
  BY TypeSplit DEF Typed
<1> SUFFICES ASSUME NEW a \in Approvals, pc'[a] \notin {"new", "done"}
             PROVE  txn'[a].pay \in Payments
  BY DEF ApprovalHasTarget, InFlight
<1>a. a \in Requests
  BY DEF Requests
<1>1. ASSUME pc'[a] = pc[a], txn'[a] = txn[a]
      PROVE  txn'[a].pay \in Payments
  BY <1>1 DEF Typed, ApprovalHasTarget, InFlight
<1>2. ASSUME NEW r \in Requests, Own(r), r # a
      PROVE  txn'[a].pay \in Payments
  BY <1>1, <1>2, <1>a DEF Own
<1>3. CASE ApprovalStep(a)
  <2>1. CASE \E p \in Payments : ApproveLoad(a, p)
    <3>1. PICK p \in Payments : ApproveLoad(a, p)
      BY <2>1
    <3>2. txn'[a] = [Blank EXCEPT !.pay = p, !.inv = payment[p].inv,
                                  !.seen = sub[Owner[payment[p].inv]]]
      BY <3>1, <1>a DEF ApproveLoad, Continue, ControlOK
    <3> QED  BY <3>2 DEF Blank
  <2>2. CASE ApproveLockPayment(a)
    BY <2>2, <1>a DEF ApproveLockPayment, Answer, Continue, ControlOK,
                      Typed, ApprovalHasTarget, InFlight
  <2>3. CASE ApproveLockInvoice(a)
    <3>1. txn[a].pay \in Payments
      BY <2>3 DEF ApproveLockInvoice, Typed, ApprovalHasTarget, InFlight
    <3>2. PICK end \in Nat : Continue(a, "ready", [txn[a] EXCEPT !.end = end])
      BY <2>3, <1>a, InvoiceLocked DEF Answer, ControlOK
    <3>3. txn'[a] = [txn[a] EXCEPT !.end = end]
      BY <3>2, <1>a DEF Continue, ControlOK
    <3>4. txn[a] \in Session
      BY <1>a DEF ControlOK
    <3>5. txn'[a].pay = txn[a].pay
      BY <3>3, <3>4 DEF Session
    <3> QED  BY <3>1, <3>5
  <2>4. CASE ApproveCommit(a)
    BY <2>4, <1>a DEF ApproveCommit, Answer, ControlOK
  <2> QED  BY <1>3, <2>1, <2>2, <2>3, <2>4 DEF ApprovalStep
<1>4. CASE \E s \in Submissions : SubmissionStep(s)
  BY <1>2, <1>4, StepOwn, RequestsAssumption DEF Requests, Payments
<1>5. CASE \E b \in Approvals : ApprovalStep(b)
  BY <1>2, <1>3, <1>5, StepOwn DEF Requests
<1>6. CASE \E r \in Rejections \cup InfoRequests : ReviewStep(r)
  BY <1>2, <1>6, StepOwn, RequestsAssumption DEF Requests
<1>7. CASE \E c \in CashEntries : CashStep(c)
  BY <1>2, <1>7, StepOwn, RequestsAssumption DEF Requests, Payments
<1>8. CASE \E n \in Issuers : IssueStep(n)
  BY <1>2, <1>8, StepOwn, RequestsAssumption DEF Requests
<1>9. CASE \E r \in Unreliable : Abort(r)
  <2>1. PICK r \in Requests : Abort(r)
    BY <1>9, RequestsAssumption DEF Requests, Payments
  <2>2. CASE r = a
    BY <2>1, <2>2, <1>a DEF Abort, Answer, ControlOK
  <2> QED  BY <2>1, <2>2, <1>2, StepOwn
<1>10. CASE Tick \/ UNCHANGED vars
  BY <1>1, <1>10 DEF Tick, vars
<1> QED  BY <1>4, <1>5, <1>6, <1>7, <1>8, <1>9, <1>10, NextSplit

(* A step keeps the state typed.                                           *)
LEMMA StepTyped ==
  ASSUME Typed, [Next]_vars
  PROVE  Typed'
<1> TypeOK
  BY DEF Typed
<1>1. CASE UNCHANGED vars
  BY <1>1 DEF Typed, TypeOK, ApprovalHasTarget, InFlight, vars
<1>2. CASE Next
  <2>1. TypeOK'
    <3>1. CASE \E s \in Submissions : SubmissionStep(s)
      BY <3>1, SubmissionType
    <3>2. CASE \E a \in Approvals : ApprovalStep(a)
      BY <3>2, ApprovalType
    <3>3. CASE \E r \in Rejections \cup InfoRequests : ReviewStep(r)
      BY <3>3, ReviewType DEF Requests
    <3>4. CASE \E c \in CashEntries : CashStep(c)
      BY <3>4, CashType
    <3>5. CASE \E n \in Issuers : IssueStep(n)
      BY <3>5, IssueType
    <3>6. CASE \E r \in Unreliable : Abort(r)
      <4>1. PICK r \in Requests : Abort(r)
        BY <3>6, RequestsAssumption DEF Requests, Payments
      <4>2. ControlOK'
        BY <4>1, AnswerType, TypeSplit DEF Abort, Replies
      <4>3. TablesOK'
        BY <4>1, TablesSame, TypeSplit DEF Abort
      <4> QED  BY <4>2, <4>3 DEF TypeOK, TablesOK, ControlOK
    <3>7. CASE Tick
      <4>1. UNCHANGED tables /\ UNCHANGED <<pc, txn, reply>> /\ now' = now + 1
        BY <3>7 DEF Tick
      <4>2. TablesOK'
        BY <4>1, TablesSame, TypeSplit
      <4>3. ControlOK'
        BY <4>1, TypeSplit DEF ControlOK
      <4> QED  BY <4>2, <4>3 DEF TypeOK, TablesOK, ControlOK
    <3>8. CASE UNCHANGED vars
      BY <3>8 DEF vars, TypeOK
    <3> QED
      BY <1>2, <3>1, <3>2, <3>3, <3>4, <3>5, <3>6, <3>7, <3>8, NextSplit
  <2> QED  BY <1>2, <2>1, TargetKept DEF Typed
<1> QED  BY <1>1, <1>2

(* The initial state is typed.                                             *)
LEMMA InitTyped ==
  ASSUME Init
  PROVE  Typed
<1>1. invoice \in [Invoices -> InvoiceRow]
  BY ConstantsAssumption DEF Init, InvoiceRow
<1>2. sub \in [Houses -> SubRow]
  BY ConstantsAssumption DEF Init, SubRow
<1>3. payment \in [Payments -> PaymentRow]
  BY BlankType DEF Init
<1>4. activations \in [Invoices -> Seq([by : Requests, pay : Payments])]
  <2> DEFINE E == [by : Requests, pay : Payments]
  <2>1. << >> \in Seq(E)
    OBVIOUS
  <2> QED  BY <2>1 DEF Init
<1>5. ControlOK
  BY BlankType DEF Init, ControlOK, Stages, Replies
<1>6. ApprovalHasTarget
  BY DEF Init, ApprovalHasTarget, InFlight, Requests
<1> QED  BY <1>1, <1>2, <1>3, <1>4, <1>5, <1>6 DEF Typed, TypeOK, ControlOK

(* Rows and sessions keep their types for any number of concurrent         *)
(* requests.                                                               *)
THEOREM TypeCorrect == Spec => []TypeOK
<1>1. Init => Typed
  BY InitTyped
<1>2. Typed /\ [Next]_vars => Typed'
  BY StepTyped
<1>3. Typed => TypeOK
  BY DEF Typed
<1> QED  BY <1>1, <1>2, <1>3, PTL DEF Spec

-----------------------------------------------------------------------------
(* Approvals pay open invoices only.                                       *)

(* What the row locks achieve.  The property alone is not inductive: that  *)
(* the invoice an approval is about to pay is unpaid follows from its      *)
(* check only because nobody else can pay it between check and commit,     *)
(* which is what the first two parts say.                                  *)
Serial ==
  /\ \A a, b \in Approvals :
       pc[a] = "ready" /\ pc[b] = "ready" /\ txn[a].inv = txn[b].inv => a = b
  /\ \A a \in Approvals, c \in CashEntries :
       pc[a] = "ready" /\ pc[c] = "inserted" => txn[a].inv # txn[c].inv
  /\ \A a \in Approvals : pc[a] = "ready" => invoice[txn[a].inv].status # "paid"
  /\ \A i \in Invoices : invoice[i].status # "paid" => activations[i] = << >>
  /\ ApprovalPaysOpenInvoice

(* A step that neither takes a decisive lock nor pays an invoice.          *)
Quiet ==
  /\ \A r \in Requests :
       pc'[r] \in {"ready", "inserted"} => pc'[r] = pc[r] /\ txn'[r] = txn[r]
  /\ activations' = activations
  /\ \A i \in Invoices : invoice'[i].status = "paid" <=> invoice[i].status = "paid"

(* Such a step disturbs nothing.                                           *)
LEMMA QuietKeeps ==
  ASSUME Typed, Serial, Quiet
  PROVE  Serial'
<1> DEFINE Lock1 == \A a, b \in Approvals :
             pc[a] = "ready" /\ pc[b] = "ready" /\ txn[a].inv = txn[b].inv => a = b
           Lock2 == \A a \in Approvals, c \in CashEntries :
             pc[a] = "ready" /\ pc[c] = "inserted" => txn[a].inv # txn[c].inv
<1>1. Lock1'
  BY DEF Serial, Quiet, Requests, Payments
<1>2. Lock2'
  BY DEF Serial, Quiet, Requests, Payments
<1>3. \A a \in Approvals : pc'[a] = "ready" => invoice'[txn'[a].inv].status # "paid"
  <2> SUFFICES ASSUME NEW a \in Approvals, pc'[a] = "ready"
               PROVE  invoice'[txn'[a].inv].status # "paid"
    OBVIOUS
  <2>1. a \in Requests
    BY DEF Requests
  <2>2. pc[a] = "ready" /\ txn'[a] = txn[a]
    BY <2>1 DEF Quiet
  <2>3. txn[a].inv \in Invoices
    BY <2>1 DEF Typed, TypeOK, Session
  <2> QED  BY <2>2, <2>3 DEF Serial, Quiet
<1>4. \A i \in Invoices : invoice'[i].status # "paid" => activations'[i] = << >>
  BY DEF Serial, Quiet
<1>5. ApprovalPaysOpenInvoice'
  BY DEF Serial, Quiet, ApprovalPaysOpenInvoice
<1> QED  BY <1>1, <1>2, <1>3, <1>4, <1>5 DEF Serial

(* An answered request is done.                                            *)
LEMMA AnswerAt ==
  ASSUME ControlOK, NEW r \in Requests, NEW code, Answer(r, code)
  PROVE  pc'[r] = "done"
BY DEF ControlOK, Answer

(* Going on takes a request to the given stage with the given session.     *)
LEMMA ContinueAt ==
  ASSUME ControlOK, NEW r \in Requests, NEW stage, NEW session, Continue(r, stage, session)
  PROVE  pc'[r] = stage /\ txn'[r] = session
BY DEF ControlOK, Continue

(* A request's own step that takes no decisive lock and writes neither the *)
(* invoices nor the change log is quiet.                                   *)
LEMMA QuietIf ==
  ASSUME NEW r \in Requests, Own(r), pc'[r] \notin {"ready", "inserted"},
         UNCHANGED <<invoice, activations>>
  PROVE  Quiet
BY DEF Own, Quiet

(* Submissions, reviews, issues and aborted requests are quiet.            *)
LEMMA BystandersQuiet ==
  ASSUME TypeOK, NEW r \in Requests,
         \/ SubmissionStep(r) \/ ReviewStep(r) \/ IssueStep(r) \/ Abort(r)
  PROVE  Quiet
<1> ControlOK
  BY TypeSplit
<1>own. Own(r)
  BY StepOwn
<1>1. CASE SubmissionStep(r)
  <2>1. pc'[r] \in {"loaded", "claimed", "done"}
    BY <1>1, AnswerAt, ContinueAt
    DEF SubmissionStep, SubmitLoad, SubmitCheckReference, SubmitCommit
  <2>2. UNCHANGED <<invoice, activations>>
    BY <1>1 DEF SubmissionStep, SubmitLoad, SubmitCheckReference, SubmitCommit,
                tables
  <2> QED  BY <1>own, <2>1, <2>2, QuietIf
<1>2. CASE ReviewStep(r)
  <2>1. pc'[r] \in {"loaded", "done"}
    BY <1>2, AnswerAt, ContinueAt DEF ReviewStep, ReviewLoad, RejectCommit, RequestInfoCommit
  <2>2. UNCHANGED <<invoice, activations>>
    BY <1>2 DEF ReviewStep, ReviewLoad, RejectCommit, RequestInfoCommit, tables
  <2> QED  BY <1>own, <2>1, <2>2, QuietIf
<1>3. CASE \E i \in FirstOrders : IssueCheck(r, i)
  <2>1. pc'[r] = "loaded"
    BY <1>3, ContinueAt DEF IssueCheck
  <2>2. UNCHANGED <<invoice, activations>>
    BY <1>3 DEF IssueCheck, tables
  <2> QED  BY <1>own, <2>1, <2>2, QuietIf
<1>4. CASE \E i \in Invoices : IssueCommit(r, i)
  <2>1. PICK i \in Invoices : IssueCommit(r, i)
    BY <1>4
  <2>2. pc'[r] = "done"
    BY <2>1, AnswerAt DEF IssueCommit
  <2>3. invoice' = [invoice EXCEPT ![i] = [status |-> "issued", end |-> txn[r].end]]
    BY <2>1 DEF IssueCommit
  <2>4. \A j \in Invoices : invoice'[j].status = "paid" <=> invoice[j].status = "paid"
    BY <2>1, <2>3 DEF IssueCommit, TypeOK, InvoiceRow
  <2>5. activations' = activations
    BY <2>1 DEF IssueCommit
  <2> QED  BY <1>own, <2>2, <2>4, <2>5 DEF Own, Quiet
<1>5. CASE Abort(r)
  <2>1. pc'[r] = "done"
    BY <1>5, AnswerAt DEF Abort
  <2>2. UNCHANGED <<invoice, activations>>
    BY <1>5 DEF Abort, tables
  <2> QED  BY <1>own, <2>1, <2>2, QuietIf
<1> QED  BY <1>1, <1>2, <1>3, <1>4, <1>5 DEF IssueStep

(* Paying an invoice that is no approval's target keeps the locks'         *)
(* guarantees; a new entry by an approval must be the first one.           *)
LEMMA MarkKeeps ==
  ASSUME Typed, Serial, NEW r \in Requests, NEW i \in Invoices, NEW p \in Payments,
         NEW end, MarkInvoicePaid(r, i, p, end),
         r \in Approvals => activations[i] = << >>
  PROVE  /\ \A j \in Invoices : invoice'[j].status # "paid" => activations'[j] = << >>
         /\ ApprovalPaysOpenInvoice'
<1> DEFINE E == [by : Requests, pay : Payments]
           e == [by |-> r, pay |-> p]
<1>1. activations \in [Invoices -> Seq(E)] /\ invoice \in [Invoices -> InvoiceRow]
  BY DEF Typed, TypeOK
<1>2. invoice' = [invoice EXCEPT ![i] = [status |-> "paid", end |-> end]]
      /\ activations' = [activations EXCEPT ![i] = Append(activations[i], e)]
  BY DEF MarkInvoicePaid
<1>3. \A j \in Invoices : invoice'[j].status # "paid" => activations'[j] = << >>
  BY <1>1, <1>2 DEF Serial
<1>4. ASSUME NEW j \in Invoices, NEW k \in 1 .. Len(activations'[j]),
             activations'[j][k].by \in Approvals
      PROVE  k = 1
  <2>1. CASE j # i
    <3>1. activations'[j] = activations[j]
      BY <1>1, <1>2, <2>1
    <3> QED  BY <1>4, <3>1 DEF Serial, ApprovalPaysOpenInvoice
  <2>2. CASE j = i
    <3>1. e \in E /\ e.by = r
      OBVIOUS
    <3>2. activations[i] \in Seq(E)
      BY <1>1
    <3>3. activations'[j] = Append(activations[i], e)
      BY <1>1, <1>2, <2>2
    <3> HIDE DEF E, e
    <3>4. /\ Len(activations[i]) \in Nat
          /\ Len(activations'[j]) = Len(activations[i]) + 1
          /\ activations'[j][Len(activations[i]) + 1] = e
          /\ \A l \in 1 .. Len(activations[i]) : activations'[j][l] = activations[i][l]
      BY <3>1, <3>2, <3>3, AppendType
    <3>5. CASE k \in 1 .. Len(activations[i])
      <4>1. activations[i][k].by \in Approvals
        BY <1>4, <3>4, <3>5
      <4> QED  BY <3>5, <4>1 DEF Serial, ApprovalPaysOpenInvoice
    <3>6. CASE k = Len(activations[i]) + 1
      <4>1. r \in Approvals
        BY <1>4, <3>1, <3>4, <3>6
      <4>2. Len(activations[i]) = 0
        BY <4>1
      <4> QED  BY <3>6, <4>2
    <3> QED  BY <3>4, <3>5, <3>6
  <2> QED  BY <2>1, <2>2
<1> QED  BY <1>3, <1>4 DEF ApprovalPaysOpenInvoice

(* An approval that locks the invoice finds it unpaid, and is alone with   *)
(* it; one that commits is the invoice's first payment.                    *)
LEMMA ApprovalKeeps ==
  ASSUME Typed, Serial, NEW a \in Approvals, ApprovalStep(a)
  PROVE  Serial'
<1> TypeOK /\ ControlOK
  BY TypeSplit DEF Typed
<1>r. a \in Requests
  BY DEF Requests
<1>own. Own(a)
  BY <1>r, StepOwn
<1>t. txn[a] \in Session
  BY <1>r DEF ControlOK
<1>c. \A c \in CashEntries : c \in Requests \ {a}
  BY RequestsAssumption DEF Requests, Payments
<1>b. \A b \in Approvals \ {a} : b \in Requests \ {a}
  BY DEF Requests
<1>1. CASE \E p \in Payments : ApproveLoad(a, p)
  <2>1. pc'[a] = "loaded"
    BY <1>1, <1>r, ContinueAt DEF ApproveLoad
  <2>2. UNCHANGED <<invoice, activations>>
    BY <1>1 DEF ApproveLoad, tables
  <2> QED  BY <1>r, <1>own, <2>1, <2>2, QuietIf, QuietKeeps
<1>2. CASE ApproveLockPayment(a)
  <2>1. pc'[a] \in {"locked", "done"}
    BY <1>2, <1>r, AnswerAt, ContinueAt DEF ApproveLockPayment
  <2>2. UNCHANGED <<invoice, activations>>
    BY <1>2 DEF ApproveLockPayment, tables
  <2> QED  BY <1>r, <1>own, <2>1, <2>2, QuietIf, QuietKeeps
<1>3. CASE ApproveLockInvoice(a)
  <2>1. UNCHANGED <<invoice, activations>>
    BY <1>3 DEF ApproveLockInvoice
  <2>2. CASE Answer(a, "refused")
    BY <1>r, <1>own, <2>1, <2>2, AnswerAt, QuietIf, QuietKeeps
  <2>3. CASE /\ invoice[txn[a].inv].status # "paid"
             /\ \E end \in Nat : Continue(a, "ready", [txn[a] EXCEPT !.end = end])
    <3>1. pc'[a] = "ready" /\ txn'[a].inv = txn[a].inv
      BY <1>r, <1>t, <2>3, ContinueAt DEF Session
    <3>2. \A b \in Approvals : pc[b] = "ready" => txn[b].inv # txn[a].inv
      BY <1>3 DEF ApproveLockInvoice, InvoiceFree, HoldsInvoice, Requests
    <3>3. \A c \in CashEntries : pc[c] = "inserted" => txn[c].inv # txn[a].inv
      BY <1>3 DEF ApproveLockInvoice, Inserting
    <3>4. \A o \in Requests \ {a} : pc'[o] = pc[o] /\ txn'[o] = txn[o]
      BY <1>own DEF Own
    <3>5. \A b \in Approvals, d \in Approvals :
            pc'[b] = "ready" /\ pc'[d] = "ready" /\ txn'[b].inv = txn'[d].inv => b = d
      BY <1>b, <3>1, <3>2, <3>4 DEF Serial
    <3>6. \A b \in Approvals, c \in CashEntries :
            pc'[b] = "ready" /\ pc'[c] = "inserted" => txn'[b].inv # txn'[c].inv
      BY <1>b, <1>c, <3>1, <3>3, <3>4 DEF Serial
    <3>7. \A b \in Approvals : pc'[b] = "ready" => invoice'[txn'[b].inv].status # "paid"
      BY <1>b, <2>1, <2>3, <3>1, <3>4 DEF Serial
    <3>8. \A i \in Invoices : invoice'[i].status # "paid" => activations'[i] = << >>
      BY <2>1 DEF Serial
    <3>9. ApprovalPaysOpenInvoice'
      BY <2>1 DEF Serial, ApprovalPaysOpenInvoice
    <3> QED  BY <3>5, <3>6, <3>7, <3>8, <3>9 DEF Serial
  <2> QED  BY <1>3, <2>2, <2>3, InvoiceLocked
<1>4. CASE ApproveCommit(a)
  <2> DEFINE i == txn[a].inv
             p == txn[a].pay
  <2>1. pc[a] = "ready" /\ MarkInvoicePaid(a, i, p, txn[a].end)
    BY <1>4 DEF ApproveCommit
  <2>2. i \in Invoices /\ p \in Payments
    BY <1>r, <1>t, <2>1 DEF Session, Typed, ApprovalHasTarget, InFlight
  <2>3. activations[i] = << >>
    BY <2>1, <2>2 DEF Serial
  <2>4. pc'[a] = "done"
    BY <1>4, <1>r, AnswerAt DEF ApproveCommit
  <2>5. invoice' = [invoice EXCEPT ![i] = [status |-> "paid", end |-> txn[a].end]]
    BY <2>1 DEF MarkInvoicePaid
  <2>6. \A b \in Approvals : pc'[b] = "ready" => b # a /\ pc[b] = "ready" /\ txn'[b] = txn[b]
    BY <1>b, <1>own, <2>4 DEF Own
  <2>7. \A c \in CashEntries : pc'[c] = pc[c] /\ txn'[c] = txn[c]
    BY <1>c, <1>own DEF Own
  <2>8. \A b \in Approvals : pc'[b] = "ready" => invoice'[txn'[b].inv].status # "paid"
    <3> SUFFICES ASSUME NEW b \in Approvals, pc'[b] = "ready"
                 PROVE  invoice'[txn'[b].inv].status # "paid"
      OBVIOUS
    <3>1. b # a /\ pc[b] = "ready" /\ txn'[b] = txn[b]
      BY <2>6
    <3>2. txn[b].inv # i /\ invoice[txn[b].inv].status # "paid"
      BY <2>1, <3>1 DEF Serial
    <3>3. txn[b].inv \in Invoices
      BY DEF Requests, ControlOK, Session
    <3>4. invoice'[txn[b].inv] = invoice[txn[b].inv]
      BY <2>5, <3>2, <3>3 DEF TypeOK
    <3> QED  BY <3>1, <3>2, <3>4
  <2>9. \A b \in Approvals, d \in Approvals :
          pc'[b] = "ready" /\ pc'[d] = "ready" /\ txn'[b].inv = txn'[d].inv => b = d
    BY <2>6 DEF Serial
  <2>10. \A b \in Approvals, c \in CashEntries :
           pc'[b] = "ready" /\ pc'[c] = "inserted" => txn'[b].inv # txn'[c].inv
    BY <2>6, <2>7 DEF Serial
  <2>11. /\ \A j \in Invoices : invoice'[j].status # "paid" => activations'[j] = << >>
         /\ ApprovalPaysOpenInvoice'
    BY <1>r, <2>1, <2>2, <2>3, MarkKeeps
  <2> QED  BY <2>8, <2>9, <2>10, <2>11 DEF Serial
<1> QED  BY <1>1, <1>2, <1>3, <1>4 DEF ApprovalStep

(* A cash entry that has inserted its payment holds off every approval of  *)
(* the invoice until it has paid it.                                       *)
LEMMA CashKeeps ==
  ASSUME Typed, Serial, NEW c \in CashEntries, CashStep(c)
  PROVE  Serial'
<1> TypeOK /\ ControlOK
  BY TypeSplit DEF Typed
<1>r. c \in Requests /\ c \in Payments /\ c \notin Approvals
  BY RequestsAssumption DEF Requests, Payments
<1>own. Own(c)
  BY <1>r, StepOwn
<1>t. txn[c] \in Session
  BY <1>r DEF ControlOK
<1>a. \A a \in Approvals : a \in Requests /\ pc'[a] = pc[a] /\ txn'[a] = txn[a]
  BY <1>r, <1>own DEF Own, Requests
<1>d. \A d \in CashEntries \ {c} : pc'[d] = pc[d] /\ txn'[d] = txn[d]
  BY <1>own DEF Own, Requests, Payments
<1>l. \A a, b \in Approvals :
        pc'[a] = "ready" /\ pc'[b] = "ready" /\ txn'[a].inv = txn'[b].inv => a = b
  BY <1>a DEF Serial
<1>1. CASE \E i \in Invoices, ref \in AnyRef : CashLoad(c, i, ref)
  <2>1. pc'[c] \in {"loaded", "done"}
    BY <1>1, <1>r, AnswerAt, ContinueAt DEF CashLoad
  <2>2. UNCHANGED <<invoice, activations>>
    BY <1>1 DEF CashLoad, tables
  <2> QED  BY <1>r, <1>own, <2>1, <2>2, QuietIf, QuietKeeps
<1>2. CASE CashInsert(c)
  <2> DEFINE session == [txn[c] EXCEPT !.end = PaidPeriodEnd(txn[c].inv, txn[c].seen)]
  <2>1. UNCHANGED <<invoice, activations>>
    BY <1>2 DEF CashInsert, tables
  <2>2. \/ Answer(c, "failed")
        \/ Continue(c, "inserted", session)
    BY <1>2 DEF CashInsert
  <2>3. CASE Answer(c, "failed")
    BY <1>r, <1>own, <2>1, <2>3, AnswerAt, QuietIf, QuietKeeps
  <2>4. CASE Continue(c, "inserted", session)
    <3>1. txn'[c].inv = txn[c].inv
      BY <1>r, <1>t, <2>4, ContinueAt DEF Session
    <3>2. \A a \in Approvals : pc[a] = "ready" => txn[a].inv # txn[c].inv
      BY <1>2 DEF CashInsert, InvoiceFree, HoldsInvoice, Requests
    <3>3. \A a \in Approvals, d \in CashEntries :
            pc'[a] = "ready" /\ pc'[d] = "inserted" => txn'[a].inv # txn'[d].inv
      BY <1>a, <1>d, <3>1, <3>2 DEF Serial
    <3>4. \A a \in Approvals : pc'[a] = "ready" => invoice'[txn'[a].inv].status # "paid"
      BY <1>a, <2>1 DEF Serial
    <3>5. ApprovalPaysOpenInvoice'
      BY <2>1 DEF Serial, ApprovalPaysOpenInvoice
    <3>6. \A i \in Invoices : invoice'[i].status # "paid" => activations'[i] = << >>
      BY <2>1 DEF Serial
    <3> QED  BY <1>l, <3>3, <3>4, <3>5, <3>6 DEF Serial
  <2> QED  BY <2>2, <2>3, <2>4
<1>3. CASE CashCommit(c)
  <2> DEFINE i == txn[c].inv
  <2>1. pc[c] = "inserted" /\ MarkInvoicePaid(c, i, c, txn[c].end)
    BY <1>3 DEF CashCommit
  <2>2. i \in Invoices
    BY <1>t DEF Session
  <2>3. pc'[c] = "settled"
    BY <1>3, <1>r, ContinueAt DEF CashCommit
  <2>4. invoice' = [invoice EXCEPT ![i] = [status |-> "paid", end |-> txn[c].end]]
    BY <2>1 DEF MarkInvoicePaid
  <2>5. \A a \in Approvals : pc'[a] = "ready" => invoice'[txn'[a].inv].status # "paid"
    <3> SUFFICES ASSUME NEW a \in Approvals, pc'[a] = "ready"
                 PROVE  invoice'[txn'[a].inv].status # "paid"
      OBVIOUS
    <3>1. a \in Requests /\ pc[a] = "ready" /\ txn'[a] = txn[a]
      BY <1>a
    <3>2. txn[a].inv # i /\ invoice[txn[a].inv].status # "paid"
      BY <2>1, <3>1 DEF Serial
    <3>3. txn[a].inv \in Invoices
      BY <3>1 DEF ControlOK, Session
    <3>4. invoice'[txn[a].inv] = invoice[txn[a].inv]
      BY <2>4, <3>2, <3>3 DEF TypeOK
    <3> QED  BY <3>1, <3>2, <3>4
  <2>6. \A a \in Approvals, d \in CashEntries :
          pc'[a] = "ready" /\ pc'[d] = "inserted" => txn'[a].inv # txn'[d].inv
    BY <1>a, <1>d, <2>3 DEF Serial
  <2>7. /\ \A j \in Invoices : invoice'[j].status # "paid" => activations'[j] = << >>
        /\ ApprovalPaysOpenInvoice'
    BY <1>r, <2>1, <2>2, MarkKeeps
  <2> QED  BY <1>l, <2>5, <2>6, <2>7 DEF Serial
<1>4. CASE CashFindPending(c)
  <2>1. pc'[c] \in {"superseding", "done"}
    BY <1>4, <1>r, AnswerAt, ContinueAt DEF CashFindPending
  <2>2. UNCHANGED <<invoice, activations>>
    BY <1>4 DEF CashFindPending, tables
  <2> QED  BY <1>r, <1>own, <2>1, <2>2, QuietIf, QuietKeeps
<1>5. CASE CashSupersede(c)
  <2>1. pc'[c] = "done"
    BY <1>5, <1>r, AnswerAt DEF CashSupersede
  <2>2. UNCHANGED <<invoice, activations>>
    BY <1>5 DEF CashSupersede
  <2> QED  BY <1>r, <1>own, <2>1, <2>2, QuietIf, QuietKeeps
<1> QED  BY <1>1, <1>2, <1>3, <1>4, <1>5 DEF CashStep

(* Every step keeps what the locks achieve.                                *)
LEMMA StepSerial ==
  ASSUME Typed, Serial, [Next]_vars
  PROVE  Serial'
<1> TypeOK
  BY DEF Typed
<1>q. ASSUME UNCHANGED <<invoice, activations, pc, txn>>
      PROVE  Serial'
  BY <1>q, QuietKeeps DEF Quiet
<1>1. CASE \E s \in Submissions : SubmissionStep(s)
  BY <1>1, BystandersQuiet, QuietKeeps DEF Requests, Payments
<1>2. CASE \E a \in Approvals : ApprovalStep(a)
  BY <1>2, ApprovalKeeps
<1>3. CASE \E r \in Rejections \cup InfoRequests : ReviewStep(r)
  BY <1>3, BystandersQuiet, QuietKeeps DEF Requests
<1>4. CASE \E c \in CashEntries : CashStep(c)
  BY <1>4, CashKeeps
<1>5. CASE \E n \in Issuers : IssueStep(n)
  BY <1>5, BystandersQuiet, QuietKeeps DEF Requests
<1>6. CASE \E r \in Unreliable : Abort(r)
  BY <1>6, BystandersQuiet, QuietKeeps, RequestsAssumption DEF Requests, Payments
<1>7. CASE Tick
  BY <1>7, <1>q DEF Tick, tables
<1>8. CASE UNCHANGED vars
  BY <1>8, <1>q DEF vars
<1> QED  BY <1>1, <1>2, <1>3, <1>4, <1>5, <1>6, <1>7, <1>8, NextSplit

(* At first nobody is about to pay and nothing is paid.                    *)
LEMMA InitSerial ==
  ASSUME Init
  PROVE  Serial
<1>1. \A i \in Invoices : activations[i] = << >>
  BY DEF Init
<1>2. ApprovalPaysOpenInvoice
  BY <1>1 DEF ApprovalPaysOpenInvoice
<1>3. \A r \in Requests : pc[r] = "new"
  BY DEF Init
<1> QED  BY <1>1, <1>2, <1>3 DEF Serial, Requests

(* However many approvals, cash entries, rejections and submissions run at *)
(* once, an approval never pays an invoice that has been paid before.      *)
THEOREM ApprovalsPayOpenInvoices == Spec => []ApprovalPaysOpenInvoice
<1>1. Init => Typed /\ Serial
  BY InitTyped, InitSerial
<1>2. Typed /\ Serial /\ [Next]_vars => (Typed /\ Serial)'
  BY StepTyped, StepSerial
<1>3. Serial => ApprovalPaysOpenInvoice
  BY DEF Serial
<1> QED  BY <1>1, <1>2, <1>3, PTL DEF Spec

-----------------------------------------------------------------------------
(* Without cash entries an invoice is paid once.                           *)

(* Whoever marks an invoice paid is an approval or a cash entry.           *)
PaidByDesk ==
  \A i \in Invoices : \A k \in 1 .. Len(activations[i]) :
    activations[i][k].by \in Approvals \cup CashEntries

(* Only these two mark invoices paid.                                      *)
LEMMA OnlyDeskPays ==
  ASSUME Typed, [Next]_vars
  PROVE  \/ activations' = activations
         \/ \E r \in Approvals \cup CashEntries, i \in Invoices, p \in Payments, end \in Nat :
              MarkInvoicePaid(r, i, p, end)
<1> TypeOK /\ ControlOK
  BY TypeSplit DEF Typed
<1> DEFINE Paying == \E r \in Approvals \cup CashEntries, i \in Invoices,
                        p \in Payments, end \in Nat : MarkInvoicePaid(r, i, p, end)
<1>1. CASE \E s \in Submissions : SubmissionStep(s)
  BY <1>1, BystandersQuiet DEF Quiet, Requests, Payments
<1>2. ASSUME NEW a \in Approvals, ApprovalStep(a)
      PROVE  activations' = activations \/ Paying
  <2>1. CASE ApproveCommit(a)
    <3>1. txn[a].inv \in Invoices /\ txn[a].end \in Nat
      BY DEF ControlOK, Session, Requests
    <3>2. txn[a].pay \in Payments
      BY <2>1 DEF ApproveCommit, Typed, ApprovalHasTarget, InFlight
    <3> QED  BY <2>1, <3>1, <3>2 DEF ApproveCommit
  <2>2. CASE \E p \in Payments : ApproveLoad(a, p)
    BY <2>2 DEF ApproveLoad, tables
  <2>3. CASE ApproveLockPayment(a)
    BY <2>3 DEF ApproveLockPayment, tables
  <2>4. CASE ApproveLockInvoice(a)
    BY <2>4 DEF ApproveLockInvoice
  <2> QED  BY <1>2, <2>1, <2>2, <2>3, <2>4 DEF ApprovalStep
<1>3. CASE \E r \in Rejections \cup InfoRequests : ReviewStep(r)
  BY <1>3, BystandersQuiet DEF Quiet, Requests
<1>4. ASSUME NEW c \in CashEntries, CashStep(c)
      PROVE  activations' = activations \/ Paying
  <2>1. CASE CashCommit(c)
    <3>1. txn[c].inv \in Invoices /\ txn[c].end \in Nat
      BY DEF ControlOK, Session, Requests, Payments
    <3>2. c \in Payments
      BY DEF Payments
    <3> QED  BY <2>1, <3>1, <3>2 DEF CashCommit
  <2>2. CASE CashInsert(c)
    BY <2>2 DEF CashInsert, tables
  <2>3. CASE \E i \in Invoices, ref \in AnyRef : CashLoad(c, i, ref)
    BY <2>3 DEF CashLoad, tables
  <2>4. CASE CashFindPending(c)
    BY <2>4 DEF CashFindPending, tables
  <2>5. CASE CashSupersede(c)
    BY <2>5 DEF CashSupersede
  <2> QED  BY <1>4, <2>1, <2>2, <2>3, <2>4, <2>5 DEF CashStep
<1>5. CASE \E n \in Issuers : IssueStep(n)
  BY <1>5, BystandersQuiet DEF Quiet, Requests
<1>6. CASE \E r \in Unreliable : Abort(r)
  BY <1>6, BystandersQuiet, RequestsAssumption DEF Quiet, Requests, Payments
<1>7. CASE Tick \/ UNCHANGED vars
  BY <1>7 DEF Tick, tables, vars
<1> QED  BY <1>1, <1>2, <1>3, <1>4, <1>5, <1>6, <1>7, NextSplit

(* Hence the change log names no other request.                            *)
LEMMA StepPaidByDesk ==
  ASSUME Typed, PaidByDesk, [Next]_vars
  PROVE  PaidByDesk'
<1>1. CASE activations' = activations
  BY <1>1 DEF PaidByDesk
<1>2. ASSUME NEW r \in Approvals \cup CashEntries, NEW i \in Invoices, NEW p \in Payments,
             NEW end \in Nat, MarkInvoicePaid(r, i, p, end)
      PROVE  PaidByDesk'
  <2> SUFFICES ASSUME NEW j \in Invoices, NEW k \in 1 .. Len(activations'[j])
               PROVE  activations'[j][k].by \in Approvals \cup CashEntries
    BY DEF PaidByDesk
  <2> DEFINE E == [by : Requests, pay : Payments]
             e == [by |-> r, pay |-> p]
  <2>1. activations \in [Invoices -> Seq(E)]
    BY DEF Typed, TypeOK
  <2>2. activations' = [activations EXCEPT ![i] = Append(activations[i], e)]
    BY <1>2 DEF MarkInvoicePaid
  <2>3. CASE j # i
    BY <2>1, <2>2, <2>3 DEF PaidByDesk
  <2>4. CASE j = i
    <3>1. e \in E /\ e.by = r
      BY DEF Requests, Payments
    <3>2. activations[i] \in Seq(E) /\ activations'[j] = Append(activations[i], e)
      BY <2>1, <2>2, <2>4
    <3> HIDE DEF E, e
    <3>3. /\ Len(activations[i]) \in Nat
          /\ Len(activations'[j]) = Len(activations[i]) + 1
          /\ activations'[j][Len(activations[i]) + 1] = e
          /\ \A l \in 1 .. Len(activations[i]) : activations'[j][l] = activations[i][l]
      BY <3>1, <3>2, AppendType
    <3>4. CASE k \in 1 .. Len(activations[i])
      BY <3>3, <3>4 DEF PaidByDesk
    <3>5. CASE k = Len(activations[i]) + 1
      BY <3>1, <3>3, <3>5
    <3> QED  BY <3>3, <3>4, <3>5
  <2> QED  BY <2>3, <2>4
<1> QED  BY <1>1, <1>2, OnlyDeskPays

(* As long as administrators review requests and record no cash, no        *)
(* invoice is marked paid twice.                                           *)
THEOREM ApprovalsPayOnce ==
  ASSUME CashEntries = {}
  PROVE  Spec => []PaidOnce
<1>1. Init => PaidByDesk
  BY DEF Init, PaidByDesk
<1>2. Typed /\ PaidByDesk /\ [Next]_vars => PaidByDesk'
  BY StepPaidByDesk
<1>3. Init => Typed
  BY InitTyped
<1>4. Typed /\ [Next]_vars => Typed'
  BY StepTyped
<1>5. Typed /\ PaidByDesk /\ ApprovalPaysOpenInvoice => PaidOnce
  <2> SUFFICES ASSUME Typed, PaidByDesk, ApprovalPaysOpenInvoice, NEW i \in Invoices
               PROVE  Len(activations[i]) <= 1
    BY DEF PaidOnce
  <2>1. Len(activations[i]) \in Nat
    <3> DEFINE E == [by : Requests, pay : Payments]
    <3>1. activations[i] \in Seq(E)
      BY DEF Typed, TypeOK
    <3> HIDE DEF E
    <3> QED  BY <3>1
  <2>2. CASE Len(activations[i]) >= 1
    <3>1. Len(activations[i]) \in 1 .. Len(activations[i])
      BY <2>1, <2>2
    <3>2. activations[i][Len(activations[i])].by \in Approvals
      BY <3>1 DEF PaidByDesk
    <3> QED  BY <3>1, <3>2 DEF ApprovalPaysOpenInvoice
  <2> QED  BY <2>1, <2>2
<1> QED  BY <1>1, <1>2, <1>3, <1>4, <1>5, ApprovalsPayOpenInvoices, PTL DEF Spec

-----------------------------------------------------------------------------
(* Invoices, change log and subscriptions agree.                           *)

(* The books are written by issuing an invoice for the first time, and by  *)
(* marking one paid.                                                       *)
LEMMA BookWrites ==
  ASSUME Typed, [Next]_vars
  PROVE  \/ UNCHANGED <<invoice, sub, activations>>
         \/ \E i \in Invoices, end \in Nat :
              /\ invoice[i].status = "none"
              /\ invoice' = [invoice EXCEPT ![i] = [status |-> "issued", end |-> end]]
              /\ UNCHANGED <<sub, activations>>
         \/ \E r \in Approvals \cup CashEntries, i \in Invoices, p \in Payments, end \in Nat :
              MarkInvoicePaid(r, i, p, end)
<1> TypeOK /\ ControlOK
  BY TypeSplit DEF Typed
<1> DEFINE Same == UNCHANGED <<invoice, sub, activations>>
           Paying == \E r \in Approvals \cup CashEntries, i \in Invoices,
                        p \in Payments, end \in Nat : MarkInvoicePaid(r, i, p, end)
           Issuing == \E i \in Invoices, end \in Nat :
              /\ invoice[i].status = "none"
              /\ invoice' = [invoice EXCEPT ![i] = [status |-> "issued", end |-> end]]
              /\ UNCHANGED <<sub, activations>>
<1>1. ASSUME NEW s \in Submissions, SubmissionStep(s)
      PROVE  Same
  BY <1>1 DEF SubmissionStep, SubmitLoad, SubmitCheckReference, SubmitCommit, tables
<1>2. ASSUME NEW a \in Approvals, ApprovalStep(a)
      PROVE  Same \/ Paying
  <2>1. CASE ApproveCommit(a)
    <3>1. txn[a].inv \in Invoices /\ txn[a].end \in Nat
      BY DEF ControlOK, Session, Requests
    <3>2. txn[a].pay \in Payments
      BY <2>1 DEF ApproveCommit, Typed, ApprovalHasTarget, InFlight
    <3> QED  BY <2>1, <3>1, <3>2 DEF ApproveCommit
  <2>2. CASE \/ \E p \in Payments : ApproveLoad(a, p)
             \/ ApproveLockPayment(a) \/ ApproveLockInvoice(a)
    BY <2>2 DEF ApproveLoad, ApproveLockPayment, ApproveLockInvoice, tables
  <2> QED  BY <1>2, <2>1, <2>2 DEF ApprovalStep
<1>3. ASSUME NEW r \in Rejections \cup InfoRequests, ReviewStep(r)
      PROVE  Same
  BY <1>3 DEF ReviewStep, ReviewLoad, RejectCommit, RequestInfoCommit, tables
<1>4. ASSUME NEW c \in CashEntries, CashStep(c)
      PROVE  Same \/ Paying
  <2>1. CASE CashCommit(c)
    <3>1. txn[c].inv \in Invoices /\ txn[c].end \in Nat
      BY DEF ControlOK, Session, Requests, Payments
    <3>2. c \in Payments
      BY DEF Payments
    <3> QED  BY <2>1, <3>1, <3>2 DEF CashCommit
  <2>2. CASE \/ \E i \in Invoices, ref \in AnyRef : CashLoad(c, i, ref)
             \/ CashInsert(c) \/ CashFindPending(c) \/ CashSupersede(c)
    BY <2>2 DEF CashLoad, CashInsert, CashFindPending, CashSupersede, tables
  <2> QED  BY <1>4, <2>1, <2>2 DEF CashStep
<1>5. ASSUME NEW n \in Issuers, IssueStep(n)
      PROVE  Same \/ Issuing
  <2>1. CASE \E i \in FirstOrders : IssueCheck(n, i)
    BY <2>1 DEF IssueCheck, tables
  <2>2. CASE \E i \in Invoices : IssueCommit(n, i)
    <3>1. txn[n].end \in Nat
      BY DEF ControlOK, Session, Requests
    <3> QED  BY <2>2, <3>1 DEF IssueCommit
  <2> QED  BY <1>5, <2>1, <2>2 DEF IssueStep
<1>6. CASE (\E r \in Unreliable : Abort(r)) \/ Tick \/ UNCHANGED vars
  BY <1>6 DEF Abort, Tick, tables, vars
<1> QED  BY <1>1, <1>2, <1>3, <1>4, <1>5, <1>6, NextSplit

(* Each of these writes keeps the books in agreement.                      *)
LEMMA StepBooks ==
  ASSUME Typed, BooksAgree, [Next]_vars
  PROVE  BooksAgree'
<1> DEFINE E == [by : Requests, pay : Payments]
           Paid(h) == {i \in Invoices : Owner[i] = h /\ invoice[i].status = "paid"}
<1>t. /\ invoice \in [Invoices -> InvoiceRow] /\ sub \in [Houses -> SubRow]
      /\ activations \in [Invoices -> Seq(E)] /\ Owner \in [Invoices -> Houses]
  BY ConstantsAssumption DEF Typed, TypeOK
<1>b. /\ \A i \in Invoices : invoice[i].status = "paid" <=> activations[i] # << >>
      /\ \A h \in Houses : Paid(h) # {} =>
           sub[h].status = "active" /\ \E i \in Paid(h) : invoice[i].end = sub[h].end
  BY DEF BooksAgree
<1> SUFFICES /\ \A i \in Invoices : invoice'[i].status = "paid" <=> activations'[i] # << >>
             /\ \A h \in Houses : Paid(h)' # {} =>
                  sub'[h].status = "active" /\ \E i \in Paid(h)' : invoice'[i].end = sub'[h].end
  BY DEF BooksAgree
<1>1. CASE UNCHANGED <<invoice, sub, activations>>
  BY <1>1, <1>b
<1>2. ASSUME NEW i \in Invoices, NEW end \in Nat, invoice[i].status = "none",
             invoice' = [invoice EXCEPT ![i] = [status |-> "issued", end |-> end]],
             UNCHANGED <<sub, activations>>
      PROVE  /\ \A j \in Invoices : invoice'[j].status = "paid" <=> activations'[j] # << >>
             /\ \A h \in Houses : Paid(h)' # {} =>
                  sub'[h].status = "active" /\ \E j \in Paid(h)' : invoice'[j].end = sub'[h].end
  <2>1. \A j \in Invoices : /\ j # i => invoice'[j] = invoice[j]
                            /\ invoice'[j].status = "paid" <=> invoice[j].status = "paid"
    BY <1>2, <1>t
  <2>2. \A h \in Houses : Paid(h)' = Paid(h)
    BY <2>1
  <2>3. \A h \in Houses : \A j \in Paid(h) : invoice'[j] = invoice[j]
    BY <1>2, <2>1
  <2> HIDE DEF Paid
  <2> QED  BY <1>2, <1>b, <2>1, <2>2, <2>3
<1>3. ASSUME NEW r \in Approvals \cup CashEntries, NEW i \in Invoices, NEW p \in Payments,
             NEW end \in Nat, MarkInvoicePaid(r, i, p, end)
      PROVE  /\ \A j \in Invoices : invoice'[j].status = "paid" <=> activations'[j] # << >>
             /\ \A h \in Houses : Paid(h)' # {} =>
                  sub'[h].status = "active" /\ \E j \in Paid(h)' : invoice'[j].end = sub'[h].end
  <2> DEFINE e == [by |-> r, pay |-> p]
  <2>1. /\ invoice' = [invoice EXCEPT ![i] = [status |-> "paid", end |-> end]]
        /\ sub' = [sub EXCEPT ![Owner[i]] = [status |-> "active", end |-> end]]
        /\ activations' = [activations EXCEPT ![i] = Append(activations[i], e)]
    BY <1>3 DEF MarkInvoicePaid
  <2>2. activations'[i] # << >>
    <3>1. activations[i] \in Seq(E) /\ e \in E /\ activations'[i] = Append(activations[i], e)
      BY <1>t, <2>1 DEF Requests, Payments
    <3> HIDE DEF E, e
    <3>2. Len(activations[i]) \in Nat /\ Len(activations'[i]) = Len(activations[i]) + 1
      BY <3>1, AppendType
    <3> QED  BY <3>2
  <2>3. \A j \in Invoices : invoice'[j].status = "paid" <=> activations'[j] # << >>
    BY <1>t, <1>b, <2>1, <2>2
  <2>4. i \in Paid(Owner[i])' /\ invoice'[i].end = end
    BY <1>t, <2>1
  <2>5. sub'[Owner[i]].status = "active" /\ sub'[Owner[i]].end = end
    BY <1>t, <2>1
  <2>6. ASSUME NEW h \in Houses, h # Owner[i]
        PROVE  /\ Paid(h)' = Paid(h) /\ sub'[h] = sub[h]
               /\ \A j \in Paid(h) : invoice'[j] = invoice[j]
    BY <1>t, <2>1, <2>6
  <2> HIDE DEF Paid
  <2> QED  BY <1>b, <2>3, <2>4, <2>5, <2>6
<1> QED  BY <1>1, <1>2, <1>3, BookWrites

(* Whatever requests overlap or are cut off, an invoice is paid exactly if *)
(* the change log says so, and the subscription of a house that has paid   *)
(* is active to the end of a period it has paid for.                       *)
THEOREM BooksAlwaysAgree == Spec => []BooksAgree
<1>1. Init => Typed /\ BooksAgree
  <2> SUFFICES ASSUME Init PROVE BooksAgree
    BY InitTyped
  <2>1. \A i \in Invoices : invoice[i].status # "paid" /\ activations[i] = << >>
    BY DEF Init
  <2> QED  BY <2>1 DEF BooksAgree
<1>2. Typed /\ BooksAgree /\ [Next]_vars => (Typed /\ BooksAgree)'
  BY StepTyped, StepBooks
<1> QED  BY <1>1, <1>2, PTL DEF Spec

-----------------------------------------------------------------------------
(* Live payments keep their references apart.                              *)

(* A payment row is locked by one request.                                 *)
OneHolder ==
  \A r, o \in Requests, p \in Payments : HoldsPayment(r, p) /\ HoldsPayment(o, p) => r = o

(* The payment an approval has locked stays live.                          *)
HeldIsLive ==
  \A a \in Approvals : pc[a] \in {"locked", "ready"} => Live(txn[a].pay)

(* A cash entry that has inserted its payment has its reference to itself. *)
ClaimsApart ==
  \A c \in CashEntries : Inserting(c) /\ txn[c].ref # NoRef =>
    /\ \A p \in Payments : Live(p) => payment[p].ref # txn[c].ref
    /\ \A d \in CashEntries \ {c} : Inserting(d) => txn[d].ref # txn[c].ref

(* The property alone is not inductive: what a cash entry or an approval   *)
(* commits was looked up before, and is still right because of the locks   *)
(* and of the keys the index reserves.                                     *)
IndexOK == LiveReferencesUnique /\ OneHolder /\ HeldIsLive /\ ClaimsApart

(* A row that is live after a step was so before, with the same reference. *)
RowKept(p) == Live(p)' => Live(p) /\ payment'[p].ref = payment[p].ref

(* No other live row and no insertion has the reference of row p.          *)
RefAlone(p) ==
  payment'[p].ref # NoRef =>
    /\ \A q \in Payments \ {p} : Live(q)' => payment'[q].ref # payment'[p].ref
    /\ \A c \in CashEntries : Inserting(c)' => txn'[c].ref # payment'[p].ref

(* A request takes a row's lock only when it is free.                      *)
TakesFree(r) ==
  \A p \in Payments : HoldsPayment(r, p)' => HoldsPayment(r, p) \/ PaymentFree(p)

(* A row that ceases to be live is locked by no other request.             *)
FailsFree(r) ==
  \A p \in Payments : Live(p) /\ ~Live(p)' => \A o \in Requests \ {r} : ~HoldsPayment(o, p)

InsertersKept == \A c \in CashEntries : Inserting(c)' => Inserting(c) /\ txn'[c] = txn[c]

(* Locks taken when free keep their holders apart.                         *)
LEMMA HoldersApart ==
  ASSUME OneHolder, NEW r \in Requests, Own(r), TakesFree(r)
  PROVE  OneHolder'
<1> SUFFICES ASSUME NEW o \in Requests, NEW q \in Requests, NEW p \in Payments,
                    HoldsPayment(o, p)', HoldsPayment(q, p)'
             PROVE  o = q
  BY DEF OneHolder
<1>n. p # NoPayment
  BY RequestsAssumption DEF Payments
<1>1. \A x \in Requests \ {r} : HoldsPayment(x, p)' => HoldsPayment(x, p)
  BY DEF Own, HoldsPayment
<1>2. HoldsPayment(r, p)' => \A x \in Requests \ {r} : HoldsPayment(x, p) => FALSE
  BY <1>n DEF TakesFree, OneHolder, PaymentFree
<1> QED  BY <1>1, <1>2 DEF OneHolder

(* What approvals have locked stays live unless a step fails a locked row. *)
LEMMA LockedLive ==
  ASSUME Typed, HeldIsLive, NEW r \in Requests, Own(r), FailsFree(r),
         r \in Approvals /\ pc'[r] \in {"locked", "ready"} => Live(txn[r].pay)'
  PROVE  HeldIsLive'
<1> SUFFICES ASSUME NEW a \in Approvals, pc'[a] \in {"locked", "ready"}
             PROVE  Live(txn[a].pay)'
  BY DEF HeldIsLive, Live
<1>1. CASE a = r
  BY <1>1 DEF Live
<1>2. CASE a # r
  <2>1. a \in Requests /\ pc'[a] = pc[a] /\ txn'[a] = txn[a]
    BY <1>2 DEF Requests, Own
  <2>2. txn[a].pay \in Payments /\ HoldsPayment(a, txn[a].pay) /\ Live(txn[a].pay)
    BY <2>1 DEF Typed, ApprovalHasTarget, InFlight, HeldIsLive, HoldsPayment
  <2>3. \A p \in Payments : Live(p) /\ HoldsPayment(a, p) => Live(p)'
    BY <1>2, <2>1 DEF FailsFree
  <2> QED  BY <2>1, <2>2, <2>3 DEF Live
<1> QED  BY <1>1, <1>2

(* Rows stay apart if only one of them may appear, whose reference is      *)
(* alone.                                                                  *)
LEMMA RowsApart ==
  ASSUME LiveReferencesUnique, ClaimsApart, InsertersKept, NEW p,
         \A q \in Payments \ {p} : RowKept(q),
         p \in Payments => RowKept(p) \/ RefAlone(p)
  PROVE  LiveReferencesUnique' /\ ClaimsApart'
<1>1. LiveReferencesUnique'
  BY DEF LiveReferencesUnique, RowKept, RefAlone, Live
<1>2. ClaimsApart'
  <2> SUFFICES ASSUME NEW c \in CashEntries, Inserting(c)', txn'[c].ref # NoRef
               PROVE  /\ \A q \in Payments : Live(q)' => payment'[q].ref # txn'[c].ref
                      /\ \A d \in CashEntries \ {c} : Inserting(d)' => txn'[d].ref # txn'[c].ref
    BY DEF ClaimsApart, Live, Inserting
  <2>1. Inserting(c) /\ txn'[c] = txn[c]
    BY DEF InsertersKept
  <2>2. \A d \in CashEntries \ {c} : Inserting(d)' => txn'[d].ref # txn'[c].ref
    BY <2>1 DEF InsertersKept, ClaimsApart
  <2>3. \A q \in Payments : RowKept(q) /\ Live(q)' => payment'[q].ref # txn'[c].ref
    BY <2>1 DEF RowKept, ClaimsApart
  <2>4. p \in Payments /\ RefAlone(p) => payment'[p].ref # txn'[c].ref
    BY DEF RefAlone
  <2> QED  BY <2>2, <2>3, <2>4
<1> QED  BY <1>1, <1>2

(* Together: what a step has to respect.                                   *)
LEMMA IndexKept ==
  ASSUME Typed, IndexOK, NEW r \in Requests, Own(r), TakesFree(r), FailsFree(r), InsertersKept,
         r \in Approvals /\ pc'[r] \in {"locked", "ready"} => Live(txn[r].pay)',
         NEW p,
         \A q \in Payments \ {p} : RowKept(q),
         p \in Payments => RowKept(p) \/ RefAlone(p)
  PROVE  IndexOK'
BY HoldersApart, LockedLive, RowsApart DEF IndexOK

(* A step that writes no payment and takes no lock and no key respects it. *)
LEMMA IndexQuiet ==
  ASSUME Typed, IndexOK, NEW r \in Requests, Own(r), UNCHANGED payment,
         pc'[r] \in {"new", "loaded", "settled", "superseding", "done"}
  PROVE  IndexOK'
<1>1. TakesFree(r)
  BY DEF TakesFree, HoldsPayment
<1>2. FailsFree(r)
  BY DEF FailsFree, Live
<1>3. InsertersKept
  BY DEF InsertersKept, Inserting, Own, Requests, Payments
<1>4. \A q \in Payments : RowKept(q)
  BY DEF RowKept, Live
<1> QED  BY <1>1, <1>2, <1>3, <1>4, IndexKept

(* Writing one row's status leaves the other rows, references and invoices.*)
LEMMA StatusRow ==
  ASSUME payment \in [Payments -> PaymentRow], NEW p, NEW st,
         payment' = [payment EXCEPT ![p].status = st]
  PROVE  /\ \A q \in Payments : payment'[q].ref = payment[q].ref /\ payment'[q].inv = payment[q].inv
         /\ \A q \in Payments \ {p} : payment'[q] = payment[q]
         /\ p \in Payments => payment'[p].status = st
BY DEF PaymentRow

(* A submission claims an unlocked row; the row it inserts has a reference *)
(* of its own, the one it supersedes is its own to close.                  *)
LEMMA SubmissionIndex ==
  ASSUME Typed, IndexOK, NEW s \in Submissions, SubmissionStep(s)
  PROVE  IndexOK'
<1> TypeOK /\ ControlOK /\ TablesOK
  BY TypeSplit DEF Typed
<1>r. s \in Requests /\ s \in Payments /\ s \notin Approvals /\ s \notin CashEntries
  BY RequestsAssumption DEF Requests, Payments
<1>own. Own(s)
  BY <1>r, StepOwn
<1>1. CASE \E i \in Invoices, ref \in AnyRef : SubmitLoad(s, i, ref)
  <2>1. pc'[s] = "loaded" /\ UNCHANGED payment
    BY <1>1, <1>r, ContinueAt DEF SubmitLoad, tables
  <2> QED  BY <1>r, <1>own, <2>1, IndexQuiet
<1>2. CASE SubmitCheckReference(s)
  <2>1. UNCHANGED payment /\ PaymentFree(txn[s].old)
    BY <1>2 DEF SubmitCheckReference, tables
  <2>2. \/ pc'[s] = "done"
        \/ pc'[s] = "claimed" /\ txn'[s] = txn[s]
    BY <1>2, <1>r, AnswerAt, ContinueAt DEF SubmitCheckReference
  <2>3. TakesFree(s)
    BY <1>r, <2>1, <2>2 DEF TakesFree, HoldsPayment
  <2>4. FailsFree(s)
    BY <2>1 DEF FailsFree, Live
  <2>5. InsertersKept
    BY <1>r, <1>own DEF InsertersKept, Inserting, Own, Requests, Payments
  <2>6. \A q \in Payments : RowKept(q)
    BY <2>1 DEF RowKept, Live
  <2> QED  BY <1>r, <1>own, <2>3, <2>4, <2>5, <2>6, IndexKept
<1>3. CASE SubmitCommit(s)
  <2> DEFINE t == txn[s]
             closed == IF t.old = NoPayment THEN payment
                       ELSE [payment EXCEPT ![t.old].status = "failed"]
             row == [status |-> "pending", inv |-> t.inv, ref |-> t.ref]
  <2>1. pc'[s] = "done" /\ ReferenceFree(s, t.ref)
    BY <1>3, <1>r, AnswerAt DEF SubmitCommit
  <2>2. CASE UNCHANGED payment
    BY <1>r, <1>own, <2>1, <2>2, IndexQuiet
  <2>3. CASE ~ReferenceTaken(t.ref, {t.old}) /\ payment' = [closed EXCEPT ![s] = row]
    <3>1. \A q \in Payments : /\ q # t.old => closed[q] = payment[q]
                              /\ q = t.old => closed[q].status = "failed"
      BY RequestsAssumption DEF TablesOK, PaymentRow, Payments
    <3>2. /\ payment'[s] = row
          /\ \A q \in Payments \ {s} : payment'[q] = closed[q]
      <4>1. DOMAIN closed = Payments
        BY DEF TablesOK
      <4> HIDE DEF closed, row
      <4> QED  BY <1>r, <2>3, <4>1
    <3> HIDE DEF closed
    <3>3. \A q \in Payments \ {s} : RowKept(q)
      BY <3>1, <3>2 DEF RowKept, Live
    <3>4. RefAlone(s)
      <4>1. SUFFICES ASSUME t.ref # NoRef
                     PROVE  /\ \A q \in Payments \ {s} : Live(q)' => payment'[q].ref # t.ref
                            /\ \A c \in CashEntries : Inserting(c)' => txn'[c].ref # t.ref
        BY <3>2 DEF RefAlone
      <4>2. \A q \in Payments \ {s} : Live(q)' => payment'[q].ref # t.ref
        BY <2>3, <3>1, <3>2, <4>1 DEF Live, ReferenceTaken
      <4>3. \A c \in CashEntries : Inserting(c)' => txn'[c].ref # t.ref
        BY <1>r, <1>own, <2>1, <4>1
        DEF Inserting, Own, Requests, Payments, ReferenceFree, Reserves
      <4> QED  BY <4>2, <4>3
    <3>5. FailsFree(s)
      <4> SUFFICES ASSUME NEW p \in Payments, Live(p), ~Live(p)',
                          NEW o \in Requests \ {s}
                   PROVE  ~HoldsPayment(o, p)
        BY DEF FailsFree
      <4>1. p = t.old
        BY <3>1, <3>2 DEF Live
      <4>2. HoldsPayment(s, p) \/ PaymentFree(p)
        BY <1>3, <4>1 DEF SubmitCommit, HoldsPayment
      <4> QED  BY <1>r, <4>2, RequestsAssumption
               DEF IndexOK, OneHolder, PaymentFree, Payments
    <3>6. TakesFree(s)
      BY <2>1 DEF TakesFree, HoldsPayment
    <3>7. InsertersKept
      BY <1>r, <1>own DEF InsertersKept, Inserting, Own, Requests, Payments
    <3> QED  BY <1>r, <1>own, <3>3, <3>4, <3>5, <3>6, <3>7, IndexKept
  <2> QED  BY <1>3, <2>2, <2>3 DEF SubmitCommit
<1> QED  BY <1>1, <1>2, <1>3 DEF SubmissionStep

(* An approval locks a live payment, and alone writes what it has locked.  *)
LEMMA ApprovalIndex ==
  ASSUME Typed, IndexOK, NEW a \in Approvals, ApprovalStep(a)
  PROVE  IndexOK'
<1> TypeOK /\ ControlOK /\ TablesOK
  BY TypeSplit DEF Typed
<1>r. a \in Requests /\ a \notin CashEntries /\ a \notin Submissions
  BY RequestsAssumption DEF Requests
<1>own. Own(a)
  BY <1>r, StepOwn
<1>i. InsertersKept
  BY <1>r, <1>own DEF InsertersKept, Inserting, Own, Requests, Payments
<1>n. NoPayment \notin Payments
  BY RequestsAssumption DEF Payments
<1>1. CASE \E p \in Payments : ApproveLoad(a, p)
  <2>1. pc'[a] = "loaded" /\ UNCHANGED payment
    BY <1>1, <1>r, ContinueAt DEF ApproveLoad, tables
  <2> QED  BY <1>r, <1>own, <2>1, IndexQuiet
<1>2. CASE ApproveLockPayment(a)
  <2>1. UNCHANGED payment /\ PaymentFree(txn[a].pay)
    BY <1>2 DEF ApproveLockPayment, tables
  <2>2. \/ pc'[a] = "done"
        \/ pc'[a] = "locked" /\ txn'[a] = txn[a] /\ Live(txn[a].pay)
    BY <1>2, <1>r, AnswerAt, ContinueAt DEF ApproveLockPayment, Live
  <2>3. TakesFree(a)
    BY <1>r, <2>1, <2>2 DEF TakesFree, HoldsPayment
  <2>4. FailsFree(a)
    BY <2>1 DEF FailsFree, Live
  <2>5. pc'[a] \in {"locked", "ready"} => Live(txn[a].pay)'
    BY <2>1, <2>2 DEF Live
  <2>6. \A q \in Payments : RowKept(q)
    BY <2>1 DEF RowKept, Live
  <2> QED  BY <1>r, <1>own, <1>i, <2>3, <2>4, <2>5, <2>6, IndexKept
<1>3. ASSUME pc[a] \in {"locked", "ready"}
      PROVE  /\ txn[a].pay \in Payments /\ Live(txn[a].pay)
             /\ \A o \in Requests \ {a} : ~HoldsPayment(o, txn[a].pay)
  <2>1. txn[a].pay \in Payments /\ HoldsPayment(a, txn[a].pay)
    BY <1>3 DEF Typed, ApprovalHasTarget, InFlight, HoldsPayment
  <2> QED  BY <1>3, <1>r, <2>1 DEF IndexOK, HeldIsLive, OneHolder
<1>4. ASSUME pc[a] \in {"locked", "ready"}, pc'[a] = "done", NEW st \in {"failed", "succeeded"},
             payment' = [payment EXCEPT ![txn[a].pay].status = st]
      PROVE  IndexOK'
  <2> DEFINE p == txn[a].pay
  <2>1. p \in Payments /\ Live(p) /\ \A o \in Requests \ {a} : ~HoldsPayment(o, p)
    BY <1>3, <1>4
  <2>2. /\ \A q \in Payments : payment'[q].ref = payment[q].ref
        /\ \A q \in Payments \ {p} : payment'[q] = payment[q]
    BY <1>4, StatusRow DEF TablesOK
  <2> HIDE DEF p
  <2>3. FailsFree(a)
    BY <2>1, <2>2 DEF FailsFree, Live
  <2>4. \A q \in Payments : RowKept(q)
    BY <2>1, <2>2 DEF RowKept, Live
  <2>5. TakesFree(a)
    BY <1>r, <1>4 DEF TakesFree, HoldsPayment
  <2> QED  BY <1>4, <1>r, <1>own, <1>i, <2>3, <2>4, <2>5, IndexKept
<1>5. CASE ApproveLockInvoice(a)
  <2>1. pc[a] = "locked"
    BY <1>5 DEF ApproveLockInvoice
  <2>2. CASE payment' = [payment EXCEPT ![txn[a].pay].status = "failed"] /\ Answer(a, "refused")
    BY <1>4, <1>r, <2>1, <2>2, AnswerAt
  <2>3. CASE Answer(a, "refused") /\ UNCHANGED payment
    BY <1>r, <1>own, <2>3, AnswerAt, IndexQuiet
  <2>4. ASSUME UNCHANGED payment, NEW seen,
               Continue(a, "ready", [txn[a] EXCEPT !.end = PaidPeriodEnd(txn[a].inv, seen)])
        PROVE  IndexOK'
    <3> DEFINE end == PaidPeriodEnd(txn[a].inv, seen)
    <3>1. pc'[a] = "ready" /\ txn'[a] = [txn[a] EXCEPT !.end = end]
      BY <1>r, <2>4, ContinueAt
    <3> HIDE DEF end
    <3>2. txn'[a].pay = txn[a].pay
      BY <1>r, <3>1 DEF ControlOK, Session
    <3>3. TakesFree(a)
      BY <1>r, <2>1, <3>1, <3>2 DEF TakesFree, HoldsPayment
    <3>4. FailsFree(a)
      BY <2>4 DEF FailsFree, Live
    <3>5. Live(txn[a].pay)'
      BY <1>3, <2>1, <2>4, <3>2 DEF Live
    <3>6. \A q \in Payments : RowKept(q)
      BY <2>4 DEF RowKept, Live
    <3> QED  BY <1>r, <1>own, <1>i, <3>3, <3>4, <3>5, <3>6, IndexKept
  <2> QED  BY <1>5, <2>2, <2>3, <2>4 DEF ApproveLockInvoice
<1>6. CASE ApproveCommit(a)
  <2>1. pc[a] = "ready" /\ payment' = [payment EXCEPT ![txn[a].pay].status = "succeeded"]
        /\ Answer(a, "ok")
    BY <1>6 DEF ApproveCommit
  <2> QED  BY <1>4, <1>r, <2>1, AnswerAt
<1> QED  BY <1>1, <1>2, <1>5, <1>6 DEF ApprovalStep

(* A rejection or a question waits for the row; a question brings a failed *)
(* row back only while its reference is free.                              *)
LEMMA ReviewIndex ==
  ASSUME Typed, IndexOK, NEW r \in Rejections \cup InfoRequests, ReviewStep(r)
  PROVE  IndexOK'
<1> TypeOK /\ ControlOK /\ TablesOK
  BY TypeSplit DEF Typed
<1>r. r \in Requests /\ r \notin Approvals /\ r \notin Submissions /\ r \notin CashEntries
  BY RequestsAssumption DEF Requests
<1>own. Own(r)
  BY <1>r, StepOwn
<1>p. PICK p : p = txn[r].pay
  OBVIOUS
<1>1. CASE \E q \in Payments : ReviewLoad(r, q)
  <2>1. pc'[r] = "loaded" /\ UNCHANGED payment
    BY <1>1, <1>r, ContinueAt DEF ReviewLoad, tables
  <2> QED  BY <1>r, <1>own, <2>1, IndexQuiet
<1>2. ASSUME pc'[r] = "done", PaymentFree(p), NEW st \in {"failed", "needs_info"},
             payment' = [payment EXCEPT ![p].status = st],
             p \in Payments /\ st # "failed" => RefAlone(p)
      PROVE  IndexOK'
  <2>1. /\ \A q \in Payments : payment'[q].ref = payment[q].ref
        /\ \A q \in Payments \ {p} : payment'[q] = payment[q]
        /\ p \in Payments => payment'[p].status = st
    BY <1>2, StatusRow DEF TablesOK
  <2>2. \A q \in Payments : PaymentFree(q) => \A o \in Requests : ~HoldsPayment(o, q)
    BY RequestsAssumption DEF PaymentFree, Payments
  <2>3. FailsFree(r)
    BY <1>2, <2>1, <2>2 DEF FailsFree, Live
  <2>4. \A q \in Payments \ {p} : RowKept(q)
    BY <2>1 DEF RowKept, Live
  <2>7. p \in Payments => RowKept(p) \/ RefAlone(p)
    <3>1. CASE st = "failed"
      BY <2>1, <3>1 DEF RowKept, Live
    <3>2. CASE st # "failed"
      BY <1>2, <3>2
    <3> QED  BY <3>1, <3>2
  <2>5. TakesFree(r)
    BY <1>r DEF TakesFree, HoldsPayment
  <2>6. InsertersKept
    BY <1>r, <1>own DEF InsertersKept, Inserting, Own, Requests, Payments
  <2> QED  BY <1>2, <1>r, <1>own, <2>3, <2>4, <2>5, <2>6, <2>7, IndexKept
<1>3. CASE RejectCommit(r)
  BY <1>p, <1>2, <1>3, <1>r, AnswerAt DEF RejectCommit
<1>4. CASE RequestInfoCommit(r)
  <2>1. pc'[r] = "done" /\ PaymentFree(p) /\ ReferenceFree(r, payment[p].ref)
    BY <1>p, <1>4, <1>r, AnswerAt DEF RequestInfoCommit
  <2>2. CASE UNCHANGED payment
    BY <1>r, <1>own, <2>1, <2>2, IndexQuiet
  <2>3. CASE /\ ~ReferenceTaken(payment[p].ref, {p})
             /\ payment' = [payment EXCEPT ![p].status = "needs_info"]
    <3>1. ASSUME p \in Payments
          PROVE  RefAlone(p)
      <4>1. payment'[p].ref = payment[p].ref /\ \A q \in Payments \ {p} : payment'[q] = payment[q]
        BY <2>3, <3>1, StatusRow DEF TablesOK
      <4>2. payment[p].ref # NoRef =>
              \A q \in Payments \ {p} : Live(q)' => payment'[q].ref # payment[p].ref
        BY <2>3, <4>1 DEF Live, ReferenceTaken
      <4>3. payment[p].ref # NoRef =>
              \A c \in CashEntries : Inserting(c)' => txn'[c].ref # payment[p].ref
        BY <1>r, <1>own, <2>1
        DEF Inserting, Own, Requests, Payments, ReferenceFree, Reserves
      <4> QED  BY <4>1, <4>2, <4>3 DEF RefAlone
    <3> QED  BY <1>2, <2>1, <2>3, <3>1
  <2> QED  BY <1>p, <1>4, <2>2, <2>3 DEF RequestInfoCommit
<1> QED  BY <1>1, <1>3, <1>4 DEF ReviewStep

(* A cash entry inserts a payment with a reference nobody has, and keeps   *)
(* others from it until the payment is committed.                          *)
LEMMA CashIndex ==
  ASSUME Typed, IndexOK, NEW c \in CashEntries, CashStep(c)
  PROVE  IndexOK'
<1> TypeOK /\ ControlOK /\ TablesOK
  BY TypeSplit DEF Typed
<1>r. c \in Requests /\ c \in Payments /\ c \notin Approvals /\ c \notin Submissions
  BY RequestsAssumption DEF Requests, Payments
<1>own. Own(c)
  BY <1>r, StepOwn
<1>h. TakesFree(c)
  BY <1>r DEF TakesFree, HoldsPayment
<1>d. \A d \in CashEntries \ {c} :
        d \in Requests \ {c} /\ (Inserting(d)' <=> Inserting(d)) /\ txn'[d] = txn[d]
  BY <1>own DEF Own, Inserting, Requests, Payments
<1>1. CASE \/ \E i \in Invoices, ref \in AnyRef : CashLoad(c, i, ref)
           \/ CashFindPending(c)
  <2>1. pc'[c] \in {"loaded", "superseding", "done"} /\ UNCHANGED payment
    BY <1>1, <1>r, ContinueAt, AnswerAt DEF CashLoad, CashFindPending, tables
  <2> QED  BY <1>r, <1>own, <2>1, IndexQuiet
<1>2. CASE CashInsert(c)
  <2> DEFINE t == txn[c]
             session == [t EXCEPT !.end = PaidPeriodEnd(t.inv, t.seen)]
  <2>1. UNCHANGED payment /\ ReferenceFree(c, t.ref)
    BY <1>2 DEF CashInsert, tables
  <2>2. CASE Answer(c, "failed")
    BY <1>r, <1>own, <2>1, <2>2, AnswerAt, IndexQuiet
  <2>3. CASE ~ReferenceTaken(t.ref, {}) /\ Continue(c, "inserted", session)
    <3>1. pc'[c] = "inserted" /\ txn'[c].ref = t.ref
      BY <1>r, <2>3, ContinueAt DEF ControlOK, Session
    <3>2. OneHolder'
      BY <1>r, <1>own, <1>h, HoldersApart DEF IndexOK
    <3>3. HeldIsLive'
      BY <1>r, <1>own, <2>1, LockedLive DEF IndexOK, FailsFree, Live
    <3>4. LiveReferencesUnique'
      BY <2>1 DEF IndexOK, LiveReferencesUnique, Live
    <3>5. t.ref # NoRef => \A d \in CashEntries \ {c} : Inserting(d) => txn[d].ref # t.ref
      BY <1>d, <2>1 DEF ReferenceFree, Reserves
    <3>6. ClaimsApart'
      <4> SUFFICES ASSUME NEW d \in CashEntries, Inserting(d)', txn'[d].ref # NoRef
                   PROVE  /\ \A p \in Payments : Live(p)' => payment'[p].ref # txn'[d].ref
                          /\ \A e \in CashEntries \ {d} :
                               Inserting(e)' => txn'[e].ref # txn'[d].ref
        BY DEF ClaimsApart, Live, Inserting
      <4>1. CASE d = c
        BY <1>d, <2>1, <2>3, <3>1, <3>5, <4>1 DEF ReferenceTaken, Live
      <4>2. CASE d # c
        BY <1>d, <2>1, <3>1, <3>5, <4>2 DEF IndexOK, ClaimsApart, Live
      <4> QED  BY <4>1, <4>2
    <3> QED  BY <3>2, <3>3, <3>4, <3>6 DEF IndexOK
  <2> QED  BY <1>2, <2>2, <2>3 DEF CashInsert
<1>3. CASE CashCommit(c)
  <2> DEFINE row == [status |-> "succeeded", inv |-> txn[c].inv, ref |-> txn[c].ref]
  <2>1. pc[c] = "inserted" /\ pc'[c] = "settled" /\ payment' = [payment EXCEPT ![c] = row]
    BY <1>3, <1>r, ContinueAt DEF CashCommit
  <2>2. payment'[c] = row /\ \A q \in Payments \ {c} : payment'[q] = payment[q]
    <3> HIDE DEF row
    <3> QED  BY <1>r, <2>1 DEF TablesOK
  <2>3. \A q \in Payments \ {c} : RowKept(q)
    BY <2>2 DEF RowKept, Live
  <2>4. FailsFree(c)
    BY <2>2 DEF FailsFree, Live
  <2>5. RefAlone(c)
    BY <1>d, <2>1, <2>2 DEF RefAlone, IndexOK, ClaimsApart, Inserting, Live
  <2>6. InsertersKept
    BY <1>d, <2>1 DEF InsertersKept, Inserting
  <2> QED  BY <1>r, <1>own, <1>h, <2>3, <2>4, <2>5, <2>6, IndexKept
<1>4. CASE CashSupersede(c)
  <2>1. pc'[c] = "done" /\ \A p \in txn[c].listed : PaymentFree(p)
    BY <1>4, <1>r, AnswerAt DEF CashSupersede
  <2>2. \A q \in Payments :
          /\ q \notin txn[c].listed => payment'[q] = payment[q]
          /\ q \in txn[c].listed => payment'[q] = [payment[q] EXCEPT !.status = "failed"]
    BY <1>4 DEF CashSupersede
  <2>3. \A q \in Payments : payment[q] \in PaymentRow
    BY DEF TablesOK
  <2>4. \A q \in Payments : RowKept(q)
    BY <2>2, <2>3 DEF RowKept, Live, PaymentRow
  <2>5. FailsFree(c)
    BY <2>1, <2>2, RequestsAssumption DEF FailsFree, Live, PaymentFree, Payments
  <2>6. InsertersKept
    BY <1>d, <2>1 DEF InsertersKept, Inserting
  <2> QED  BY <1>r, <1>own, <1>h, <2>4, <2>5, <2>6, IndexKept
<1> QED  BY <1>1, <1>2, <1>3, <1>4 DEF CashStep

(* Every step keeps the index and its locks.                               *)
LEMMA StepIndex ==
  ASSUME Typed, IndexOK, [Next]_vars
  PROVE  IndexOK'
<1> TypeOK /\ ControlOK
  BY TypeSplit DEF Typed
<1>1. CASE \E s \in Submissions : SubmissionStep(s)
  BY <1>1, SubmissionIndex
<1>2. CASE \E a \in Approvals : ApprovalStep(a)
  BY <1>2, ApprovalIndex
<1>3. CASE \E r \in Rejections \cup InfoRequests : ReviewStep(r)
  BY <1>3, ReviewIndex
<1>4. CASE \E c \in CashEntries : CashStep(c)
  BY <1>4, CashIndex
<1>5. ASSUME NEW n \in Issuers, IssueStep(n)
      PROVE  IndexOK'
  <2>1. n \in Requests
    BY DEF Requests
  <2>2. pc'[n] \in {"loaded", "done"} /\ UNCHANGED payment
    BY <1>5, <2>1, ContinueAt, AnswerAt DEF IssueStep, IssueCheck, IssueCommit, tables
  <2> QED  BY <1>5, <2>1, <2>2, StepOwn, IndexQuiet
<1>6. ASSUME NEW r \in Unreliable, Abort(r)
      PROVE  IndexOK'
  <2>1. r \in Requests
    BY RequestsAssumption DEF Requests, Payments
  <2>2. pc'[r] = "done" /\ UNCHANGED payment
    BY <1>6, <2>1, AnswerAt DEF Abort, tables
  <2> QED  BY <1>6, <2>1, <2>2, StepOwn, IndexQuiet
<1>7. CASE Tick \/ UNCHANGED vars
  <2>1. UNCHANGED <<payment, pc, txn>>
    BY <1>7 DEF Tick, tables, vars
  <2> QED  BY <2>1 DEF IndexOK, LiveReferencesUnique, OneHolder, HoldsPayment, HeldIsLive,
                       ClaimsApart, Inserting, Live
<1> QED  BY <1>1, <1>2, <1>3, <1>4, <1>5, <1>6, <1>7, NextSplit

(* However submissions, questions and cash entries claim, release and      *)
(* take over references, no two live payments have one.                    *)
THEOREM LiveReferencesAlwaysUnique == Spec => []LiveReferencesUnique
<1>1. Init => Typed /\ IndexOK
  <2> SUFFICES ASSUME Init PROVE IndexOK
    BY InitTyped
  <2>1. /\ \A p \in Payments : ~Live(p)
        /\ \A r \in Requests : pc[r] = "new"
    BY DEF Init, Live, NoPaymentRow
  <2> QED  BY <2>1 DEF IndexOK, LiveReferencesUnique, OneHolder, HoldsPayment, HeldIsLive,
                       ClaimsApart, Inserting, Requests, Payments
<1>2. Typed /\ IndexOK /\ [Next]_vars => (Typed /\ IndexOK)'
  BY StepTyped, StepIndex
<1>3. IndexOK => LiveReferencesUnique
  BY DEF IndexOK
<1> QED  BY <1>1, <1>2, <1>3, PTL DEF Spec

-----------------------------------------------------------------------------
(* Renewals add a whole period.                                            *)

(* An invoice has been issued, a payment has been inserted.                *)
Issued(i) == invoice[i].status # "none"
Inserted(p) == p \in Payments => payment[p].status # "none"

(* What a session holds is still right when it is used: its rows exist, an *)
(* issuer's house has no open invoice, an approval of an open invoice has  *)
(* seen the subscription as it is, and has added a period to a paid one.   *)
SessionCurrent(r) ==
  /\ InFlight(r) => Inserted(txn[r].pay) /\ Inserted(txn[r].old)
  /\ InFlight(r) /\ r \in Submissions \cup Approvals => Issued(txn[r].inv)
  /\ pc[r] = "loaded" /\ r \in Issuers => ~HasOpenInvoice(Owner[txn[r].inv])
  /\ InFlight(r) /\ r \in Approvals /\ invoice[txn[r].inv].status = "issued"
       => txn[r].seen = sub[Owner[txn[r].inv]]
  /\ pc[r] = "ready" /\ r \in Approvals /\ OtherPaid(txn[r].inv)
       => txn[r].end >= sub[Owner[txn[r].inv]].end + Interval

(* With one issuer a house has one open invoice at a time, so that its     *)
(* subscription is not changed while that one is under review.             *)
Renewable ==
  /\ \A i, j \in Invoices :
       invoice[i].status = "issued" /\ invoice[j].status = "issued" /\ Owner[i] = Owner[j] => i = j
  /\ \A p \in Payments : payment[p].status # "none" => Issued(payment[p].inv)
  /\ \A r \in Requests : SessionCurrent(r)

(* Payments are not taken back, and new ones are for issued invoices.      *)
RowsGrow ==
  \A p \in Payments :
    /\ payment[p].status # "none" => payment'[p].status # "none"
    /\ payment'[p].status # "none" =>
         \/ payment[p].status # "none" /\ payment'[p].inv = payment[p].inv
         \/ Issued(payment'[p].inv)

(* A request that has ended holds nothing.                                 *)
LEMMA EndedCurrent ==
  ASSUME NEW r, pc'[r] = "done"
  PROVE  SessionCurrent(r)'
BY DEF SessionCurrent, InFlight

(* A step that leaves invoices and subscriptions alone has to keep the     *)
(* request's own session current.                                          *)
LEMMA RenewQuiet ==
  ASSUME Typed, Renewable, NEW r \in Requests, Own(r), UNCHANGED <<invoice, sub>>,
         RowsGrow, SessionCurrent(r)'
  PROVE  Renewable'
<1>1. \A p \in Payments : payment'[p].status # "none" => Issued(payment[p].inv)'
  BY DEF Renewable, RowsGrow, Issued
<1>2. ASSUME NEW o \in Requests
      PROVE  SessionCurrent(o)'
  <2>1. CASE o = r
    BY <2>1
  <2>2. CASE o # r
    <3>1. pc'[o] = pc[o] /\ txn'[o] = txn[o] /\ SessionCurrent(o)
      BY <2>2 DEF Own, Renewable
    <3>2. \A p : Inserted(p) => Inserted(p)'
      BY DEF Inserted, RowsGrow
    <3> QED  BY <3>1, <3>2
             DEF SessionCurrent, InFlight, Issued, Inserted, HasOpenInvoice, OtherPaid
  <2> QED  BY <2>1, <2>2
<1> QED  BY <1>1, <1>2 DEF Renewable, Issued

(* Submissions are for issued invoices.                                    *)
LEMMA SubmissionRenew ==
  ASSUME Typed, Renewable, NEW s \in Submissions, SubmissionStep(s)
  PROVE  Renewable'
<1> TypeOK /\ ControlOK /\ TablesOK
  BY TypeSplit DEF Typed
<1>r. s \in Requests /\ s \in Payments /\ s \notin Approvals /\ s \notin Issuers
  BY RequestsAssumption DEF Requests, Payments
<1>own. Own(s)
  BY <1>r, StepOwn
<1>b. UNCHANGED <<invoice, sub>>
  BY DEF SubmissionStep, SubmitLoad, SubmitCheckReference, SubmitCommit, tables
<1>c. SessionCurrent(s)
  BY <1>r DEF Renewable
<1>1. CASE \E i \in Invoices, ref \in AnyRef : SubmitLoad(s, i, ref)
  <2>1. PICK i \in Invoices, ref \in AnyRef : SubmitLoad(s, i, ref)
    BY <1>1
  <2>2. PICK old \in PaymentsOf(i, "needs_info") \cup {NoPayment} :
          Continue(s, "loaded", [Blank EXCEPT !.inv = i, !.ref = ref, !.old = old])
    BY <2>1 DEF SubmitLoad
  <2>c. pc'[s] = "loaded" /\ txn'[s] = [Blank EXCEPT !.inv = i, !.ref = ref, !.old = old]
    BY <1>r, <2>2, ContinueAt
  <2>3. txn'[s].inv = i /\ txn'[s].old = old /\ txn'[s].pay = NoPayment
    BY <2>c DEF Blank
  <2>4. RowsGrow
    BY <2>1 DEF SubmitLoad, tables, RowsGrow
  <2>5. old = NoPayment \/ payment[old].status = "needs_info"
    BY DEF PaymentsOf
  <2>6. SessionCurrent(s)'
    BY <1>r, <1>b, <2>1, <2>c, <2>3, <2>5, RequestsAssumption
    DEF SessionCurrent, Issued, Inserted, SubmitLoad, tables, Payments
  <2> QED  BY <1>r, <1>own, <1>b, <2>4, <2>6, RenewQuiet
<1>2. CASE SubmitCheckReference(s)
  <2>1. RowsGrow
    BY <1>2 DEF SubmitCheckReference, tables, RowsGrow
  <2>2. pc'[s] = "done" \/ (txn'[s] = txn[s] /\ pc'[s] = "claimed")
    BY <1>2, <1>r, AnswerAt, ContinueAt DEF SubmitCheckReference
  <2>3. SessionCurrent(s)'
    BY <1>2, <1>r, <1>b, <1>c, <2>2, EndedCurrent
    DEF SessionCurrent, Issued, Inserted, SubmitCheckReference, tables, InFlight
  <2> QED  BY <1>r, <1>own, <1>b, <2>1, <2>3, RenewQuiet
<1>3. CASE SubmitCommit(s)
  <2> DEFINE t == txn[s]
             closed == IF t.old = NoPayment THEN payment
                       ELSE [payment EXCEPT ![t.old].status = "failed"]
             row == [status |-> "pending", inv |-> t.inv, ref |-> t.ref]
  <2>1. pc'[s] = "done"
    BY <1>3, <1>r, AnswerAt DEF SubmitCommit
  <2>2. Issued(t.inv) /\ Inserted(t.old)
    BY <1>3, <1>c DEF SessionCurrent, InFlight, SubmitCommit
  <2>3. RowsGrow
    <3>1. CASE UNCHANGED payment
      BY <3>1 DEF RowsGrow
    <3>2. CASE payment' = [closed EXCEPT ![s] = row]
      <4>1. \A q \in Payments : /\ q # t.old => closed[q] = payment[q]
                                /\ closed[q].inv = payment[q].inv
                                /\ q = t.old /\ q # NoPayment => closed[q].status = "failed"
        BY DEF TablesOK, PaymentRow
      <4>2. payment'[s] = row /\ \A q \in Payments \ {s} : payment'[q] = closed[q]
        <5>1. DOMAIN closed = Payments
          BY DEF TablesOK
        <5> HIDE DEF closed, row
        <5> QED  BY <1>r, <3>2, <5>1
      <4>3. NoPayment \notin Payments
        BY RequestsAssumption DEF Payments
      <4> HIDE DEF closed
      <4> QED  BY <2>2, <4>1, <4>2, <4>3 DEF RowsGrow, Inserted
    <3> QED  BY <1>3, <3>1, <3>2 DEF SubmitCommit
  <2> QED  BY <1>r, <1>own, <1>b, <2>1, <2>3, EndedCurrent, RenewQuiet
<1> QED  BY <1>1, <1>2, <1>3 DEF SubmissionStep

(* A rejection or a question is about a payment that exists.               *)
LEMMA ReviewRenew ==
  ASSUME Typed, Renewable, NEW r \in Rejections \cup InfoRequests, ReviewStep(r)
  PROVE  Renewable'
<1> TypeOK /\ ControlOK /\ TablesOK
  BY TypeSplit DEF Typed
<1>r. r \in Requests /\ r \notin Approvals /\ r \notin Submissions /\ r \notin Issuers
  BY RequestsAssumption DEF Requests
<1>own. Own(r)
  BY <1>r, StepOwn
<1>b. UNCHANGED <<invoice, sub>>
  BY DEF ReviewStep, ReviewLoad, RejectCommit, RequestInfoCommit, tables
<1>1. CASE \E p \in Payments : ReviewLoad(r, p)
  <2>1. PICK p \in Payments : ReviewLoad(r, p)
    BY <1>1
  <2>2. pc'[r] = "loaded" /\ txn'[r].pay = p /\ txn'[r].old = NoPayment
    BY <1>r, <2>1, ContinueAt DEF ReviewLoad, Blank
  <2>3. RowsGrow
    BY <2>1 DEF ReviewLoad, tables, RowsGrow
  <2>4. SessionCurrent(r)'
    BY <1>r, <2>1, <2>2, RequestsAssumption
    DEF SessionCurrent, Inserted, ReviewLoad, tables, Payments
  <2> QED  BY <1>r, <1>own, <1>b, <2>3, <2>4, RenewQuiet
<1>2. CASE RejectCommit(r) \/ RequestInfoCommit(r)
  <2>1. pc'[r] = "done" /\ Inserted(txn[r].pay)
    BY <1>2, <1>r, AnswerAt
    DEF RejectCommit, RequestInfoCommit, Renewable, SessionCurrent, InFlight
  <2>2. PICK p : p = txn[r].pay
    OBVIOUS
  <2>4. \/ UNCHANGED payment
        \/ \E st \in {"failed", "needs_info"} : payment' = [payment EXCEPT ![p].status = st]
    BY <1>2, <2>2 DEF RejectCommit, RequestInfoCommit
  <2>3. RowsGrow
    <3>1. CASE UNCHANGED payment
      BY <3>1 DEF RowsGrow
    <3>2. ASSUME NEW st \in {"failed", "needs_info"},
                 payment' = [payment EXCEPT ![p].status = st]
          PROVE  RowsGrow
      <4>1. /\ \A q \in Payments : payment'[q].inv = payment[q].inv
            /\ \A q \in Payments \ {p} : payment'[q] = payment[q]
            /\ p \in Payments => payment'[p].status = st
        BY <3>2, StatusRow DEF TablesOK
      <4> QED  BY <2>1, <2>2, <4>1 DEF RowsGrow, Inserted
    <3> QED  BY <2>4, <3>1, <3>2
  <2> QED  BY <1>r, <1>own, <1>b, <2>1, <2>3, EndedCurrent, RenewQuiet
<1> QED  BY <1>1, <1>2 DEF ReviewStep

(* An approval computes the period from the subscription as it is.         *)
LEMMA PeriodAdded ==
  ASSUME NEW i, NEW seen \in SubRow, now \in Nat, OtherPaid(i)
  PROVE  PaidPeriodEnd(i, seen) >= seen.end + Interval
BY ConstantsAssumption DEF PaidPeriodEnd, SubRow

(* An approval that commits pays the open invoice of its house; others     *)
(* under review are of other houses.                                       *)
LEMMA CommitRenew ==
  ASSUME Typed, Serial, Renewable, NEW a \in Approvals, ApproveCommit(a)
  PROVE  Renewable'
<1> TypeOK /\ ControlOK /\ TablesOK
  BY TypeSplit DEF Typed
<1>r. a \in Requests /\ txn[a] \in Session
  BY DEF Requests, ControlOK
<1>own. Own(a)
  BY <1>r, StepOwn DEF ApprovalStep
<1>i. PICK i \in Invoices : i = txn[a].inv
  BY <1>r DEF Session
<1>p. PICK p \in Payments : p = txn[a].pay
  BY DEF Typed, ApprovalHasTarget, InFlight, ApproveCommit
<1>1. pc[a] = "ready" /\ pc'[a] = "done"
  BY <1>r, AnswerAt DEF ApproveCommit
<1>2. invoice[i].status = "issued"
  BY <1>r, <1>i, <1>1 DEF Serial, Renewable, SessionCurrent, InFlight, Issued, TablesOK, InvoiceRow
<1>3. /\ invoice'[i].status = "paid"
      /\ \A j \in Invoices \ {i} : invoice'[j] = invoice[j]
      /\ \A h \in Houses \ {Owner[i]} : sub'[h] = sub[h]
  BY <1>i DEF ApproveCommit, MarkInvoicePaid, TablesOK
<1>4. /\ \A q \in Payments : payment'[q].inv = payment[q].inv
      /\ \A q \in Payments \ {p} : payment'[q] = payment[q]
      /\ payment'[p].status = "succeeded"
  BY <1>p, StatusRow DEF ApproveCommit, TablesOK
<1>5. \A j, k \in Invoices :
        invoice'[j].status = "issued" /\ invoice'[k].status = "issued" /\ Owner[j] = Owner[k]
          => j = k
  BY <1>3 DEF Renewable
<1>6. \A q \in Payments : payment'[q].status # "none" => Issued(payment[q].inv)'
  <2>1. Inserted(p)
    BY <1>r, <1>p, <1>1 DEF Renewable, SessionCurrent, InFlight
  <2>2. \A q \in Payments : payment[q].inv \in Invoices
    BY DEF TablesOK, PaymentRow
  <2> QED  BY <1>3, <1>4, <2>1, <2>2 DEF Renewable, Issued, Inserted
<1>7. ASSUME NEW o \in Requests, o # a
      PROVE  SessionCurrent(o)'
  <2>1. pc'[o] = pc[o] /\ txn'[o] = txn[o] /\ SessionCurrent(o) /\ txn[o].inv \in Invoices
    BY <1>7, <1>own DEF Own, Renewable, ControlOK, Session
  <2>2. PICK j \in Invoices : j = txn[o].inv
    BY <2>1
  <2>3. InFlight(o) => (Inserted(txn[o].pay) /\ Inserted(txn[o].old))'
    BY <1>4, <2>1 DEF SessionCurrent, Inserted
  <2>4. InFlight(o) /\ o \in Submissions \cup Approvals => Issued(txn[o].inv)'
    BY <1>3, <2>1 DEF SessionCurrent, Issued
  <2>5. pc[o] = "loaded" /\ o \in Issuers => ~HasOpenInvoice(Owner[txn[o].inv])'
    BY <1>3, <2>1 DEF SessionCurrent, HasOpenInvoice
  <2>6. invoice'[j].status = "issued" => invoice[j].status = "issued" /\ Owner[j] # Owner[i]
    BY <1>2, <1>3 DEF Renewable
  <2>7. InFlight(o) /\ o \in Approvals /\ invoice'[j].status = "issued"
          => txn[o].seen = sub'[Owner[j]]
    BY <1>3, <2>1, <2>2, <2>6, ConstantsAssumption DEF SessionCurrent
  <2>8. ASSUME pc[o] = "ready", o \in Approvals
        PROVE  OtherPaid(txn[o].inv)' => txn[o].end >= sub'[Owner[j]].end + Interval
    <3>1. invoice[j].status # "paid" /\ j # i
      BY <1>i, <1>1, <1>7, <2>2, <2>8 DEF Serial
    <3>2. invoice'[j].status = "issued"
      BY <1>3, <2>1, <2>2, <2>8, <3>1
      DEF SessionCurrent, InFlight, Issued, TablesOK, InvoiceRow
    <3>3. Owner[j] # Owner[i]
      BY <2>6, <3>2
    <3>4. OtherPaid(j)' => OtherPaid(j)
      BY <1>3, <3>3 DEF OtherPaid
    <3> QED  BY <1>3, <2>1, <2>2, <2>8, <3>3, <3>4, ConstantsAssumption
             DEF SessionCurrent, OtherPaid
  <2> QED  BY <2>1, <2>2, <2>3, <2>4, <2>5, <2>7, <2>8
           DEF SessionCurrent, InFlight, Issued, Inserted, HasOpenInvoice, OtherPaid
<1> QED  BY <1>1, <1>5, <1>6, <1>7, EndedCurrent DEF Renewable

(* An approval loads and refreshes what the books say.                     *)
LEMMA ApprovalRenew ==
  ASSUME Typed, Serial, Renewable, NEW a \in Approvals, ApprovalStep(a)
  PROVE  Renewable'
<1> TypeOK /\ ControlOK /\ TablesOK
  BY TypeSplit DEF Typed
<1>r. a \in Requests /\ txn[a] \in Session /\ a \notin Issuers
  BY RequestsAssumption DEF Requests, ControlOK
<1>own. Own(a)
  BY <1>r, StepOwn
<1>c. SessionCurrent(a)
  BY <1>r DEF Renewable
<1>s. \A i \in Invoices : sub[Owner[i]] \in SubRow
  BY ConstantsAssumption DEF TablesOK
<1>1. CASE \E p \in Payments : ApproveLoad(a, p)
  <2>1. PICK p \in Payments : ApproveLoad(a, p)
    BY <1>1
  <2>2. PICK i \in Invoices : i = payment[p].inv
    BY DEF TablesOK, PaymentRow
  <2>3. pc'[a] = "loaded"
        /\ txn'[a] = [Blank EXCEPT !.pay = p, !.inv = i, !.seen = sub[Owner[i]]]
    BY <1>r, <2>1, <2>2, ContinueAt DEF ApproveLoad
  <2>4. /\ txn'[a].pay = p /\ txn'[a].old = NoPayment
        /\ txn'[a].inv = i /\ txn'[a].seen = sub[Owner[i]]
    BY <2>3 DEF Blank
  <2>5. payment[p].status # "none" /\ UNCHANGED <<invoice, sub, payment>>
    BY <2>1 DEF ApproveLoad, tables
  <2>6. Issued(i)
    BY <2>2, <2>5 DEF Renewable
  <2>7. SessionCurrent(a)'
    BY <1>r, <2>3, <2>4, <2>5, <2>6, RequestsAssumption
    DEF SessionCurrent, Issued, Inserted, Payments
  <2>8. RowsGrow
    BY <2>5 DEF RowsGrow
  <2> QED  BY <1>r, <1>own, <2>5, <2>7, <2>8, RenewQuiet
<1>2. CASE ApproveLockPayment(a)
  <2>1. pc[a] = "loaded" /\ UNCHANGED <<invoice, sub, payment>>
    BY <1>2 DEF ApproveLockPayment, tables
  <2>2. pc'[a] = "done" \/ (pc'[a] = "locked" /\ txn'[a] = txn[a])
    BY <1>2, <1>r, AnswerAt, ContinueAt DEF ApproveLockPayment
  <2>3. SessionCurrent(a)'
    <3>1. CASE pc'[a] = "done"
      BY <3>1, EndedCurrent
    <3>2. CASE pc'[a] = "locked" /\ txn'[a] = txn[a]
      BY <1>r, <1>c, <2>1, <3>2 DEF SessionCurrent, InFlight, Issued, Inserted
    <3> QED  BY <2>2, <3>1, <3>2
  <2>4. RowsGrow
    BY <2>1 DEF RowsGrow
  <2> QED  BY <1>r, <1>own, <2>1, <2>3, <2>4, RenewQuiet
<1>3. CASE ApproveLockInvoice(a)
  <2>1. pc[a] = "locked" /\ UNCHANGED <<invoice, sub>>
    BY <1>3 DEF ApproveLockInvoice
  <2>2. PICK i \in Invoices : i = txn[a].inv
    BY <1>r DEF Session
  <2>3. PICK p \in Payments : p = txn[a].pay
    BY <2>1 DEF Typed, ApprovalHasTarget, InFlight
  <2>4. Inserted(p) /\ Inserted(txn[a].old) /\ Issued(i)
    BY <1>c, <2>1, <2>2, <2>3 DEF SessionCurrent, InFlight
  <2>5. CASE payment' = [payment EXCEPT ![p].status = "failed"] /\ Answer(a, "refused")
    <3>1. /\ \A q \in Payments : payment'[q].inv = payment[q].inv
          /\ \A q \in Payments \ {p} : payment'[q] = payment[q]
          /\ payment'[p].status = "failed"
      BY <2>5, StatusRow DEF TablesOK
    <3>2. RowsGrow
      BY <2>4, <3>1 DEF RowsGrow, Inserted
    <3> QED  BY <1>r, <1>own, <2>1, <2>5, <3>2, AnswerAt, EndedCurrent, RenewQuiet
  <2>6. CASE UNCHANGED payment /\ Answer(a, "refused")
    <3>1. RowsGrow
      BY <2>6 DEF RowsGrow
    <3> QED  BY <1>r, <1>own, <2>1, <2>6, <3>1, AnswerAt, EndedCurrent, RenewQuiet
  <2>7. ASSUME invoice[i].status # "paid", UNCHANGED payment, NEW seen \in Snapshots(a),
               Continue(a, "ready", [txn[a] EXCEPT !.end = PaidPeriodEnd(i, seen)])
        PROVE  Renewable'
    <3> DEFINE end == PaidPeriodEnd(i, seen)
    <3>1. invoice[i].status = "issued"
      BY <2>4, <2>7 DEF Issued, TablesOK, InvoiceRow
    <3>2. seen = sub[Owner[i]] /\ txn[a].seen = sub[Owner[i]]
      BY <1>r, <1>c, <2>1, <2>2, <2>7, <3>1 DEF SessionCurrent, InFlight, Snapshots
    <3>3. OtherPaid(i) => end >= sub[Owner[i]].end + Interval
      BY <1>s, <3>2, PeriodAdded DEF ControlOK
    <3>4. pc'[a] = "ready" /\ txn'[a] = [txn[a] EXCEPT !.end = end]
      BY <1>r, <2>7, ContinueAt
    <3> HIDE DEF end
    <3>5. /\ txn'[a].inv = i /\ txn'[a].pay = p /\ txn'[a].old = txn[a].old
          /\ txn'[a].seen = txn[a].seen /\ txn'[a].end = end
      BY <1>r, <2>2, <2>3, <3>4 DEF Session
    <3>6. SessionCurrent(a)'
      BY <1>r, <2>1, <2>4, <2>7, <3>2, <3>3, <3>4, <3>5
      DEF SessionCurrent, Issued, Inserted, OtherPaid
    <3>7. RowsGrow
      BY <2>7 DEF RowsGrow
    <3> QED  BY <1>r, <1>own, <2>1, <3>6, <3>7, RenewQuiet
  <2> QED  BY <1>3, <2>2, <2>3, <2>5, <2>6, <2>7 DEF ApproveLockInvoice
<1>4. CASE ApproveCommit(a)
  BY <1>4, CommitRenew
<1> QED  BY <1>1, <1>2, <1>3, <1>4 DEF ApprovalStep

(* The only issuer issues an invoice for a house that has none open.       *)
LEMMA IssueRenew ==
  ASSUME Typed, Renewable, NEW n \in Issuers, \A m \in Issuers : m = n, IssueStep(n)
  PROVE  Renewable'
<1> TypeOK /\ ControlOK /\ TablesOK
  BY TypeSplit DEF Typed
<1>r. n \in Requests /\ txn[n] \in Session /\ n \notin Approvals /\ n \notin Submissions
  BY RequestsAssumption DEF Requests, ControlOK
<1>own. Own(n)
  BY <1>r, StepOwn
<1>1. CASE \E i \in FirstOrders : IssueCheck(n, i)
  <2>1. PICK i \in FirstOrders : IssueCheck(n, i)
    BY <1>1
  <2>2. PICK end : Continue(n, "loaded", [Blank EXCEPT !.inv = i, !.end = end])
    BY <2>1 DEF IssueCheck
  <2>3. pc'[n] = "loaded" /\ txn'[n] = [Blank EXCEPT !.inv = i, !.end = end]
    BY <1>r, <2>2, ContinueAt
  <2>4. txn'[n].inv = i /\ txn'[n].pay = NoPayment /\ txn'[n].old = NoPayment
    BY <2>3 DEF Blank
  <2>5. ~HasOpenInvoice(Owner[i]) /\ UNCHANGED <<invoice, sub, payment>>
    BY <2>1 DEF IssueCheck, tables
  <2>6. SessionCurrent(n)'
    BY <1>r, <2>3, <2>4, <2>5, RequestsAssumption
    DEF SessionCurrent, HasOpenInvoice, Inserted, Payments
  <2>7. RowsGrow
    BY <2>5 DEF RowsGrow
  <2> QED  BY <1>r, <1>own, <2>5, <2>6, <2>7, RenewQuiet
<1>2. CASE \E i \in Invoices : IssueCommit(n, i)
  <2>1. PICK i \in Invoices : IssueCommit(n, i)
    BY <1>2
  <2>2. /\ pc[n] = "loaded" /\ pc'[n] = "done" /\ invoice[i].status = "none"
        /\ Owner[i] = Owner[txn[n].inv] /\ UNCHANGED <<sub, payment>>
    BY <1>r, <2>1, AnswerAt DEF IssueCommit
  <2>3. ~HasOpenInvoice(Owner[i])
    BY <1>r, <2>2 DEF Renewable, SessionCurrent
  <2>4. /\ invoice'[i].status = "issued"
        /\ \A j \in Invoices \ {i} : invoice'[j] = invoice[j]
    BY <2>1 DEF IssueCommit, TablesOK
  <2>5. \A j, k \in Invoices :
          invoice'[j].status = "issued" /\ invoice'[k].status = "issued" /\ Owner[j] = Owner[k]
            => j = k
    BY <2>3, <2>4 DEF Renewable, HasOpenInvoice
  <2>6. \A q \in Payments : payment'[q].status # "none" => Issued(payment[q].inv)'
    <3>1. \A q \in Payments : payment[q].inv \in Invoices
      BY DEF TablesOK, PaymentRow
    <3> QED  BY <2>2, <2>4, <3>1 DEF Renewable, Issued
  <2>7. ASSUME NEW o \in Requests, o # n
        PROVE  SessionCurrent(o)'
    <3>1. pc'[o] = pc[o] /\ txn'[o] = txn[o] /\ SessionCurrent(o) /\ o \notin Issuers
      BY <1>own, <2>7 DEF Own, Renewable
    <3>2. PICK j \in Invoices : j = txn[o].inv
      BY DEF ControlOK, Session
    <3>3. j # i => invoice'[j] = invoice[j]
      BY <2>4
    <3>4. InFlight(o) /\ o \in Submissions \cup Approvals => j # i
      BY <2>2, <3>1, <3>2 DEF SessionCurrent, Issued
    <3>5. OtherPaid(j)' => OtherPaid(j)
      BY <2>4 DEF OtherPaid
    <3> QED  BY <2>2, <3>1, <3>2, <3>3, <3>4, <3>5
             DEF SessionCurrent, InFlight, Issued, Inserted, OtherPaid
  <2> QED  BY <2>2, <2>5, <2>6, <2>7, EndedCurrent DEF Renewable
<1> QED  BY <1>1, <1>2 DEF IssueStep

(* Every step keeps what renewals rest on.                                 *)
LEMMA StepRenew ==
  ASSUME CashEntries = {}, \A m, n \in Issuers : m = n,
         Typed, Serial, Renewable, [Next]_vars
  PROVE  Renewable'
<1> TypeOK /\ ControlOK
  BY TypeSplit DEF Typed
<1>1. CASE \E s \in Submissions : SubmissionStep(s)
  BY <1>1, SubmissionRenew
<1>2. CASE \E a \in Approvals : ApprovalStep(a)
  BY <1>2, ApprovalRenew
<1>3. CASE \E r \in Rejections \cup InfoRequests : ReviewStep(r)
  BY <1>3, ReviewRenew
<1>4. CASE \E n \in Issuers : IssueStep(n)
  BY <1>4, IssueRenew
<1>5. ASSUME NEW r \in Unreliable, Abort(r)
      PROVE  Renewable'
  <2>1. r \in Requests
    BY RequestsAssumption DEF Requests, Payments
  <2>2. pc'[r] = "done" /\ UNCHANGED <<invoice, sub, payment>>
    BY <1>5, <2>1, AnswerAt DEF Abort, tables
  <2>3. RowsGrow
    BY <2>2 DEF RowsGrow
  <2> QED  BY <1>5, <2>1, <2>2, <2>3, StepOwn, EndedCurrent, RenewQuiet
<1>6. CASE Tick \/ UNCHANGED vars
  <2>1. UNCHANGED <<invoice, sub, payment, pc, txn>>
    BY <1>6 DEF Tick, tables, vars
  <2> QED  BY <2>1 DEF Renewable, SessionCurrent, InFlight, Issued, Inserted, HasOpenInvoice,
                       OtherPaid
<1> QED  BY <1>1, <1>2, <1>3, <1>4, <1>5, <1>6, NextSplit

(* At first a house has one open invoice, and no session is open.          *)
LEMMA InitRenew ==
  ASSUME Init
  PROVE  Renewable
<1>1. ASSUME NEW i \in Invoices, NEW j \in Invoices,
             invoice[i].status = "issued", invoice[j].status = "issued", Owner[i] = Owner[j]
      PROVE  i = j
  <2>1. i \in FirstOrders /\ j \in FirstOrders
    BY <1>1 DEF Init
  <2>2. i <= j /\ j <= i /\ i \in Nat /\ j \in Nat
    BY <1>1, <2>1, ConstantsAssumption DEF FirstOrders
  <2> QED  BY <2>2
<1>2. \A p \in Payments : payment[p].status = "none"
  BY DEF Init, NoPaymentRow
<1>3. \A r \in Requests : pc[r] = "new"
  BY DEF Init
<1> QED  BY <1>1, <1>2, <1>3 DEF Renewable, SessionCurrent, InFlight

(* Without cash entries only an approval that commits changes the change   *)
(* log, and it writes the period it has computed.                          *)
LEMMA PayingStep ==
  ASSUME CashEntries = {}, Typed, [Next]_vars, NEW i \in Invoices,
         activations'[i] # activations[i]
  PROVE  \E a \in Approvals :
           /\ pc[a] = "ready" /\ txn[a].inv = i
           /\ sub'[Owner[i]].end = txn[a].end
<1> TypeOK /\ ControlOK /\ TablesOK
  BY TypeSplit DEF Typed
<1>0. activations' # activations
  OBVIOUS
<1>1. CASE \E s \in Submissions : SubmissionStep(s)
  BY <1>0, <1>1, BystandersQuiet DEF Quiet, Requests, Payments
<1>2. ASSUME NEW a \in Approvals, ApprovalStep(a)
      PROVE  /\ pc[a] = "ready" /\ txn[a].inv = i
             /\ sub'[Owner[i]].end = txn[a].end
  <2>1. ApproveCommit(a)
    BY <1>0, <1>2
    DEF ApprovalStep, ApproveLoad, ApproveLockPayment, ApproveLockInvoice, tables
  <2>2. PICK j \in Invoices : j = txn[a].inv
    BY DEF ControlOK, Session, Requests
  <2>3. j = i
    BY <2>1, <2>2 DEF ApproveCommit, MarkInvoicePaid, TablesOK
  <2>4. sub'[Owner[i]] = [status |-> "active", end |-> txn[a].end]
    BY <2>1, <2>2, <2>3, ConstantsAssumption DEF ApproveCommit, MarkInvoicePaid, TablesOK
  <2> QED  BY <2>1, <2>2, <2>3, <2>4 DEF ApproveCommit
<1>3. CASE \E r \in Rejections \cup InfoRequests : ReviewStep(r)
  BY <1>0, <1>3, BystandersQuiet DEF Quiet, Requests
<1>4. CASE \E n \in Issuers : IssueStep(n)
  BY <1>0, <1>4, BystandersQuiet DEF Quiet, Requests
<1>5. CASE \E r \in Unreliable : Abort(r)
  BY <1>0, <1>5, BystandersQuiet, RequestsAssumption DEF Quiet, Requests, Payments
<1>6. CASE Tick \/ UNCHANGED vars
  BY <1>0, <1>6 DEF Tick, tables, vars
<1> QED  BY <1>1, <1>2, <1>3, <1>4, <1>5, <1>6, NextSplit

(* One issuer and no cash entries: an approved renewal adds a whole period *)
(* to what is left, however many submissions, reviews and approvals of any *)
(* number of houses go on at once.                                         *)
THEOREM RenewalsExtend ==
  ASSUME CashEntries = {}, \A m, n \in Issuers : m = n
  PROVE  Spec => RenewalExtends
<1>1. Init => Typed /\ Serial /\ Renewable
  BY InitTyped, InitSerial, InitRenew
<1>2. Typed /\ Serial /\ Renewable /\ [Next]_vars => (Typed /\ Serial /\ Renewable)'
  BY StepTyped, StepSerial, StepRenew
<1>3. Typed /\ Renewable /\ [Next]_vars =>
        [\A i \in Invoices :
           activations'[i] # activations[i] /\ OtherPaid(i)
             => sub'[Owner[i]].end >= sub[Owner[i]].end + Interval]_vars
  <2> SUFFICES ASSUME Typed, Renewable, [Next]_vars, NEW i \in Invoices,
                      activations'[i] # activations[i], OtherPaid(i)
               PROVE  sub'[Owner[i]].end >= sub[Owner[i]].end + Interval
    OBVIOUS
  <2>1. PICK a \in Approvals : /\ pc[a] = "ready" /\ txn[a].inv = i
                               /\ sub'[Owner[i]].end = txn[a].end
    BY PayingStep
  <2> QED  BY <2>1 DEF Renewable, SessionCurrent, Requests
<1> QED  BY <1>1, <1>2, <1>3, PTL DEF Spec, RenewalExtends
=============================================================================
