---------------------------- MODULE RefundsProofs ----------------------------
(***************************************************************************)
(* Proofs about Refunds, for any payments, rows and requests.              *)
(*                                                                         *)
(* The first part is about every behaviour: a payment is never understated *)
(* because a completion counts, under the lock of the payment, no less     *)
(* than what is completed when it commits.  The second is about the        *)
(* behaviours of OneAtATime, where the tables implement RefundLedger, and  *)
(* about the scene of MCRefunds that is one.                               *)
(***************************************************************************)
EXTENDS MCRefunds, SumTheorems

(* A request that has loaded its rows and is not answered yet              *)
Busy(q) == pc[q] \in {"loaded", "locked", "summed"}

(* A completion or rejection under way is about a refund that was          *)
(* recorded, of the payment it has read.                                   *)
NamesRefund ==
  \A q \in Completions \cup Rejections : Busy(q) =>
    /\ refund[txn[q].refund].status # "none"
    /\ refund[txn[q].refund].payment = txn[q].payment

(* Two completions that hold the row of one payment are the same.          *)
LockedAlone ==
  \A c, d \in Completions :
    /\ pc[c] \in {"locked", "summed"}
    /\ pc[d] \in {"locked", "summed"}
    /\ txn[c].payment = txn[d].payment
    => c = d

(* The completed refunds of a payment                                      *)
Done(p) == RefundsOf(p, {"succeeded"})

(* What a completion has counted is no less than what will be completed    *)
(* once it commits: others can only reject in between.                     *)
CountsEnough ==
  \A c \in Completions : pc[c] = "summed" =>
    SumOf(Done(txn[c].payment) \cup {txn[c].refund}) <= txn[c].amount

(* A refund that is asked for or recorded has an amount, within the        *)
(* payment.                                                                *)
AmountsWithin ==
  /\ \A k \in Creations : Busy(k) => txn[k].amount \in 1..Price
  /\ \A r \in RefundIds : refund[r].status # "none" => refund[r].amount \in 1..Price

(* The inductive invariant                                                 *)
RefundsInv ==
  /\ TypeOK
  /\ AmountsWithin
  /\ NamesRefund
  /\ LockedAlone
  /\ CountsEnough
  /\ NeverUnderstated

-----------------------------------------------------------------------------
(* An empty session is a session.                                          *)
LEMMA BlankTyped == Blank \in Session
BY RefundsAssumption DEF Blank, Session

(* The amounts of rows are natural numbers, and so are their sums.         *)
LEMMA AmountsTyped ==
  ASSUME refund \in [RefundIds -> RefundRow], NEW rows \in SUBSET RefundIds
  PROVE  /\ \A r \in RefundIds : Amounts[r] = refund[r].amount /\ Amounts[r] \in Nat
         /\ IsFiniteSet(rows)
         /\ SumOf(rows) \in Nat
<1>1. \A r \in RefundIds : Amounts[r] = refund[r].amount /\ Amounts[r] \in Nat
  BY RefundsAssumption DEF Amounts, RefundRow
<1>2. IsFiniteSet(rows)
  BY RefundsAssumption, FS_Subset
<1>3. \A r \in rows : Amounts[r] \in Nat
  BY <1>1
<1> QED BY <1>1, <1>2, <1>3, SumIsNat DEF SumOf

(* Rows whose amounts a step leaves as they are keep their sum.            *)
LEMMA SumKept ==
  ASSUME refund \in [RefundIds -> RefundRow], refund' \in [RefundIds -> RefundRow],
         NEW rows \in SUBSET RefundIds,
         \A r \in rows : refund'[r].amount = refund[r].amount
  PROVE  SumFunctionOnSet(Amounts', rows) = SumFunctionOnSet(Amounts, rows)
<1>1. \A r \in RefundIds : Amounts[r] = refund[r].amount /\ Amounts[r] \in Nat
  BY AmountsTyped
<1>2. \A r \in RefundIds : Amounts'[r] = refund'[r].amount
  BY DEF Amounts
<1>3. \A r \in rows : Amounts[r] = Amounts'[r] /\ Amounts[r] \in Int
  BY <1>1, <1>2
<1>4. IsFiniteSet(rows)
  BY RefundsAssumption, FS_Subset
<1> HIDE DEF Amounts
<1> QED BY <1>3, <1>4, SumsAgree

(* Fewer rows do not sum to more.                                          *)
LEMMA SumOfFewer ==
  ASSUME refund \in [RefundIds -> RefundRow],
         NEW rows \in SUBSET RefundIds, NEW fewer \in SUBSET rows
  PROVE  SumOf(fewer) <= SumOf(rows)
<1>1. IsFiniteSet(rows) /\ \A r \in rows : Amounts[r] \in Nat
  BY AmountsTyped
<1> QED BY <1>1, SumOfMore DEF SumOf

-----------------------------------------------------------------------------
(* What is returned is the sum of the completed refunds, before and after  *)
(* a step.                                                                 *)
LEMMA DoneSum ==
  ASSUME NEW p
  PROVE  /\ Returned(p) = SumFunctionOnSet(Amounts, Done(p))
         /\ Returned(p)' = SumFunctionOnSet(Amounts', Done(p)')
BY DEF Returned, Done, SumOf

(* What a request has read names a payment, a row and an amount.           *)
LEMMA SessionTyped ==
  ASSUME TypeOK, NEW q \in Requests
  PROVE  /\ txn[q] \in Session
         /\ txn[q].payment \in Payments /\ txn[q].refund \in RefundIds /\ txn[q].amount \in Nat
BY DEF TypeOK, Session

(* A request that is answered stays typed.                                 *)
LEMMA FinishTyped ==
  ASSUME TypeOK, NEW q \in Requests, Finish(q)
  PROVE  pc' \in [Requests -> Stages] /\ txn' \in [Requests -> Session]
BY BlankTyped DEF TypeOK, Finish, Continue, Stages

(* A request that goes on with a session stays typed.                      *)
LEMMA ContinueTyped ==
  ASSUME TypeOK, NEW q \in Requests, NEW stage \in Stages, NEW session \in Session,
         Continue(q, stage, session)
  PROVE  pc' \in [Requests -> Stages] /\ txn' \in [Requests -> Session]
BY DEF TypeOK, Continue

(* Requests that arrive keep the types and the bound of amounts.           *)
LEMMA ArriveTyped ==
  ASSUME TypeOK, AmountsWithin, Arrive
  PROVE  TypeOK' /\ AmountsWithin'
<1>1. ASSUME NEW k \in Creations, NEW p \in Payments, NEW amount \in 1..Price,
             CreateLoad(k, p, amount)
      PROVE  TypeOK' /\ AmountsWithin'
  <2> DEFINE session == [Blank EXCEPT !.payment = p, !.amount = amount]
  <2>1. session \in Session /\ session.amount = amount
    <3>1. amount \in Nat
      BY RefundsAssumption
    <3>2. Blank \in Session
      BY BlankTyped
    <3> QED BY <3>1, <3>2 DEF Session, Blank
  <2>2. Continue(k, "loaded", session) /\ UNCHANGED <<status, refund>>
    BY <1>1 DEF CreateLoad
  <2> HIDE DEF session
  <2>3. TypeOK'
    BY <2>1, <2>2, ContinueTyped DEF Requests, Stages, TypeOK
  <2>4. AmountsWithin'
    BY <2>1, <2>2 DEF AmountsWithin, Continue, Busy, TypeOK, Requests
  <2> QED BY <2>3, <2>4
<1>2. ASSUME NEW q \in Completions \cup Rejections, NEW r \in RefundIds, Load(q, r)
      PROVE  TypeOK' /\ AmountsWithin'
  <2> DEFINE session == [Blank EXCEPT !.payment = refund[r].payment, !.refund = r]
  <2>1. session \in Session
    BY BlankTyped DEF Session, TypeOK, RefundRow
  <2>2. Continue(q, "loaded", session) /\ UNCHANGED <<status, refund>>
    BY <1>2 DEF Load
  <2> HIDE DEF session
  <2>3. TypeOK'
    BY <2>1, <2>2, ContinueTyped DEF Requests, Stages, TypeOK
  <2>4. AmountsWithin'
    BY <2>2, RefundsAssumption DEF AmountsWithin, Continue, Busy, TypeOK, Requests
  <2> QED BY <2>3, <2>4
<1> QED BY <1>1, <1>2 DEF Arrive

(* Requests that go on keep the types and the bound of amounts.            *)
LEMMA AdvanceTyped ==
  ASSUME TypeOK, AmountsWithin, NamesRefund, NEW q \in Requests, Advance(q)
  PROVE  TypeOK' /\ AmountsWithin'
<1>1. CASE q \in Creations /\ CreateCommit(q)
  <2>1. PICK r \in RefundIds :
          refund' = [refund EXCEPT ![r] = [payment |-> txn[q].payment, amount |-> txn[q].amount,
                                           status |-> "processing"]]
    BY <1>1 DEF CreateCommit
  <2>2. txn[q].amount \in 1..Price /\ txn[q].payment \in Payments
    BY <1>1, SessionTyped DEF AmountsWithin, CreateCommit, Busy
  <2>3. refund' \in [RefundIds -> RefundRow]
    BY <2>1, <2>2 DEF TypeOK, RefundRow, RefundStatuses
  <2>4. TypeOK'
    BY <1>1, <2>3, FinishTyped DEF TypeOK, CreateCommit
  <2>5. \A s \in RefundIds : refund'[s].status # "none" => refund'[s].amount \in 1..Price
    BY <2>1, <2>2 DEF AmountsWithin, TypeOK
  <2>6. \A k \in Creations : Busy(k)' => txn'[k].amount \in 1..Price
    BY <1>1 DEF AmountsWithin, TypeOK, CreateCommit, Finish, Continue, Busy
  <2> QED BY <2>4, <2>5, <2>6 DEF AmountsWithin
<1>2. CASE q \in Completions /\ CompleteLock(q)
  <2>1. Continue(q, "locked", txn[q]) /\ UNCHANGED <<status, refund>>
    BY <1>2 DEF CompleteLock
  <2>2. TypeOK'
    BY <2>1, SessionTyped, ContinueTyped DEF Stages, TypeOK
  <2>3. AmountsWithin'
    BY <1>2, <2>1, RefundsAssumption DEF AmountsWithin, Continue, Busy, TypeOK, Requests
  <2> QED BY <2>2, <2>3
<1>3. CASE q \in Completions /\ CompleteSum(q)
  <2> DEFINE rows == RefundsOf(txn[q].payment, {"succeeded"}) \cup {txn[q].refund}
             session == [txn[q] EXCEPT !.amount = SumOf(rows)]
  <2>1. Continue(q, "summed", session) /\ UNCHANGED <<status, refund>>
    BY <1>3 DEF CompleteSum
  <2>2. session \in Session
    <3>1. rows \in SUBSET RefundIds
      BY SessionTyped DEF RefundsOf
    <3> HIDE DEF rows
    <3>2. SumOf(rows) \in Nat
      BY <3>1, AmountsTyped DEF TypeOK
    <3> QED BY <3>2, SessionTyped DEF Session
  <2> HIDE DEF session
  <2>3. TypeOK'
    BY <2>1, <2>2, ContinueTyped DEF Stages, TypeOK
  <2>4. AmountsWithin'
    BY <1>3, <2>1, RefundsAssumption DEF AmountsWithin, Continue, Busy, TypeOK, Requests
  <2> QED BY <2>3, <2>4
<1>4. CASE q \in Completions /\ CompleteCommit(q)
  <2> DEFINE p == txn[q].payment
             r == txn[q].refund
  <2>1. refund' = [refund EXCEPT ![r].status = "succeeded"] /\ Finish(q)
    BY <1>4 DEF CompleteCommit
  <2>2. refund' \in [RefundIds -> RefundRow]
    BY <2>1, SessionTyped DEF TypeOK, RefundRow, RefundStatuses
  <2>3. status' \in [Payments -> PaymentStatuses]
    BY <1>4 DEF TypeOK, CompleteCommit, PaymentStatuses
  <2>4. TypeOK'
    BY <2>1, <2>2, <2>3, FinishTyped DEF TypeOK
  <2>5. AmountsWithin'
    <3>1. refund[r].status # "none"
      BY <1>4 DEF NamesRefund, Busy, CompleteCommit
    <3>2. \A s \in RefundIds : refund'[s].status # "none" => refund'[s].amount \in 1..Price
      BY <2>1, <3>1, SessionTyped DEF AmountsWithin, TypeOK
    <3>3. \A k \in Creations : Busy(k)' => txn'[k].amount \in 1..Price
      BY <1>4, <2>1, RefundsAssumption DEF AmountsWithin, Finish, Continue, Busy, TypeOK, Requests
    <3> QED BY <3>2, <3>3 DEF AmountsWithin
  <2> QED BY <2>4, <2>5
<1>5. CASE q \in Rejections /\ RejectCommit(q)
  <2> DEFINE r == txn[q].refund
  <2>1. refund' = [refund EXCEPT ![r].status = "failed"] /\ Finish(q) /\ UNCHANGED status
    BY <1>5 DEF RejectCommit
  <2>2. refund' \in [RefundIds -> RefundRow]
    BY <2>1, SessionTyped DEF TypeOK, RefundRow, RefundStatuses
  <2>3. TypeOK'
    BY <2>1, <2>2, FinishTyped DEF TypeOK
  <2>4. AmountsWithin'
    <3>1. refund[r].status # "none"
      BY <1>5 DEF NamesRefund, Busy, RejectCommit
    <3>2. \A s \in RefundIds : refund'[s].status # "none" => refund'[s].amount \in 1..Price
      BY <2>1, <3>1, SessionTyped DEF AmountsWithin, TypeOK
    <3>3. \A k \in Creations : Busy(k)' => txn'[k].amount \in 1..Price
      BY <1>5, <2>1, RefundsAssumption DEF AmountsWithin, Finish, Continue, Busy, TypeOK, Requests
    <3> QED BY <3>2, <3>3 DEF AmountsWithin
  <2> QED BY <2>3, <2>4
<1> QED BY <1>1, <1>2, <1>3, <1>4, <1>5 DEF Advance

-----------------------------------------------------------------------------
(* Requests that arrive keep the invariant: they change no table and hold  *)
(* no lock.                                                                *)
LEMMA ArriveKeeps ==
  ASSUME RefundsInv, Arrive
  PROVE  NamesRefund' /\ LockedAlone' /\ CountsEnough' /\ NeverUnderstated'
<1>1. UNCHANGED <<status, refund>>
  BY DEF Arrive, CreateLoad, Load
<1>2. /\ \A c \in Completions : pc'[c] \in {"locked", "summed"} =>
           pc[c] = pc'[c] /\ txn'[c] = txn[c]
      /\ NamesRefund'
  <2>1. ASSUME NEW k \in Creations, NEW p \in Payments, NEW amount \in 1..Price,
               CreateLoad(k, p, amount)
        PROVE  <1>2!:
    BY <2>1, RefundsAssumption
    DEF CreateLoad, Continue, RefundsInv, TypeOK, Requests, NamesRefund, Busy
  <2>2. ASSUME NEW q \in Completions \cup Rejections, NEW r \in RefundIds, Load(q, r)
        PROVE  <1>2!:
    <3>1. /\ [Blank EXCEPT !.payment = refund[r].payment, !.refund = r].payment = refund[r].payment
          /\ [Blank EXCEPT !.payment = refund[r].payment, !.refund = r].refund = r
      BY DEF Blank
    <3> QED
      BY <2>2, <3>1 DEF Load, Continue, RefundsInv, TypeOK, Requests, NamesRefund, Busy
  <2> QED BY <2>1, <2>2 DEF Arrive
<1>3. LockedAlone'
  BY <1>2 DEF LockedAlone, RefundsInv
<1>4. CountsEnough'
  BY <1>1, <1>2 DEF CountsEnough, RefundsInv, SumOf, Amounts, Done, RefundsOf
<1>5. NeverUnderstated'
  BY <1>1 DEF NeverUnderstated, RefundsInv, Returned, SumOf, Amounts, RefundsOf
<1> QED BY <1>2, <1>3, <1>4, <1>5

(* A step that completes no refund and changes no status keeps what        *)
(* completions have counted, and understates nothing.                      *)
LEMMA NoMoreDone ==
  ASSUME RefundsInv, TypeOK', UNCHANGED status,
         \A p \in Payments : Done(p)' \subseteq Done(p),
         \A r \in RefundIds : refund[r].status # "none" => refund'[r].amount = refund[r].amount,
         \A c \in Completions : pc'[c] = pc[c] /\ txn'[c] = txn[c]
  PROVE  CountsEnough' /\ NeverUnderstated'
<1>1. ASSUME NEW p \in Payments, NEW extra \in SUBSET RefundIds,
             \A r \in extra : refund[r].status # "none"
      PROVE  /\ SumFunctionOnSet(Amounts', Done(p)' \cup extra) \in Nat
             /\ SumFunctionOnSet(Amounts, Done(p) \cup extra) \in Nat
             /\ SumFunctionOnSet(Amounts', Done(p)' \cup extra)
                  <= SumFunctionOnSet(Amounts, Done(p) \cup extra)
  <2> DEFINE now == Done(p) \cup extra
             then == Done(p)' \cup extra
  <2>1. now \in SUBSET RefundIds /\ then \in SUBSET now
    BY DEF Done, RefundsOf
  <2>2. \A r \in now : refund[r].status # "none"
    BY <1>1 DEF Done, RefundsOf
  <2> HIDE DEF now, then
  <2>3. SumFunctionOnSet(Amounts', then) = SumFunctionOnSet(Amounts, then)
    <3>1. \A r \in then : refund'[r].amount = refund[r].amount
      BY <2>1, <2>2
    <3>2. then \in SUBSET RefundIds
      BY <2>1
    <3> QED BY <3>1, <3>2, SumKept DEF RefundsInv, TypeOK
  <2>4. SumOf(then) <= SumOf(now)
    BY <2>1, SumOfFewer DEF RefundsInv, TypeOK
  <2>5. SumOf(then) \in Nat /\ SumOf(now) \in Nat
    BY <2>1, AmountsTyped DEF RefundsInv, TypeOK
  <2> QED BY <2>3, <2>4, <2>5 DEF SumOf, now, then
<1>2. CountsEnough'
  <2> SUFFICES ASSUME NEW c \in Completions, pc'[c] = "summed"
               PROVE  (SumOf(Done(txn[c].payment) \cup {txn[c].refund}) <= txn[c].amount)'
    BY DEF CountsEnough
  <2> DEFINE p == txn[c].payment
             r == txn[c].refund
  <2>1. p \in Payments /\ r \in RefundIds /\ txn[c].amount \in Nat /\ refund[r].status # "none"
    BY SessionTyped DEF RefundsInv, Requests, NamesRefund, Busy
  <2>2. SumOf(Done(p) \cup {r}) <= txn[c].amount
    BY DEF CountsEnough, RefundsInv
  <2>3. /\ SumFunctionOnSet(Amounts', Done(p)' \cup {r}) \in Nat
        /\ SumFunctionOnSet(Amounts, Done(p) \cup {r}) \in Nat
        /\ SumFunctionOnSet(Amounts', Done(p)' \cup {r})
             <= SumFunctionOnSet(Amounts, Done(p) \cup {r})
    BY <2>1, <1>1
  <2>4. SumFunctionOnSet(Amounts', Done(p)' \cup {r}) <= txn[c].amount
    BY <2>1, <2>2, <2>3 DEF SumOf
  <2>5. txn'[c] = txn[c]
    OBVIOUS
  <2> QED BY <2>4, <2>5 DEF SumOf, Done, RefundsOf
<1>3. NeverUnderstated'
  <2> SUFFICES ASSUME NEW p \in Payments
               PROVE  /\ Returned(p)' >= Price => status'[p] = "refunded"
                      /\ Returned(p)' > 0 => status'[p] # "succeeded"
    BY DEF NeverUnderstated
  <2>1. Done(p) \cup {} = Done(p) /\ Done(p)' \cup {} = Done(p)'
    OBVIOUS
  <2>2. Returned(p)' \in Nat /\ Returned(p) \in Nat /\ Returned(p)' <= Returned(p)
    BY <1>1, <2>1, DoneSum
  <2>3. /\ Returned(p) >= Price => status[p] = "refunded"
        /\ Returned(p) > 0 => status[p] # "succeeded"
    BY DEF RefundsInv, NeverUnderstated
  <2> QED BY <2>2, <2>3, RefundsAssumption
<1> QED BY <1>2, <1>3

(* Recording a refund keeps the invariant.                                 *)
LEMMA CreateKeeps ==
  ASSUME RefundsInv, TypeOK', NEW k \in Creations, CreateCommit(k)
  PROVE  NamesRefund' /\ LockedAlone' /\ CountsEnough' /\ NeverUnderstated'
<1>1. PICK r \in RefundIds :
        /\ refund[r].status = "none"
        /\ refund' = [refund EXCEPT ![r] = [payment |-> txn[k].payment, amount |-> txn[k].amount,
                                           status |-> "processing"]]
  BY DEF CreateCommit
<1>2. \A s \in RefundIds : refund[s].status # "none" => refund'[s] = refund[s]
  BY <1>1 DEF RefundsInv, TypeOK
<1>3. \A q \in Completions \cup Rejections : pc'[q] = pc[q] /\ txn'[q] = txn[q]
  BY RefundsAssumption DEF CreateCommit, Finish, Continue, RefundsInv, TypeOK, Requests
<1>4. \A q \in Completions \cup Rejections : txn[q].refund \in RefundIds
  BY SessionTyped DEF RefundsInv, Requests
<1>5. NamesRefund'
  BY <1>2, <1>3, <1>4 DEF NamesRefund, RefundsInv, Busy
<1>6. LockedAlone'
  BY <1>3 DEF LockedAlone, RefundsInv
<1>7. \A p \in Payments : Done(p)' \subseteq Done(p)
  BY <1>1 DEF Done, RefundsOf, RefundsInv, TypeOK
<1>8. CountsEnough' /\ NeverUnderstated'
  <2>1. UNCHANGED status
    BY DEF CreateCommit
  <2> QED BY <1>2, <1>3, <1>7, <2>1, NoMoreDone
<1> QED BY <1>5, <1>6, <1>8

(* Rejecting a refund keeps the invariant, also where it undoes a          *)
(* completed one.                                                          *)
LEMMA RejectKeeps ==
  ASSUME RefundsInv, TypeOK', NEW j \in Rejections, RejectCommit(j)
  PROVE  NamesRefund' /\ LockedAlone' /\ CountsEnough' /\ NeverUnderstated'
<1> DEFINE r == txn[j].refund
<1>1. refund' = [refund EXCEPT ![r].status = "failed"] /\ Finish(j) /\ UNCHANGED status
  BY DEF RejectCommit
<1>2. r \in RefundIds /\ refund \in [RefundIds -> RefundRow]
  BY SessionTyped DEF RefundsInv, Requests, TypeOK
<1> HIDE DEF r
<1>3. \A s \in RefundIds :
        /\ refund'[s].amount = refund[s].amount /\ refund'[s].payment = refund[s].payment
        /\ refund'[s].status = IF s = r THEN "failed" ELSE refund[s].status
  BY <1>1, <1>2 DEF RefundRow
<1>4. \A q \in Completions \cup Rejections :
        \/ q = j /\ pc'[q] = "done"
        \/ (pc'[q] = pc[q] /\ txn'[q] = txn[q])
  <2>1. pc' = [pc EXCEPT ![j] = "done"] /\ txn' = [txn EXCEPT ![j] = Blank]
    BY <1>1 DEF Finish, Continue
  <2>2. pc \in [Requests -> Stages] /\ txn \in [Requests -> Session]
    BY DEF RefundsInv, TypeOK
  <2> QED BY <2>1, <2>2 DEF Requests
<1>5. \A q \in Completions \cup Rejections : txn[q].refund \in RefundIds
  BY SessionTyped DEF RefundsInv, Requests
<1>6. NamesRefund'
  <2> SUFFICES ASSUME NEW q \in Completions \cup Rejections, Busy(q)'
               PROVE  /\ refund'[txn'[q].refund].status # "none"
                      /\ refund'[txn'[q].refund].payment = txn'[q].payment
    BY DEF NamesRefund
  <2>1. pc'[q] = pc[q] /\ txn'[q] = txn[q]
    BY <1>4 DEF Busy
  <2>2. refund[txn[q].refund].status # "none" /\ refund[txn[q].refund].payment = txn[q].payment
    BY <2>1 DEF NamesRefund, RefundsInv, Busy
  <2> QED BY <1>3, <1>5, <2>1, <2>2
<1>7. \A c \in Completions : pc'[c] = pc[c] /\ txn'[c] = txn[c]
  BY <1>1, RefundsAssumption DEF Finish, Continue, RefundsInv, TypeOK, Requests
<1>8. LockedAlone'
  BY <1>7 DEF LockedAlone, RefundsInv
<1>9. \A p \in Payments : Done(p)' \subseteq Done(p)
  BY <1>3 DEF Done, RefundsOf
<1>10. CountsEnough' /\ NeverUnderstated'
  BY <1>1, <1>3, <1>7, <1>9, NoMoreDone
<1> QED BY <1>6, <1>8, <1>10

(* Locking the payment keeps the invariant: nobody else holds it.          *)
LEMMA LockKeeps ==
  ASSUME RefundsInv, NEW c \in Completions, CompleteLock(c)
  PROVE  NamesRefund' /\ LockedAlone' /\ CountsEnough' /\ NeverUnderstated'
<1>1. /\ pc' = [pc EXCEPT ![c] = "locked"] /\ pc[c] = "loaded"
      /\ UNCHANGED <<status, refund>>
  BY DEF CompleteLock, Continue
<1>2. txn' = txn
  BY DEF CompleteLock, Continue, RefundsInv, TypeOK, Requests
<1>3. pc \in [Requests -> Stages] /\ c \in Requests
  BY DEF RefundsInv, TypeOK, Requests
<1>4. NamesRefund'
  BY <1>1, <1>2, <1>3 DEF NamesRefund, RefundsInv, Busy, Requests
<1>5. LockedAlone'
  BY <1>1, <1>2, <1>3 DEF LockedAlone, RefundsInv, CompleteLock, PaymentFree, Requests
<1>6. CountsEnough'
  BY <1>1, <1>2, <1>3 DEF CountsEnough, RefundsInv, SumOf, Amounts, Done, RefundsOf, Requests
<1>7. NeverUnderstated'
  BY <1>1 DEF NeverUnderstated, RefundsInv, Returned, SumOf, Amounts, RefundsOf
<1> QED BY <1>4, <1>5, <1>6, <1>7

(* Counting keeps the invariant.                                           *)
LEMMA SumKeeps ==
  ASSUME RefundsInv, NEW c \in Completions, CompleteSum(c)
  PROVE  NamesRefund' /\ LockedAlone' /\ CountsEnough' /\ NeverUnderstated'
<1> DEFINE p == txn[c].payment
           r == txn[c].refund
           total == SumOf(Done(p) \cup {r})
<1>1. /\ pc' = [pc EXCEPT ![c] = "summed"] /\ pc[c] = "locked"
      /\ txn' = [txn EXCEPT ![c] = [txn[c] EXCEPT !.amount = total]]
      /\ UNCHANGED <<status, refund>>
  BY DEF CompleteSum, Continue, Done
<1>2. /\ pc \in [Requests -> Stages] /\ txn \in [Requests -> Session] /\ c \in Requests
      /\ refund \in [RefundIds -> RefundRow]
  BY DEF RefundsInv, TypeOK, Requests
<1>3. total \in Nat
  <2>1. Done(p) \cup {r} \in SUBSET RefundIds
    BY <1>2 DEF Session, Done, RefundsOf
  <2> QED BY <1>2, <2>1, AmountsTyped
<1> HIDE DEF total
<1>4. \A q \in Requests :
        /\ txn'[q].payment = txn[q].payment /\ txn'[q].refund = txn[q].refund
        /\ txn'[q].amount = IF q = c THEN total ELSE txn[q].amount
        /\ pc'[q] = IF q = c THEN "summed" ELSE pc[q]
  BY <1>1, <1>2, <1>3 DEF Session
<1>5. NamesRefund'
  <2> SUFFICES ASSUME NEW q \in Completions \cup Rejections, Busy(q)'
               PROVE  /\ refund'[txn'[q].refund].status # "none"
                      /\ refund'[txn'[q].refund].payment = txn'[q].payment
    BY DEF NamesRefund
  <2>1. Busy(q) /\ q \in Requests
    BY <1>1, <1>4 DEF Busy, Requests
  <2>2. refund[txn[q].refund].status # "none" /\ refund[txn[q].refund].payment = txn[q].payment
    BY <2>1 DEF NamesRefund, RefundsInv
  <2> QED BY <1>1, <1>4, <2>1, <2>2
<1>6. LockedAlone'
  BY <1>1, <1>4 DEF LockedAlone, RefundsInv, Requests
<1>7. \A rows : SumOf(rows)' = SumFunctionOnSet(Amounts, rows')
  BY <1>1 DEF SumOf, Amounts
<1>8. CountsEnough'
  <2> SUFFICES ASSUME NEW d \in Completions, pc'[d] = "summed"
               PROVE  (SumOf(Done(txn[d].payment) \cup {txn[d].refund}) <= txn[d].amount)'
    BY DEF CountsEnough
  <2>1. /\ Done(txn[d].payment)' = Done(txn[d].payment)
        /\ txn'[d].refund = txn[d].refund
        /\ (SumOf(Done(txn[d].payment) \cup {txn[d].refund}))'
             = SumOf(Done(txn[d].payment) \cup {txn[d].refund})
    BY <1>1, <1>4 DEF Done, RefundsOf, Requests, SumOf, Amounts
  <2>2. CASE d = c
    <3>1. SumOf(Done(txn[d].payment) \cup {txn[d].refund}) = total
      BY <2>2 DEF total
    <3>2. txn'[d].amount = total
      BY <1>4, <2>2 DEF Requests
    <3> QED BY <2>1, <3>1, <3>2, <1>3
  <2>3. CASE d # c
    <3>1. pc[d] = "summed" /\ txn'[d].amount = txn[d].amount
      BY <1>4, <2>3 DEF Requests
    <3>2. SumOf(Done(txn[d].payment) \cup {txn[d].refund}) <= txn[d].amount
      BY <3>1 DEF CountsEnough, RefundsInv
    <3> QED BY <2>1, <3>1, <3>2
  <2> QED BY <2>2, <2>3
<1>9. NeverUnderstated'
  BY <1>1 DEF NeverUnderstated, RefundsInv, Returned, SumOf, Amounts, RefundsOf
<1> QED BY <1>5, <1>6, <1>8, <1>9

(* Completing a refund keeps the invariant: what was counted decides the   *)
(* status, and the completions of the same payment wait.                   *)
LEMMA CommitKeeps ==
  ASSUME RefundsInv, TypeOK', NEW c \in Completions, CompleteCommit(c)
  PROVE  NamesRefund' /\ LockedAlone' /\ CountsEnough' /\ NeverUnderstated'
<1>0. PICK p \in Payments, r \in RefundIds, total \in Nat :
        p = txn[c].payment /\ r = txn[c].refund /\ total = txn[c].amount
  BY SessionTyped DEF RefundsInv, Requests
<1>1. /\ refund' = [refund EXCEPT ![r].status = "succeeded"]
      /\ status' = [status EXCEPT ![p] = IF total >= Price THEN "refunded"
                                          ELSE "partially_refunded"]
      /\ pc' = [pc EXCEPT ![c] = "done"]
      /\ txn' = [txn EXCEPT ![c] = Blank]
      /\ pc[c] = "summed"
  BY <1>0 DEF CompleteCommit, Finish, Continue
<1>2. /\ pc \in [Requests -> Stages] /\ txn \in [Requests -> Session] /\ c \in Requests
      /\ refund \in [RefundIds -> RefundRow] /\ status \in [Payments -> PaymentStatuses]
      /\ refund' \in [RefundIds -> RefundRow]
  BY DEF RefundsInv, TypeOK, Requests
<1>3. /\ refund[r].status # "none" /\ refund[r].payment = p
      /\ SumOf(Done(p) \cup {r}) <= total
  BY <1>0, <1>1 DEF RefundsInv, NamesRefund, CountsEnough, Busy
<1>4. \A s \in RefundIds :
        /\ refund'[s].amount = refund[s].amount /\ refund'[s].payment = refund[s].payment
        /\ refund'[s].status = IF s = r THEN "succeeded" ELSE refund[s].status
  BY <1>1, <1>2 DEF RefundRow
<1>5. \A q \in Requests :
        \/ q = c /\ pc'[q] = "done"
        \/ (q # c /\ pc'[q] = pc[q] /\ txn'[q] = txn[q])
  BY <1>1, <1>2
<1>6. NamesRefund'
  <2> SUFFICES ASSUME NEW q \in Completions \cup Rejections, Busy(q)'
               PROVE  /\ refund'[txn'[q].refund].status # "none"
                      /\ refund'[txn'[q].refund].payment = txn'[q].payment
    BY DEF NamesRefund
  <2>1. pc'[q] = pc[q] /\ txn'[q] = txn[q] /\ q \in Requests
    BY <1>5 DEF Busy, Requests
  <2>2. refund[txn[q].refund].status # "none" /\ refund[txn[q].refund].payment = txn[q].payment
    BY <2>1 DEF NamesRefund, RefundsInv, Busy
  <2>3. txn[q].refund \in RefundIds
    BY <2>1, <1>2 DEF Session
  <2> QED BY <1>4, <2>1, <2>2, <2>3
<1>7. LockedAlone'
  BY <1>5 DEF LockedAlone, RefundsInv, Requests
<1>8. /\ Done(p)' = Done(p) \cup {r}
      /\ \A o \in Payments : o # p => Done(o)' = Done(o)
  <2>1. ASSUME NEW o \in Payments, NEW s \in RefundIds
        PROVE  s \in Done(o)' <=> s \in Done(o) \/ (o = p /\ s = r)
    BY <1>2, <1>3, <1>4 DEF Done, RefundsOf
  <2>2. \A o \in Payments : Done(o)' \subseteq RefundIds /\ Done(o) \subseteq RefundIds
    BY DEF Done, RefundsOf
  <2> QED BY <2>1, <2>2
<1>9. ASSUME NEW rows \in SUBSET RefundIds
      PROVE  SumFunctionOnSet(Amounts', rows) = SumOf(rows) /\ SumOf(rows) \in Nat
  BY <1>2, <1>4, SumKept, AmountsTyped DEF SumOf
<1>10. CountsEnough'
  <2> SUFFICES ASSUME NEW d \in Completions, pc'[d] = "summed"
               PROVE  (SumOf(Done(txn[d].payment) \cup {txn[d].refund}) <= txn[d].amount)'
    BY DEF CountsEnough
  <2>1. pc[d] = "summed" /\ txn'[d] = txn[d] /\ d # c /\ d \in Requests
    BY <1>5 DEF Requests
  <2>2. PICK o \in Payments, s \in RefundIds : o = txn[d].payment /\ s = txn[d].refund
    BY <2>1, <1>2 DEF Session
  <2>3. o # p
    BY <2>1, <2>2, <1>0, <1>1 DEF LockedAlone, RefundsInv
  <2>4. SumOf(Done(o) \cup {s}) <= txn[d].amount
    BY <2>1, <2>2 DEF CountsEnough, RefundsInv
  <2>5. SumFunctionOnSet(Amounts', Done(o) \cup {s}) = SumOf(Done(o) \cup {s})
    <3>1. Done(o) \cup {s} \in SUBSET RefundIds
      BY <2>2 DEF Done, RefundsOf
    <3> QED BY <3>1, <1>9
  <2>6. Done(o)' = Done(o)
    BY <1>8, <2>2, <2>3
  <2>7. (SumOf(Done(txn[d].payment) \cup {txn[d].refund}))'
          = SumFunctionOnSet(Amounts', Done(o)' \cup {s})
    BY <2>1, <2>2 DEF SumOf, Done, RefundsOf
  <2> QED BY <2>1, <2>4, <2>5, <2>6, <2>7
<1>11. NeverUnderstated'
  <2> SUFFICES ASSUME NEW o \in Payments
               PROVE  /\ Returned(o)' >= Price => status'[o] = "refunded"
                      /\ Returned(o)' > 0 => status'[o] # "succeeded"
    BY DEF NeverUnderstated
  <2>0. Returned(o)' = SumFunctionOnSet(Amounts', Done(o)') /\ Returned(o) = SumOf(Done(o))
    BY DoneSum DEF SumOf
  <2>1. CASE o = p
    <3>1. Done(p) \cup {r} \in SUBSET RefundIds
      BY <1>2 DEF Done, RefundsOf
    <3>2. Returned(o)' = SumOf(Done(p) \cup {r}) /\ SumOf(Done(p) \cup {r}) \in Nat
      BY <2>0, <2>1, <3>1, <1>8, <1>9
    <3>3. status'[o] = IF total >= Price THEN "refunded" ELSE "partially_refunded"
      BY <1>1, <1>2, <2>1
    <3> QED BY <3>2, <3>3, <1>2, <1>3, RefundsAssumption
  <2>2. CASE o # p
    <3>1. Done(o) \in SUBSET RefundIds
      BY DEF Done, RefundsOf
    <3>2. Returned(o)' = Returned(o)
      BY <2>0, <2>2, <3>1, <1>8, <1>9
    <3>3. status'[o] = status[o]
      BY <1>1, <1>2, <2>2
    <3> QED BY <3>2, <3>3 DEF NeverUnderstated, RefundsInv
  <2> QED BY <2>1, <2>2
<1> QED BY <1>6, <1>7, <1>10, <1>11

(* The invariant holds at first.                                           *)
LEMMA RefundsInvAtFirst == Init => RefundsInv
<1> SUFFICES ASSUME Init PROVE RefundsInv
  OBVIOUS
<1>1. TypeOK
  <2>1. refund \in [RefundIds -> RefundRow]
    BY BlankTyped, RefundsAssumption
    DEF Init, RefundRow, RefundStatuses, NoRefund, Session
  <2>2. status \in [Payments -> PaymentStatuses]
    BY DEF Init, Ledger!StatusOf, PaymentStatuses
  <2>3. pc \in [Requests -> Stages] /\ txn \in [Requests -> Session]
    BY BlankTyped DEF Init, Stages
  <2> QED BY <2>1, <2>2, <2>3 DEF TypeOK
<1>2. \A q \in Requests : pc[q] = "new"
  BY DEF Init
<1>3. AmountsWithin
  BY <1>2, RefundsAssumption DEF AmountsWithin, Busy, Requests, Init, NoRefund
<1>4. NamesRefund /\ LockedAlone /\ CountsEnough
  BY <1>2 DEF NamesRefund, LockedAlone, CountsEnough, Busy, Requests
<1>5. NeverUnderstated
  <2> SUFFICES ASSUME NEW p \in Payments
               PROVE  /\ Returned(p) >= Price => status[p] = "refunded"
                      /\ Returned(p) > 0 => status[p] # "succeeded"
    BY DEF NeverUnderstated
  <2>1. Returned(p) \in Nat
    <3>1. RefundsOf(p, {"succeeded"}) \in SUBSET RefundIds
      BY DEF RefundsOf
    <3> QED BY <1>1, <3>1, AmountsTyped DEF Returned, TypeOK
  <2>2. status[p] = Ledger!StatusOf(Returned(p))
    BY DEF Init
  <2> QED BY <2>1, <2>2, RefundsAssumption DEF Ledger!StatusOf
<1> QED BY <1>1, <1>3, <1>4, <1>5 DEF RefundsInv

(* Every step keeps the invariant.                                         *)
LEMMA RefundsInvKept == RefundsInv /\ [Next]_vars => RefundsInv'
<1> SUFFICES ASSUME RefundsInv, [Next]_vars PROVE RefundsInv'
  OBVIOUS
<1> USE DEF RefundsInv
<1>1. CASE Arrive
  BY <1>1, ArriveTyped, ArriveKeeps
<1>2. ASSUME NEW q \in Requests, Advance(q) PROVE RefundsInv'
  <2>1. TypeOK' /\ AmountsWithin'
    BY <1>2, AdvanceTyped
  <2> QED BY <1>2, <2>1, CreateKeeps, LockKeeps, SumKeeps, CommitKeeps, RejectKeeps DEF Advance
<1>3. CASE UNCHANGED vars
  BY <1>3 DEF vars, TypeOK, AmountsWithin, NamesRefund, LockedAlone, CountsEnough, NeverUnderstated,
              Busy, Done, Returned, RefundsOf, SumOf, Amounts
<1> QED BY <1>1, <1>2, <1>3 DEF Next, Rest

(* Rows and sessions have the values they may have, whatever requests      *)
(* overlap.                                                                *)
THEOREM RefundsTyped == Spec => []TypeOK
<1>1. RefundsInv => TypeOK
  BY DEF RefundsInv
<1> QED BY <1>1, RefundsInvAtFirst, RefundsInvKept, PTL DEF Spec

(* However recordings, completions and rejections overlap, a payment never *)
(* says less than its completed refunds.                                   *)
THEOREM StatusNeverUnderstates == Spec => []NeverUnderstated
<1>1. RefundsInv => NeverUnderstated
  BY DEF RefundsInv
<1> QED BY <1>1, RefundsInvAtFirst, RefundsInvKept, PTL DEF Spec

-----------------------------------------------------------------------------
(* The refunds of a payment that are recorded and not rejected             *)
Open(p) == RefundsOf(p, {"processing", "succeeded"})

(* Nobody has rejected what is being completed.                            *)
OpenNamed ==
  \A c \in Completions : Busy(c) => refund[txn[c].refund].status \in {"processing", "succeeded"}

(* What a completion has counted is what will be completed.                *)
CountsAll ==
  \A c \in Completions : pc[c] = "summed" =>
    txn[c].amount = SumOf(Done(txn[c].payment) \cup {txn[c].refund})

(* A refund that is asked for still fits into the payment.                 *)
RoomLeft ==
  \A k \in Creations : pc[k] = "loaded" =>
    txn[k].amount + Recorded(txn[k].payment) <= Price

(* The status tells what has been returned.                                *)
StatusTells == \A p \in Payments : status[p] = Ledger!StatusOf(Returned(p))

(* What holds besides while one refund is recorded at a time and none is   *)
(* rejected                                                                *)
LedgerInv ==
  RefundsInv /\ OpenNamed /\ CountsAll /\ RoomLeft /\ NotOverRefunded /\ StatusTells

(* The sums are natural numbers, and no more is returned than recorded.    *)
LEMMA SumsTyped ==
  ASSUME TypeOK, NEW p
  PROVE  /\ Open(p) \in SUBSET RefundIds /\ Done(p) \in SUBSET Open(p)
         /\ Recorded(p) = SumOf(Open(p)) /\ Returned(p) = SumOf(Done(p))
         /\ Recorded(p) \in Nat /\ Returned(p) \in Nat /\ Returned(p) <= Recorded(p)
<1>1. Open(p) \in SUBSET RefundIds /\ Done(p) \in SUBSET Open(p)
  BY DEF Open, Done, RefundsOf
<1>2. Recorded(p) = SumOf(Open(p)) /\ Returned(p) = SumOf(Done(p))
  BY DEF Recorded, Returned, Open, Done
<1>3. SumOf(Open(p)) \in Nat /\ SumOf(Done(p)) \in Nat
  BY <1>1, AmountsTyped DEF TypeOK
<1>4. SumOf(Done(p)) <= SumOf(Open(p))
  BY <1>1, SumOfFewer DEF TypeOK
<1> QED BY <1>1, <1>2, <1>3, <1>4

(* It holds at first, and the tables are a ledger.                         *)
LEMMA LedgerAtFirst == Init => LedgerInv /\ Ledger!Init
<1> SUFFICES ASSUME Init PROVE LedgerInv /\ Ledger!Init
  OBVIOUS
<1>1. RefundsInv
  BY RefundsInvAtFirst
<1>2. OpenNamed /\ CountsAll /\ RoomLeft
  BY RefundsAssumption DEF Init, OpenNamed, CountsAll, RoomLeft, Busy, Requests
<1>3. NotOverRefunded /\ StatusTells
  BY DEF Init, NotOverRefunded, StatusTells
<1>4. Ledger!Init
  <2>1. \A p \in Payments : Returned(p) \in 0..Price
    BY <1>1, <1>3, SumsTyped, RefundsAssumption DEF RefundsInv, NotOverRefunded
  <2> QED BY <2>1 DEF Ledger!Init, Init
<1> QED BY <1>1, <1>2, <1>3, <1>4 DEF LedgerInv

(* Requests that arrive leave the ledger alone.                            *)
LEMMA ArriveRests ==
  ASSUME LedgerInv, RefundsInv', Arrive
  PROVE  LedgerInv' /\ UNCHANGED Ledger!ledger
<1>1. UNCHANGED <<status, refund>>
  BY DEF Arrive, CreateLoad, Load
<1>2. UNCHANGED Ledger!ledger
  BY <1>1 DEF Ledger!ledger, Returned, SumOf, Amounts, RefundsOf
<1>3. NotOverRefunded' /\ StatusTells'
  BY <1>1 DEF LedgerInv, NotOverRefunded, StatusTells, Recorded, Returned, SumOf, Amounts, RefundsOf,
              Ledger!StatusOf
<1>4. \A c \in Completions : pc'[c] = "summed" => pc[c] = "summed" /\ txn'[c] = txn[c]
  BY RefundsAssumption
  DEF Arrive, CreateLoad, Load, Continue, LedgerInv, RefundsInv, TypeOK, Requests
<1>5. CountsAll'
  BY <1>1, <1>4 DEF CountsAll, LedgerInv, SumOf, Amounts, Done, RefundsOf
<1>6. OpenNamed' /\ RoomLeft'
  <2>1. ASSUME NEW k \in Creations, NEW p \in Payments, NEW amount \in 1..Price,
               CreateLoad(k, p, amount)
        PROVE  OpenNamed' /\ RoomLeft'
    <3> DEFINE session == [Blank EXCEPT !.payment = p, !.amount = amount]
    <3>1. session.payment = p /\ session.amount = amount
      BY DEF Blank
    <3>2. /\ pc' = [pc EXCEPT ![k] = "loaded"] /\ txn' = [txn EXCEPT ![k] = session]
          /\ amount + Recorded(p) <= Price
      BY <2>1 DEF CreateLoad, Continue, Reserved, Recorded
    <3> HIDE DEF session
    <3>3. OpenNamed'
      BY <1>1, <3>2, RefundsAssumption
      DEF OpenNamed, LedgerInv, RefundsInv, TypeOK, Requests, Busy
    <3>4. RoomLeft'
      <4> SUFFICES ASSUME NEW l \in Creations, pc'[l] = "loaded"
                   PROVE  (txn[l].amount + Recorded(txn[l].payment) <= Price)'
        BY DEF RoomLeft
      <4>1. Recorded(txn[l].payment)'
               = SumFunctionOnSet(Amounts, RefundsOf(txn'[l].payment, {"processing", "succeeded"}))
        BY <1>1 DEF Recorded, SumOf, Amounts, RefundsOf
      <4>2. CASE l = k
        BY <3>1, <3>2, <4>1, <4>2 DEF LedgerInv, RefundsInv, TypeOK, Requests, Recorded, SumOf
      <4>3. CASE l # k
        BY <3>2, <4>1, <4>3 DEF LedgerInv, RefundsInv, TypeOK, Requests, Recorded, SumOf, RoomLeft
      <4> QED BY <4>2, <4>3
    <3> QED BY <3>3, <3>4
  <2>2. ASSUME NEW q \in Completions \cup Rejections, NEW r \in RefundIds, Load(q, r)
        PROVE  OpenNamed' /\ RoomLeft'
    <3> DEFINE session == [Blank EXCEPT !.payment = refund[r].payment, !.refund = r]
    <3>1. session.refund = r
      BY DEF Blank
    <3>2. /\ pc' = [pc EXCEPT ![q] = "loaded"] /\ txn' = [txn EXCEPT ![q] = session]
          /\ refund[r].status = "processing"
      BY <2>2 DEF Load, Continue
    <3> HIDE DEF session
    <3>3. OpenNamed'
      BY <1>1, <3>1, <3>2 DEF OpenNamed, LedgerInv, RefundsInv, TypeOK, Requests, Busy
    <3>4. \A l \in Creations : pc'[l] = pc[l] /\ txn'[l] = txn[l]
      BY <3>2, RefundsAssumption DEF LedgerInv, RefundsInv, TypeOK, Requests
    <3>5. RoomLeft'
      BY <1>1, <3>4 DEF RoomLeft, LedgerInv, Recorded, SumOf, Amounts, RefundsOf
    <3> QED BY <3>3, <3>5
  <2> QED BY <2>1, <2>2 DEF Arrive
<1> QED BY <1>2, <1>3, <1>5, <1>6 DEF LedgerInv

(* A refund that is recorded leaves the ledger alone: nothing is given     *)
(* back yet, and what was left of the payment when it was measured still   *)
(* is.                                                                     *)
LEMMA CreateRests ==
  ASSUME LedgerInv, RefundsInv', OneAtATime, NEW k \in Creations, CreateCommit(k)
  PROVE  LedgerInv' /\ UNCHANGED Ledger!ledger
<1>0. PICK p \in Payments, amount \in 1..Price : p = txn[k].payment /\ amount = txn[k].amount
  BY SessionTyped DEF LedgerInv, RefundsInv, AmountsWithin, Busy, CreateCommit, Requests
<1>1. PICK r \in RefundIds :
        /\ refund[r].status = "none"
        /\ refund' = [refund EXCEPT ![r] = [payment |-> p, amount |-> amount, status |-> "processing"]]
  BY <1>0 DEF CreateCommit
<1>2. /\ refund \in [RefundIds -> RefundRow] /\ refund' \in [RefundIds -> RefundRow]
      /\ TypeOK /\ TypeOK' /\ amount \in Nat
  BY RefundsAssumption DEF LedgerInv, RefundsInv, TypeOK
<1>3. /\ \A s \in RefundIds : refund[s].status # "none" => refund'[s] = refund[s]
      /\ refund'[r].amount = amount
  BY <1>1, <1>2
<1>4. UNCHANGED status
  BY DEF CreateCommit
<1>5. /\ \A q \in Completions : pc'[q] = pc[q] /\ txn'[q] = txn[q] /\ txn[q].refund \in RefundIds
      /\ \A l \in Creations : pc'[l] # "loaded"
  <2>1. pc' = [pc EXCEPT ![k] = "done"] /\ txn' = [txn EXCEPT ![k] = Blank] /\ pc[k] = "loaded"
    BY DEF CreateCommit, Finish, Continue
  <2>2. \A l \in Creations : l # k => pc[l] # "loaded"
    BY <2>1 DEF OneAtATime
  <2> QED BY <1>2, <2>1, <2>2, RefundsAssumption, SessionTyped DEF TypeOK, Requests
<1>6. /\ \A o \in Payments : Done(o)' = Done(o)
      /\ \A o \in Payments : o # p => Open(o)' = Open(o)
      /\ Open(p)' = Open(p) \cup {r} /\ r \notin Open(p)
  <2>1. ASSUME NEW o \in Payments, NEW s \in RefundIds
        PROVE  /\ s \in Done(o)' <=> s \in Done(o)
               /\ s \in Open(o)' <=> s \in Open(o) \/ (o = p /\ s = r)
               /\ r \notin Open(o)
    BY <1>1, <1>2 DEF Done, Open, RefundsOf
  <2>2. \A o \in Payments : /\ Done(o)' \subseteq RefundIds /\ Done(o) \subseteq RefundIds
                            /\ Open(o)' \subseteq RefundIds /\ Open(o) \subseteq RefundIds
    BY DEF Done, Open, RefundsOf
  <2> QED BY <2>1, <2>2
<1>7. ASSUME NEW rows \in SUBSET RefundIds, \A s \in rows : refund[s].status # "none"
      PROVE  SumFunctionOnSet(Amounts', rows) = SumOf(rows) /\ SumOf(rows) \in Nat
  BY <1>2, <1>3, <1>7, SumKept, AmountsTyped DEF SumOf
<1>8. \A o \in Payments : Returned(o)' = Returned(o)
  <2> SUFFICES ASSUME NEW o \in Payments PROVE Returned(o)' = Returned(o)
    OBVIOUS
  <2>1. Done(o) \in SUBSET RefundIds /\ \A s \in Done(o) : refund[s].status # "none"
    BY DEF Done, RefundsOf
  <2>2. Returned(o)' = SumFunctionOnSet(Amounts', Done(o)') /\ Returned(o) = SumOf(Done(o))
    BY DoneSum DEF SumOf
  <2> QED BY <2>1, <2>2, <1>6, <1>7
<1>9. StatusTells' /\ UNCHANGED Ledger!ledger
  BY <1>4, <1>8 DEF StatusTells, LedgerInv, Ledger!StatusOf, Ledger!ledger
<1>10. NotOverRefunded'
  <2> SUFFICES ASSUME NEW o \in Payments PROVE Recorded(o)' <= Price
    BY DEF NotOverRefunded
  <2>1. Open(o) \in SUBSET RefundIds /\ \A s \in Open(o) : refund[s].status # "none"
    BY DEF Open, RefundsOf
  <2>2. Recorded(o)' = SumFunctionOnSet(Amounts', Open(o)') /\ Recorded(o) = SumOf(Open(o))
    BY DEF Recorded, Open, SumOf
  <2>3. SumFunctionOnSet(Amounts', Open(o)) = Recorded(o) /\ Recorded(o) \in Nat
    BY <2>1, <2>2, <1>7
  <2>4. CASE o # p
    BY <2>2, <2>3, <2>4, <1>6 DEF LedgerInv, NotOverRefunded
  <2>5. CASE o = p
    <3> DEFINE more == Open(p) \cup {r}
    <3>1. more \in SUBSET RefundIds /\ r \in more /\ more \ {r} = Open(p)
      BY <1>6, <2>1, <2>5
    <3> HIDE DEF more
    <3>2. IsFiniteSet(more) /\ \A s \in more : Amounts'[s] \in Int
      BY <1>2, <3>1, RefundsAssumption, FS_Subset DEF Amounts, RefundRow
    <3>3. Amounts'[r] = amount
      BY <1>3 DEF Amounts
    <3>4. SumFunctionOnSet(Amounts', more) = Amounts'[r] + SumFunctionOnSet(Amounts', more \ {r})
      BY <3>1, <3>2, SumOfAny
    <3>5. Recorded(o)' = amount + Recorded(p)
      BY <1>6, <2>2, <2>3, <2>5, <3>1, <3>3, <3>4 DEF more
    <3>6. amount + Recorded(p) <= Price
      BY <1>0 DEF LedgerInv, RoomLeft, CreateCommit
    <3> QED BY <3>5, <3>6
  <2> QED BY <2>4, <2>5
<1>11. OpenNamed'
  <2> SUFFICES ASSUME NEW c \in Completions, Busy(c)'
               PROVE  refund'[txn'[c].refund].status \in {"processing", "succeeded"}
    BY DEF OpenNamed
  <2>1. refund[txn[c].refund].status \in {"processing", "succeeded"}
    BY <1>5 DEF LedgerInv, OpenNamed, Busy
  <2> QED BY <2>1, <1>3, <1>5
<1>12. CountsAll'
  <2> SUFFICES ASSUME NEW c \in Completions, pc'[c] = "summed"
               PROVE  (txn[c].amount = SumOf(Done(txn[c].payment) \cup {txn[c].refund}))'
    BY DEF CountsAll
  <2>1. PICK o \in Payments, s \in RefundIds : o = txn[c].payment /\ s = txn[c].refund
    BY <1>2, SessionTyped DEF Requests
  <2>2. txn[c].amount = SumOf(Done(o) \cup {s}) /\ refund[s].status # "none"
    BY <2>1, <1>5 DEF LedgerInv, CountsAll, RefundsInv, NamesRefund, Busy
  <2>3. SumFunctionOnSet(Amounts', Done(o) \cup {s}) = SumOf(Done(o) \cup {s})
    <3>1. /\ Done(o) \cup {s} \in SUBSET RefundIds
          /\ \A x \in Done(o) \cup {s} : refund[x].status # "none"
      BY <2>2 DEF Done, RefundsOf
    <3> QED BY <3>1, <1>7
  <2>4. (SumOf(Done(txn[c].payment) \cup {txn[c].refund}))'
          = SumFunctionOnSet(Amounts', Done(o)' \cup {s})
    BY <1>5, <2>1 DEF SumOf, Done, RefundsOf
  <2> QED BY <1>5, <1>6, <2>2, <2>3, <2>4
<1>13. RoomLeft'
  BY <1>5 DEF RoomLeft
<1> QED BY <1>9, <1>10, <1>11, <1>12, <1>13 DEF LedgerInv

(* Locking the payment leaves the ledger alone.                            *)
LEMMA LockRests ==
  ASSUME LedgerInv, RefundsInv', NEW c \in Completions, CompleteLock(c)
  PROVE  LedgerInv' /\ UNCHANGED Ledger!ledger
<1>1. /\ pc' = [pc EXCEPT ![c] = "locked"] /\ pc[c] = "loaded" /\ txn' = txn
      /\ UNCHANGED <<status, refund>>
  BY DEF CompleteLock, Continue, LedgerInv, RefundsInv, TypeOK, Requests
<1>2. pc \in [Requests -> Stages] /\ c \notin Creations
  BY RefundsAssumption DEF LedgerInv, RefundsInv, TypeOK
<1>3. OpenNamed'
  BY <1>1, <1>2 DEF OpenNamed, LedgerInv, Busy, Requests
<1>4. CountsAll'
  BY <1>1, <1>2 DEF CountsAll, LedgerInv, SumOf, Amounts, Done, RefundsOf, Requests
<1>5. RoomLeft'
  BY <1>1, <1>2 DEF RoomLeft, LedgerInv, Recorded, SumOf, Amounts, RefundsOf, Requests
<1>6. NotOverRefunded' /\ StatusTells' /\ UNCHANGED Ledger!ledger
  BY <1>1 DEF LedgerInv, NotOverRefunded, StatusTells, Recorded, Returned, SumOf, Amounts, RefundsOf,
              Ledger!StatusOf, Ledger!ledger
<1> QED BY <1>3, <1>4, <1>5, <1>6 DEF LedgerInv

(* Counting leaves the ledger alone.                                       *)
LEMMA SumRests ==
  ASSUME LedgerInv, RefundsInv', NEW c \in Completions, CompleteSum(c)
  PROVE  LedgerInv' /\ UNCHANGED Ledger!ledger
<1>0. PICK p \in Payments, r \in RefundIds : p = txn[c].payment /\ r = txn[c].refund
  BY SessionTyped DEF LedgerInv, RefundsInv, Requests
<1> DEFINE total == SumOf(Done(p) \cup {r})
<1>1. /\ pc' = [pc EXCEPT ![c] = "summed"] /\ pc[c] = "locked"
      /\ txn' = [txn EXCEPT ![c] = [txn[c] EXCEPT !.amount = total]]
      /\ UNCHANGED <<status, refund>>
  BY <1>0 DEF CompleteSum, Continue, Done
<1>2. pc \in [Requests -> Stages] /\ txn \in [Requests -> Session] /\ c \in Requests /\ c \notin Creations
  BY RefundsAssumption DEF LedgerInv, RefundsInv, TypeOK, Requests
<1> HIDE DEF total
<1>3. \A q \in Requests :
        /\ txn'[q].payment = txn[q].payment /\ txn'[q].refund = txn[q].refund
        /\ txn'[q].amount = IF q = c THEN total ELSE txn[q].amount
        /\ pc'[q] = IF q = c THEN "summed" ELSE pc[q]
  BY <1>1, <1>2 DEF Session
<1>4. OpenNamed'
  BY <1>1, <1>2, <1>3 DEF OpenNamed, LedgerInv, Busy, Requests
<1>5. CountsAll'
  <2> SUFFICES ASSUME NEW d \in Completions, pc'[d] = "summed"
               PROVE  (txn[d].amount = SumOf(Done(txn[d].payment) \cup {txn[d].refund}))'
    BY DEF CountsAll
  <2>1. (SumOf(Done(txn[d].payment) \cup {txn[d].refund}))'
          = SumOf(Done(txn[d].payment) \cup {txn[d].refund})
    BY <1>1, <1>3 DEF Done, RefundsOf, Requests, SumOf, Amounts
  <2>2. CASE d = c
    BY <1>0, <1>3, <2>1, <2>2 DEF total, Requests
  <2>3. CASE d # c
    BY <1>3, <2>1, <2>3 DEF CountsAll, LedgerInv, Requests
  <2> QED BY <2>2, <2>3
<1>6. RoomLeft'
  BY <1>1, <1>2 DEF RoomLeft, LedgerInv, Recorded, SumOf, Amounts, RefundsOf, Requests
<1>7. NotOverRefunded' /\ StatusTells' /\ UNCHANGED Ledger!ledger
  BY <1>1 DEF LedgerInv, NotOverRefunded, StatusTells, Recorded, Returned, SumOf, Amounts, RefundsOf,
              Ledger!StatusOf, Ledger!ledger
<1> QED BY <1>4, <1>5, <1>6, <1>7 DEF LedgerInv

(* Completing a refund gives its amount back, or changes nothing where     *)
(* another has completed the same.                                         *)
LEMMA CommitGivesBack ==
  ASSUME LedgerInv, RefundsInv', NEW c \in Completions, CompleteCommit(c)
  PROVE  LedgerInv' /\ [Ledger!Next]_(Ledger!ledger)
<1>0. PICK p \in Payments, r \in RefundIds, total \in Nat :
        p = txn[c].payment /\ r = txn[c].refund /\ total = txn[c].amount
  BY SessionTyped DEF LedgerInv, RefundsInv, Requests
<1>1. /\ refund' = [refund EXCEPT ![r].status = "succeeded"]
      /\ status' = [status EXCEPT ![p] = IF total >= Price THEN "refunded"
                                          ELSE "partially_refunded"]
      /\ pc' = [pc EXCEPT ![c] = "done"]
      /\ txn' = [txn EXCEPT ![c] = Blank]
      /\ pc[c] = "summed"
  BY <1>0 DEF CompleteCommit, Finish, Continue
<1>2. /\ pc \in [Requests -> Stages] /\ txn \in [Requests -> Session]
      /\ c \in Requests /\ c \notin Creations
      /\ refund \in [RefundIds -> RefundRow] /\ status \in [Payments -> PaymentStatuses]
      /\ refund' \in [RefundIds -> RefundRow] /\ TypeOK /\ TypeOK'
  BY RefundsAssumption DEF LedgerInv, RefundsInv, TypeOK, Requests
<1>3. /\ refund[r].status \in {"processing", "succeeded"} /\ refund[r].payment = p
      /\ refund[r].amount \in 1..Price
      /\ total = SumOf(Done(p) \cup {r})
  <2>1. refund[r].status \in {"processing", "succeeded"} /\ refund[r].payment = p
    BY <1>0, <1>1 DEF LedgerInv, RefundsInv, OpenNamed, NamesRefund, Busy
  <2>2. total = SumOf(Done(p) \cup {r})
    BY <1>0, <1>1 DEF LedgerInv, CountsAll
  <2> QED BY <2>1, <2>2 DEF LedgerInv, RefundsInv, AmountsWithin
<1>4. \A s \in RefundIds :
        /\ refund'[s].amount = refund[s].amount /\ refund'[s].payment = refund[s].payment
        /\ refund'[s].status = IF s = r THEN "succeeded" ELSE refund[s].status
  BY <1>1, <1>2 DEF RefundRow
<1>5. \A q \in Requests :
        \/ q = c /\ pc'[q] = "done"
        \/ (q # c /\ pc'[q] = pc[q] /\ txn'[q] = txn[q])
  BY <1>1, <1>2
<1>6. /\ Done(p)' = Done(p) \cup {r}
      /\ \A o \in Payments : o # p => Done(o)' = Done(o)
      /\ \A o \in Payments : Open(o)' = Open(o)
      /\ r \in Open(p)
  <2>1. ASSUME NEW o \in Payments, NEW s \in RefundIds
        PROVE  /\ s \in Done(o)' <=> s \in Done(o) \/ (o = p /\ s = r)
               /\ s \in Open(o)' <=> s \in Open(o)
    BY <1>2, <1>3, <1>4 DEF Done, Open, RefundsOf
  <2>2. \A o \in Payments : /\ Done(o)' \subseteq RefundIds /\ Done(o) \subseteq RefundIds
                            /\ Open(o)' \subseteq RefundIds /\ Open(o) \subseteq RefundIds
    BY DEF Done, Open, RefundsOf
  <2>3. r \in Open(p)
    BY <1>3 DEF Open, RefundsOf
  <2> QED BY <2>1, <2>2, <2>3
<1>7. ASSUME NEW rows \in SUBSET RefundIds
      PROVE  SumFunctionOnSet(Amounts', rows) = SumOf(rows) /\ SumOf(rows) \in Nat
  BY <1>2, <1>4, SumKept, AmountsTyped DEF SumOf
<1>8. NotOverRefunded'
  <2> SUFFICES ASSUME NEW o \in Payments PROVE Recorded(o)' <= Price
    BY DEF NotOverRefunded
  <2>1. Recorded(o)' = SumFunctionOnSet(Amounts', Open(o)') /\ Recorded(o) = SumOf(Open(o))
    BY DEF Recorded, Open, SumOf
  <2>2. Open(o) \in SUBSET RefundIds
    BY DEF Open, RefundsOf
  <2> QED BY <2>1, <2>2, <1>6, <1>7 DEF LedgerInv, NotOverRefunded
<1>9. \A o \in Payments : o # p => Returned(o)' = Returned(o)
  <2> SUFFICES ASSUME NEW o \in Payments, o # p PROVE Returned(o)' = Returned(o)
    OBVIOUS
  <2>1. Done(o) \in SUBSET RefundIds
    BY DEF Done, RefundsOf
  <2>2. Returned(o)' = SumFunctionOnSet(Amounts', Done(o)') /\ Returned(o) = SumOf(Done(o))
    BY DoneSum DEF SumOf
  <2> QED BY <2>1, <2>2, <1>6, <1>7
<1> DEFINE more == Done(p) \cup {r}
<1>10. /\ more \in SUBSET RefundIds /\ more \in SUBSET Open(p) /\ more # {} /\ r \in more
       /\ Done(p) \in SUBSET more
  BY <1>6 DEF Done, Open, RefundsOf
<1>11. Returned(p)' = total
  <2>1. Returned(p)' = SumFunctionOnSet(Amounts', Done(p)')
    BY DoneSum
  <2> QED BY <2>1, <1>3, <1>6, <1>7, <1>10
<1>12. total = refund[r].amount + SumOf(more \ {r}) /\ SumOf(more \ {r}) \in Nat
  <2> HIDE DEF more
  <2>1. /\ IsFiniteSet(more) /\ \A s \in more : Amounts[s] \in Int
        /\ Amounts[r] = refund[r].amount /\ SumOf(more \ {r}) \in Nat
    <3>1. \A s \in RefundIds : Amounts[s] = refund[s].amount /\ Amounts[s] \in Nat
      BY <1>2, AmountsTyped
    <3>2. more \ {r} \in SUBSET RefundIds
      BY <1>10
    <3> QED BY <3>1, <3>2, <1>2, <1>10, AmountsTyped
  <2>2. SumFunctionOnSet(Amounts, more) = Amounts[r] + SumFunctionOnSet(Amounts, more \ {r})
    BY <1>10, <2>1, SumOfAny
  <2> QED BY <2>1, <2>2, <1>3 DEF more, SumOf
<1>13. total <= Price
  <2>1. SumOf(more) <= SumOf(Open(p)) /\ Open(p) \in SUBSET RefundIds
    BY <1>2, <1>10, SumOfFewer DEF Open, RefundsOf
  <2>2. SumOf(Open(p)) <= Price /\ SumOf(Open(p)) \in Nat
    BY <1>2, SumsTyped DEF LedgerInv, NotOverRefunded
  <2> QED BY <2>1, <2>2, <1>3, RefundsAssumption
<1> HIDE DEF more
<1>14. status'[p] = Ledger!StatusOf(total) /\ \A o \in Payments : o # p => status'[o] = status[o]
  BY <1>1, <1>2, <1>3, <1>12, RefundsAssumption DEF Ledger!StatusOf
<1>15. StatusTells'
  <2> SUFFICES ASSUME NEW o \in Payments PROVE status'[o] = Ledger!StatusOf(Returned(o)')
    BY DEF StatusTells, Ledger!StatusOf
  <2>1. CASE o = p
    BY <2>1, <1>11, <1>14
  <2>2. CASE o # p
    BY <2>2, <1>9, <1>14 DEF LedgerInv, StatusTells
  <2> QED BY <2>1, <2>2
<1>16. OpenNamed'
  <2> SUFFICES ASSUME NEW d \in Completions, Busy(d)'
               PROVE  refund'[txn'[d].refund].status \in {"processing", "succeeded"}
    BY DEF OpenNamed
  <2>1. d \in Requests /\ txn'[d] = txn[d] /\ Busy(d)
    BY <1>5 DEF Busy, Requests
  <2>2. refund[txn[d].refund].status \in {"processing", "succeeded"} /\ txn[d].refund \in RefundIds
    BY <2>1, <1>2 DEF LedgerInv, OpenNamed, Session
  <2> QED BY <2>1, <2>2, <1>4
<1>17. CountsAll'
  <2> SUFFICES ASSUME NEW d \in Completions, pc'[d] = "summed"
               PROVE  (txn[d].amount = SumOf(Done(txn[d].payment) \cup {txn[d].refund}))'
    BY DEF CountsAll
  <2>1. pc[d] = "summed" /\ txn'[d] = txn[d] /\ d # c /\ d \in Requests
    BY <1>5 DEF Requests
  <2>2. PICK o \in Payments, s \in RefundIds : o = txn[d].payment /\ s = txn[d].refund
    BY <2>1, <1>2 DEF Session
  <2>3. o # p
    BY <2>1, <2>2, <1>0, <1>1 DEF LockedAlone, LedgerInv, RefundsInv
  <2>4. txn[d].amount = SumOf(Done(o) \cup {s})
    BY <2>1, <2>2 DEF CountsAll, LedgerInv
  <2>5. SumFunctionOnSet(Amounts', Done(o) \cup {s}) = SumOf(Done(o) \cup {s})
    <3>1. Done(o) \cup {s} \in SUBSET RefundIds
      BY DEF Done, RefundsOf
    <3> QED BY <3>1, <1>7
  <2>6. (SumOf(Done(txn[d].payment) \cup {txn[d].refund}))'
          = SumFunctionOnSet(Amounts', Done(o)' \cup {s})
    BY <2>1, <2>2 DEF SumOf, Done, RefundsOf
  <2> QED BY <2>1, <2>3, <2>4, <2>5, <2>6, <1>6
<1>18. RoomLeft'
  <2> SUFFICES ASSUME NEW k \in Creations, pc'[k] = "loaded"
               PROVE  (txn[k].amount + Recorded(txn[k].payment) <= Price)'
    BY DEF RoomLeft
  <2>1. pc[k] = "loaded" /\ txn'[k] = txn[k] /\ k \in Requests
    BY <1>2, <1>5 DEF Requests
  <2>2. PICK o \in Payments : o = txn[k].payment
    BY <2>1, <1>2 DEF Session
  <2>3. Recorded(txn[k].payment)' = SumFunctionOnSet(Amounts', Open(o)') /\ Recorded(o) = SumOf(Open(o))
    BY <2>1, <2>2 DEF Recorded, Open, SumOf, RefundsOf
  <2>4. Open(o) \in SUBSET RefundIds
    BY DEF Open, RefundsOf
  <2>5. txn[k].amount + Recorded(o) <= Price
    BY <2>1, <2>2 DEF LedgerInv, RoomLeft
  <2> QED BY <2>1, <2>3, <2>4, <2>5, <1>6, <1>7
<1>19. [Ledger!Next]_(Ledger!ledger)
  <2>1. CASE r \in Done(p)
    <3>1. Returned(p)' = Returned(p)
      <4>1. more = Done(p)
        BY <2>1 DEF more
      <4> QED BY <4>1, <1>3, <1>11, DoneSum DEF more, SumOf
    <3>2. \A o \in Payments : Returned(o)' = Returned(o)
      BY <3>1, <1>9
    <3>3. status' = status
      <4>1. status'[p] = status[p]
        BY <3>1, <1>11, <1>14 DEF LedgerInv, StatusTells
      <4> QED BY <4>1, <1>1, <1>2
    <3> QED BY <3>2, <3>3 DEF Ledger!ledger
  <2>2. CASE r \notin Done(p)
    <3> DEFINE amount == refund[r].amount
    <3>1. Returned(p)' = Returned(p) + amount /\ Returned(p) + amount <= Price
      <4>1. more \ {r} = Done(p)
        BY <2>2 DEF more
      <4>2. Returned(p) = SumOf(Done(p))
        BY DoneSum DEF SumOf
      <4>3. total = Returned(p) + amount
        BY <4>1, <4>2, <1>3, <1>12
      <4> QED BY <4>3, <1>11, <1>13
    <3>2. [o \in Payments |-> Returned(o)']
            = [[o \in Payments |-> Returned(o)] EXCEPT ![p] = Returned(p) + amount]
      BY <3>1, <1>9
    <3>3. status' = [status EXCEPT ![p] = Ledger!StatusOf(Returned(p)')]
      BY <1>1, <1>2, <1>11, <1>14
    <3>4. Ledger!GiveBack(p, refund[r].amount)
      BY <3>1, <3>2, <3>3 DEF Ledger!GiveBack, Ledger!StatusOf
    <3> QED BY <3>4, <1>3 DEF Ledger!Next
  <2> QED BY <2>1, <2>2
<1> QED BY <1>8, <1>15, <1>16, <1>17, <1>18, <1>19 DEF LedgerInv

(* Every step is one of the ledger or leaves it alone.                     *)
LEMMA LedgerStep ==
  LedgerInv /\ RefundsInv' /\ OneAtATime /\ [Next]_vars => LedgerInv' /\ [Ledger!Next]_(Ledger!ledger)
<1> SUFFICES ASSUME LedgerInv, RefundsInv', OneAtATime, [Next]_vars
             PROVE  LedgerInv' /\ [Ledger!Next]_(Ledger!ledger)
  OBVIOUS
<1>1. CASE Arrive
  BY <1>1, ArriveRests
<1>2. ASSUME NEW q \in Requests, Advance(q)
      PROVE  LedgerInv' /\ [Ledger!Next]_(Ledger!ledger)
  <2>1. ~ (q \in Rejections /\ RejectCommit(q))
    BY DEF OneAtATime, RejectCommit
  <2> QED BY <1>2, <2>1, CreateRests, LockRests, SumRests, CommitGivesBack DEF Advance
<1>3. CASE UNCHANGED vars
  BY <1>3 DEF vars, LedgerInv, OpenNamed, CountsAll, RoomLeft, NotOverRefunded, StatusTells, Recorded,
              Busy, Done, Returned, RefundsOf, SumOf, Amounts, Ledger!StatusOf, Ledger!ledger
<1> QED BY <1>1, <1>2, <1>3 DEF Next, Rest

(* While clerks record one refund after the other and nobody rejects one,  *)
(* the tables move like the ledger of RefundLedger, however many           *)
(* completions overlap: money is given back one refund at a time, within   *)
(* the payment, and the status tells it.                                   *)
THEOREM OneAtATimeImplementsLedger == Spec /\ []OneAtATime => Ledger!Spec
BY RefundsInvAtFirst, RefundsInvKept, LedgerAtFirst, LedgerStep, PTL DEF Spec, Ledger!Spec

-----------------------------------------------------------------------------
(* The invariant of the scenes of MCRefunds                                *)
ScenesInv == RefundsInv /\ (OneClerk => LedgerInv /\ OneAtATime)

(* It holds at first, and the tables of a scene are a ledger.              *)
LEMMA SceneLedgerAtFirst == SceneInit => ScenesInv /\ OneClerkLedger!Init
<1> SUFFICES ASSUME SceneInit PROVE ScenesInv /\ OneClerkLedger!Init
  OBVIOUS
<1>1. RefundsInv /\ LedgerInv /\ Ledger!Init
  BY RefundsInvAtFirst, LedgerAtFirst DEF SceneInit
<1>2. OneClerk => OneAtATime
  BY DEF SceneInit, Playing
<1>3. OneClerkLedger!Init
  <2>1. CASE OneClerk
    BY <1>1, <2>1 DEF Ledger!Init, Ledger!StatusOf, OneClerkLedger!Init, OneClerkLedger!StatusOf
  <2>2. CASE ~OneClerk
    BY <2>2, RefundsAssumption DEF OneClerkLedger!Init, OneClerkLedger!StatusOf
  <2> QED BY <2>1, <2>2
<1> QED BY <1>1, <1>2, <1>3 DEF ScenesInv

(* Every step of a scene is one of its ledger or leaves it alone.          *)
LEMMA SceneLedgerStep ==
  ScenesInv /\ [SceneNext]_<<vars, scene>>
    => ScenesInv' /\ [OneClerkLedger!Next]_(OneClerkLedger!ledger)
<1> SUFFICES ASSUME ScenesInv, [SceneNext]_<<vars, scene>>
             PROVE  ScenesInv' /\ [OneClerkLedger!Next]_(OneClerkLedger!ledger)
  OBVIOUS
<1>1. [Next]_vars /\ scene' = scene
  BY DEF SceneNext
<1>2. RefundsInv'
  BY <1>1, RefundsInvKept DEF ScenesInv
<1>3. CASE ~OneClerk
  BY <1>1, <1>2, <1>3 DEF ScenesInv, OneClerk, OneClerkLedger!ledger
<1>4. CASE OneClerk
  <2>1. LedgerInv' /\ [Ledger!Next]_(Ledger!ledger)
    BY <1>1, <1>2, <1>4, LedgerStep DEF ScenesInv
  <2>2. OneClerk' /\ OneAtATime'
    BY <1>1, <1>4 DEF OneClerk, ScenesInv, SceneNext, Playing, OneAtATime, vars
  <2>3. /\ [p \in Payments |-> IF OneClerk THEN Returned(p) ELSE 0] = [p \in Payments |-> Returned(p)]
        /\ [p \in Payments |-> IF OneClerk' THEN Returned(p)' ELSE 0] = [p \in Payments |-> Returned(p)']
        /\ [p \in Payments |-> IF OneClerk THEN status[p] ELSE "succeeded"] = status
        /\ [p \in Payments |-> IF OneClerk' THEN status'[p] ELSE "succeeded"] = status'
    BY <1>2, <1>4, <2>2 DEF ScenesInv, RefundsInv, TypeOK
  <2>4. [OneClerkLedger!Next]_(OneClerkLedger!ledger)
    <3>1. CASE UNCHANGED Ledger!ledger
      BY <3>1, <2>3 DEF Ledger!ledger, OneClerkLedger!ledger
    <3>2. ASSUME NEW p \in Payments, NEW amount \in 1..Price, Ledger!GiveBack(p, amount)
          PROVE  OneClerkLedger!GiveBack(p, amount)
      BY <3>2, <2>3
        DEF Ledger!GiveBack, Ledger!StatusOf, OneClerkLedger!GiveBack, OneClerkLedger!StatusOf
    <3> QED BY <2>1, <3>1, <3>2 DEF Ledger!Next, OneClerkLedger!Next
  <2> QED BY <1>2, <2>1, <2>2, <2>4 DEF ScenesInv
<1> QED BY <1>3, <1>4

(* The same for the scenes that are model-checked: the ledger of           *)
(* OneClerkLedger is implemented, for any payments, rows and requests.     *)
THEOREM OneClerkKeepsLedger == SceneSpec => OneClerkImplementsLedger
BY SceneLedgerAtFirst, SceneLedgerStep, PTL
DEF SceneSpec, OneClerkImplementsLedger, OneClerkLedger!Spec
==============================================================================
