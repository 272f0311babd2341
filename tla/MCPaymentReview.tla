--------------------------- MODULE MCPaymentReview ---------------------------
(***************************************************************************)
(* Instances of PaymentReview for TLC.                                     *)
(***************************************************************************)
EXTENDS PaymentReview, TLC

CONSTANTS
  h1, h2,
  Together  \* the sets of requests that may come in one behaviour

(* Two houses with one payment order each.                                 *)
OneOrderEach == 1 :> h1 @@ 2 :> h2

(* One house with one payment order.                                       *)
SingleOrder == 1 :> h1

(* Two houses with room for a renewal each.                                *)
TwoOrdersEach == 1 :> h1 @@ 2 :> h2 @@ 3 :> h1 @@ 4 :> h2

(* Requests of one kind, and the references, are interchangeable.          *)
Symmetric ==
  Permutations(Submissions) \cup Permutations(CashEntries) \cup Permutations(Approvals)
    \cup Permutations(Rejections) \cup Permutations(InfoRequests) \cup Permutations(References)

(* One run takes several sets of visitors in turn: only the requests of    *)
(* one of them ever arrive.  Arrivals are under no fairness, so nothing    *)
(* that must happen is kept from happening.                                *)
Scenario == \E visitors \in Together : {r \in Requests : pc[r] # "new"} \subseteq visitors

ScenarioNext ==
  \/ Arrive /\ Scenario'
  \/ \E r \in Requests : Advance(r)
  \/ \E r \in Unreliable : Abort(r)
  \/ Tick
  \/ Rest

ScenarioSpec == Init /\ [][ScenarioNext]_vars /\ Fairness
=============================================================================
