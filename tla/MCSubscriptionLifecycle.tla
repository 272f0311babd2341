----------------------- MODULE MCSubscriptionLifecycle -----------------------
(***************************************************************************)
(* Instances of SubscriptionLifecycle for TLC.                             *)
(***************************************************************************)
EXTENDS SubscriptionLifecycle, TLC

CONSTANTS
  Together,  \* the sets of requests that may come in one behaviour
  Busy,      \* the houses two payments may be for
  First      \* the payment that comes first

(* Requests of one kind are interchangeable.                               *)
Symmetric ==
  Permutations(Approvals) \cup Permutations(CashEntries) \cup Permutations(Members)
    \cup Permutations(HouseEdits)

(* One run takes several sets of visitors in turn: only the requests of    *)
(* one of them ever arrive.  Arrivals are under no fairness, so nothing    *)
(* that must happen is kept from happening.                                *)
Scenario == \E visitors \in Together : {r \in Requests : pc[r] # "new"} \subseteq visitors

ScenarioNext == (Arrive /\ Scenario') \/ Proceed

ScenarioSpec == Init /\ [][ScenarioNext]_vars /\ Fairness

(* Payments in two scenes: one payment, of any house, with a crash at any  *)
(* time, or several payments for a busy one while the others only run out, *)
(* the second of them when no more crash can come (an early one leaves no  *)
(* trace).  The first may be an approval or a cash entry, the others are   *)
(* approvals.  A payment that has to wait for the runner (only requests    *)
(* buy periods) does so until the house has been treated, and the runner   *)
(* is fair; a first one that was overtaken goes on as an approval, and is  *)
(* refused.                                                                *)
PaymentScene ==
  /\ pc[First] = "new" => \A p \in Payers : pc[p] = "new"
  /\ \/ \A p \in Payers \ {First} : pc[p] = "new"
     \/ /\ crashes = MaxCrashes
        /\ \A h \in Houses \ Busy :
             /\ bought[h] = {}
             /\ \A p \in Payers : pc[p] \in {"loaded", "committed"} => txn[p].h # h

PaymentNext ==
  \/ Arrive /\ PaymentScene'
  \/ \E r \in Requests : Advance(r) /\ Unhurried /\ Undoubled
  \/ \E h \in Houses : RenewRequest(h)
  \/ Cycle
  \/ Crash
  \/ Tick

PaymentSpec == Init /\ [][PaymentNext]_vars /\ Fairness
=============================================================================
