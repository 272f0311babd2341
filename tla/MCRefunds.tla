----------------------------- MODULE MCRefunds -----------------------------
(***************************************************************************)
(* Instances of Refunds for TLC.                                           *)
(***************************************************************************)
EXTENDS Refunds

CONSTANTS
  k1, k2,      \* two clerks who record
  c1, c2, c3,  \* three who complete
  Scenes       \* who takes part in one behaviour, as names of the scenes below

VARIABLE scene  \* the one that is played

(* Refunds are recorded as one clerk would: one after the other            *)
OneClerk == scene = "ledger"

(* Who stays away *)
Absent == IF OneClerk THEN {} ELSE {c3}

(* One run plays two scenes.  Each only keeps requests from arriving, which *)
(* are under no fairness.  Rows are used, and requests of a kind arrive, in *)
(* a fixed order: they are alike.                                           *)
Playing ==
  /\ OneClerk => OneAtATime
  /\ \A q \in Absent : pc[q] = "new"
  /\ \A r, s \in RefundIds : r < s /\ refund[s].status # "none" => refund[r].status # "none"
  /\ pc[k2] # "new" => pc[k1] # "new"
  /\ pc[c2] # "new" => pc[c1] # "new"
  /\ pc[c3] # "new" => pc[c2] # "new"

SceneInit == Init /\ scene \in Scenes /\ Playing
SceneNext == Next /\ scene' = scene /\ Playing'
SceneSpec == SceneInit /\ [][SceneNext]_<<vars, scene>> /\ Fairness

-----------------------------------------------------------------------------
(* The ledger of the scene with one record after the other; elsewhere one  *)
(* that rests.                                                             *)
OneClerkLedger ==
  INSTANCE RefundLedger WITH
    returned <- [p \in Payments |-> IF OneClerk THEN Returned(p) ELSE 0],
    status <- [p \in Payments |-> IF OneClerk THEN status[p] ELSE "succeeded"]

(* And the tables then move like the ledger: one refund at a time is given *)
(* back, within the payment, and the status tells it.                      *)
OneClerkImplementsLedger == OneClerkLedger!Spec
=============================================================================
