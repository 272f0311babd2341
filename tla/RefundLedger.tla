---------------------------- MODULE RefundLedger ----------------------------
(***************************************************************************)
(* What refunds promise: money is given back one confirmed refund at a     *)
(* time, never more than was paid, and the payment says at every moment    *)
(* how much of it has been given back.  Refunds implements this where one  *)
(* clerk records refunds and nobody rejects them.                          *)
(***************************************************************************)
EXTENDS Naturals

CONSTANTS
  Payments,  \* approved payments
  Price      \* the amount of each

VARIABLES
  returned,  \* how much of each payment has been given back
  status     \* what the payment says of it

ledger == <<returned, status>>

(* The status that tells the amount given back.                            *)
StatusOf(total) ==
  IF total = 0 THEN "succeeded"
  ELSE IF total >= Price THEN "refunded" ELSE "partially_refunded"

Init ==
  /\ returned \in [Payments -> 0..Price]
  /\ status = [p \in Payments |-> StatusOf(returned[p])]

GiveBack(p, amount) ==
  /\ returned[p] + amount <= Price
  /\ returned' = [returned EXCEPT ![p] = @ + amount]
  /\ status' = [status EXCEPT ![p] = StatusOf(returned'[p])]

Next == \E p \in Payments, amount \in 1..Price : GiveBack(p, amount)

Spec == Init /\ [][Next]_ledger
=============================================================================
