----------------------------- MODULE TopupAccounts -----------------------------
(***************************************************************************)
(* What iTopUp balances promise: a request is settled at once and in full  *)
(* or not at all, nobody gives what he does not have, and the ledger tells *)
(* every amount.  TopupBalances implements this.                           *)
(***************************************************************************)
EXTENDS Integers

CONSTANTS
  Holders,    \* the SIMs of a house that hold money
  Transfers,  \* the requests
  Order       \* who gives to whom, and how much

VARIABLES
  balance,  \* what each holder has
  ledger,   \* the sum of each holder's ledger rows
  settled   \* the requests that have been carried out

accounts == <<balance, ledger, settled>>

AccountsInit ==
  /\ balance \in [Holders -> Nat]
  /\ ledger = balance
  /\ settled = {}

(* What a request adds to a holder                                         *)
Change(q, h) ==
  IF h = Order[q].from THEN -Order[q].amount
  ELSE IF h = Order[q].to THEN Order[q].amount
  ELSE 0

Settle(q) ==
  /\ q \notin settled
  /\ \A h \in Holders : balance[h] + Change(q, h) >= 0
  /\ balance' = [h \in Holders |-> balance[h] + Change(q, h)]
  /\ ledger' = [h \in Holders |-> ledger[h] + Change(q, h)]
  /\ settled' = settled \cup {q}

AccountsSpec == AccountsInit /\ [][\E q \in Transfers : Settle(q)]_accounts
===============================================================================
