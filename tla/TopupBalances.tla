----------------------------- MODULE TopupBalances -----------------------------
(***************************************************************************)
(* iTopUp money of a house: the mother SIM and its employees each have a   *)
(* row of itopup_balances, which transfers and daily entries change.       *)
(* Code: services/itopup_service.py with its callers in                    *)
(* services/finance_service.py, routers/finance.py and                     *)
(* routers/itopup_balance.py.                                              *)
(*                                                                         *)
(* A request is one transaction: it takes an amount from a holder, gives   *)
(* an amount to a holder, or both in this order, and commits.  Each part   *)
(* is apply_itopup_change: a SELECT FOR UPDATE that finds the rows of the  *)
(* holder when it begins and then waits for their locks, and an INSERT     *)
(* where there is none.  The unique key of a row is no key for the mother  *)
(* SIM, whose employee is NULL.                                            *)
(*                                                                         *)
(* A row is named by the holder it was made for before the behaviour, or   *)
(* by the request that inserts it.                                         *)
(***************************************************************************)
EXTENDS Integers, FiniteSetsExt

CONSTANTS
  Mother,     \* the mother SIM of the house: employee_id is NULL
  Staff,      \* employees that hold top-up money
  Outside,    \* no holder: the other side of a usage, a return or an adjustment
  Transfers,  \* the requests
  Order,      \* what each of them asks for: see OrderType
  MaxAmount   \* bound: the largest amount

Holders == Staff \cup {Mother}
TopupRows == Holders \cup Transfers
OrderType == [from : Holders \cup {Outside}, to : Holders \cup {Outside}, amount : 1 .. MaxAmount]

ASSUME TopupAssumption ==
  /\ Mother \notin Staff /\ Outside \notin Holders
  /\ Holders \cap Transfers = {} /\ Outside \notin Transfers
  /\ IsFiniteSet(Staff) /\ IsFiniteSet(Transfers)
  /\ MaxAmount \in Nat
  /\ Order \in [Transfers -> OrderType]
  /\ \A q \in Transfers : Order[q].from # Order[q].to

VARIABLES
  topupRow,    \* committed rows
  topupMoney,  \* balance of each row
  topupTold,   \* history: the sum of the ledger rows written with it
  topupLock,   \* who has locked or inserted a row, or Outside
  topupPc,     \* where a request is
  topupFound,  \* the rows its SELECT has found
  topupHas     \* the balances it is going to commit, by row

topupTables == <<topupRow, topupMoney, topupTold>>
topupVars == <<topupTables, topupLock, topupPc, topupFound, topupHas>>

-----------------------------------------------------------------------------
HolderOf(r) == IF r \in Holders THEN r ELSE Order[r].to
RowsOf(h) == {r \in topupRow : HolderOf(r) = h}

(* The holder a request is at, and what it adds there                      *)
Side(q) == IF topupPc[q] \in {"look from", "lock from"} THEN Order[q].from ELSE Order[q].to
Amount(q) == IF topupPc[q] = "lock from" THEN -Order[q].amount ELSE Order[q].amount

(* Where it goes on, after the part from or after the part to              *)
AfterFrom(q) == IF Order[q].to = Outside THEN "commit" ELSE "look to"
FirstStep(q) == IF Order[q].from = Outside THEN "look to" ELSE "look from"

(* A session that has changed no balance                                   *)
NoMoney == [r \in {} |-> 0]

TopupInit ==
  /\ topupRow \in SUBSET Holders
  /\ topupMoney \in [TopupRows -> 0 .. MaxAmount]
  /\ \A r \in TopupRows \ topupRow : topupMoney[r] = 0
  /\ topupTold = topupMoney
  /\ topupLock = [r \in TopupRows |-> Outside]
  /\ topupPc = [q \in Transfers |-> "new"]
  /\ topupFound = [q \in Transfers |-> {}]
  /\ topupHas = [q \in Transfers |-> NoMoney]

-----------------------------------------------------------------------------
Goes(q, step) == topupPc' = [topupPc EXCEPT ![q] = step]

(* The balance of row r is changed in the session of request q.            *)
Put(rows, r, money) == [s \in DOMAIN rows \cup {r} |-> IF s = r THEN money ELSE rows[s]]
Sets(q, r, money) == topupHas' = [topupHas EXCEPT ![q] = Put(topupHas[q], r, money)]

TopupBegin(q) ==
  /\ topupPc[q] = "new"
  /\ Goes(q, FirstStep(q))
  /\ UNCHANGED <<topupTables, topupLock, topupFound, topupHas>>

(* The transaction is rolled back: its locks are free, its row is gone.    *)
Refused(q) ==
  /\ Goes(q, "refused")
  /\ topupLock' = [r \in TopupRows |-> IF topupLock[r] = q THEN Outside ELSE topupLock[r]]
  /\ topupHas' = [topupHas EXCEPT ![q] = NoMoney]
  /\ topupFound' = [topupFound EXCEPT ![q] = {}]
  /\ UNCHANGED topupTables

(* The SELECT FOR UPDATE begins: it sees what is committed.                *)
TopupLook(q) ==
  /\ topupPc[q] \in {"look from", "look to"}
  /\ topupFound' = [topupFound EXCEPT ![q] = RowsOf(Side(q))]
  /\ Goes(q, IF topupPc[q] = "look from" THEN "lock from" ELSE "lock to")
  /\ UNCHANGED <<topupTables, topupLock, topupHas>>

(* Others whose locks it waits for                                         *)
Awaits(q) ==
  IF topupPc[q] \in {"lock from", "lock to"}
  THEN {topupLock[r] : r \in topupFound[q]} \ {Outside, q}
  ELSE IF topupPc[q] = "insert" /\ Side(q) \in Staff
  THEN {p \in Transfers \ {q} : topupLock[p] = p /\ p \notin topupRow /\ HolderOf(p) = Side(q)}
  ELSE {}

(* Fault: the rows are read without FOR UPDATE. *)
TopupLockNone(q) ==
  /\ topupPc[q] \in {"lock from", "lock to"}
  /\ \E r \in topupFound[q] :
       /\ topupMoney[r] + Amount(q) >= 0
       /\ Sets(q, r, topupMoney[r] + Amount(q))
       /\ Goes(q, IF topupPc[q] = "lock from" THEN AfterFrom(q) ELSE "commit")
       /\ UNCHANGED <<topupTables, topupLock, topupFound>>

(* The one row is locked, read and changed.                                *)
TopupLockRow(q) ==
  /\ topupPc[q] \in {"lock from", "lock to"} /\ Awaits(q) = {}
  /\ \E r \in topupFound[q] :
       /\ topupFound[q] = {r}
       /\ topupMoney[r] + Amount(q) >= 0
       /\ topupLock' = [topupLock EXCEPT ![r] = q]
       /\ Sets(q, r, topupMoney[r] + Amount(q))
       /\ Goes(q, IF topupPc[q] = "lock from" THEN AfterFrom(q) ELSE "commit")
       /\ UNCHANGED <<topupTables, topupFound>>

(* Too little money, a holder without a row to take it from, or more than  *)
(* one row where one is expected.                                          *)
TopupRefuse(q) ==
  /\ topupPc[q] \in {"lock from", "lock to"} /\ Awaits(q) = {}
  /\ \/ topupFound[q] = {} /\ topupPc[q] = "lock from"
     \/ Cardinality(topupFound[q]) > 1
     \/ \E r \in topupFound[q] : topupMoney[r] + Amount(q) < 0
  /\ Refused(q)

TopupNoRow(q) ==
  /\ topupPc[q] = "lock to" /\ topupFound[q] = {}
  /\ Goes(q, "insert")
  /\ UNCHANGED <<topupTables, topupLock, topupFound, topupHas>>

(* The INSERT with its flush, which waits for one of the same key, and the *)
(* change of the new row.                                                  *)
TopupInsert(q) ==
  /\ topupPc[q] = "insert" /\ Awaits(q) = {}
  /\ Side(q) = Mother \/ RowsOf(Side(q)) = {}
  /\ topupLock' = [topupLock EXCEPT ![q] = q]
  /\ Sets(q, q, Amount(q))
  /\ Goes(q, "commit")
  /\ UNCHANGED <<topupTables, topupFound>>

TopupInsertFails(q) ==
  /\ topupPc[q] = "insert" /\ Awaits(q) = {}
  /\ Side(q) \in Staff /\ RowsOf(Side(q)) # {}
  /\ Refused(q)

(* Fault: each part is committed by itself. *)
TopupCommitEach(q) ==
  /\ topupPc[q] \in {"commit", "look to"}
  /\ topupRow' = topupRow \cup DOMAIN topupHas[q]
  /\ topupMoney' = [r \in TopupRows |->
       IF r \in DOMAIN topupHas[q] THEN topupHas[q][r] ELSE topupMoney[r]]
  /\ topupTold' = [r \in TopupRows |->
       topupTold[r] + IF r \in DOMAIN topupHas[q] THEN topupHas[q][r] - topupMoney[r] ELSE 0]
  /\ topupLock' = [r \in TopupRows |-> IF topupLock[r] = q THEN Outside ELSE topupLock[r]]
  /\ topupHas' = [topupHas EXCEPT ![q] = NoMoney]
  /\ topupFound' = [topupFound EXCEPT ![q] = {}]
  /\ Goes(q, IF topupPc[q] = "commit" THEN "done" ELSE "look to")

(* What the ledger rows of a request say of a row: the amounts asked for   *)
Tells(q, r) ==
  IF HolderOf(r) = Order[q].from THEN -Order[q].amount ELSE Order[q].amount

TopupCommit(q) ==
  /\ topupPc[q] = "commit"
  /\ topupRow' = topupRow \cup DOMAIN topupHas[q]
  /\ topupMoney' = [r \in TopupRows |->
       IF r \in DOMAIN topupHas[q] THEN topupHas[q][r] ELSE topupMoney[r]]
  /\ topupTold' = [r \in TopupRows |->
       IF r \in DOMAIN topupHas[q] THEN topupTold[r] + Tells(q, r) ELSE topupTold[r]]
  /\ topupLock' = [r \in TopupRows |-> IF topupLock[r] = q THEN Outside ELSE topupLock[r]]
  /\ topupHas' = [topupHas EXCEPT ![q] = NoMoney]
  /\ topupFound' = [topupFound EXCEPT ![q] = {}]
  /\ Goes(q, "done")

(* The database finds a circle of waits and refuses one of its members.    *)
TopupVictim(q) ==
  /\ Awaits(q) # {}
  /\ \E circle \in SUBSET Transfers :
       /\ q \in circle
       /\ \A p \in circle : Awaits(p) \cap circle # {} /\ \E r \in circle : p \in Awaits(r)
  /\ Refused(q)

(* The process ends, or the connection is lost.                            *)
TopupCutOff(q) ==
  /\ topupPc[q] \notin {"new", "done", "refused"}
  /\ Refused(q)

TopupNext ==
  \E q \in Transfers :
    \/ TopupBegin(q) \/ TopupLook(q) \/ TopupLockRow(q) \/ TopupRefuse(q) \/ TopupNoRow(q)
    \/ TopupInsert(q) \/ TopupInsertFails(q) \/ TopupCommit(q) \/ TopupVictim(q) \/ TopupCutOff(q)

TopupSpec == TopupInit /\ [][TopupNext]_topupVars

-----------------------------------------------------------------------------
TopupSteps ==
  {"new", "look from", "lock from", "look to", "lock to", "insert", "commit", "done", "refused"}

(* Rows and sessions keep their types; no balance is negative.             *)
TopupTypeOK ==
  /\ topupRow \subseteq TopupRows
  /\ topupMoney \in [TopupRows -> Nat]
  /\ topupTold \in [TopupRows -> Int]
  /\ topupLock \in [TopupRows -> Transfers \cup {Outside}]
  /\ topupPc \in [Transfers -> TopupSteps]
  /\ topupFound \in [Transfers -> SUBSET TopupRows]
  /\ DOMAIN topupHas = Transfers
  /\ \A q \in Transfers :
       DOMAIN topupHas[q] \subseteq TopupRows /\ topupHas[q] \in [DOMAIN topupHas[q] -> Nat]

(* The balance of a row is the sum of the ledger rows that were written    *)
(* with it, however requests overlap: no update is lost, and what a        *)
(* request that fails has changed is nowhere.                              *)
BooksAgree == \A r \in TopupRows : topupTold[r] = topupMoney[r]

(* An employee has one row at most, also where two requests find none and  *)
(* each inserts it.                                                        *)
OneRowEach == \A h \in Staff : Cardinality(RowsOf(h)) <= 1

(* What the rows of each holder say together                               *)
HoldersMoney(table) == [h \in Holders |-> SumFunctionOnSet(table, RowsOf(h))]

Accounts == INSTANCE TopupAccounts
  WITH balance <- HoldersMoney(topupMoney), ledger <- HoldersMoney(topupTold),
       settled <- {q \in Transfers : topupPc[q] = "done"}

(* Who looks at the tables sees accounts that change by whole requests: a  *)
(* transfer is never half done, no holder is overdrawn, a request that is  *)
(* refused or cut off has changed nothing, and the ledger moves with the   *)
(* balances.                                                               *)
ImplementsAccounts == Accounts!AccountsSpec

(* Nobody waits for a request that has ended, so that what stands in the   *)
(* way of a transfer goes on or waits itself, and a circle of waits, as of *)
(* two transfers in opposite directions, is undone by refusing one.        *)
WaitsEnd ==
  \A q \in Transfers : \A p \in Awaits(q) : topupPc[p] \notin {"new", "done", "refused"}
===============================================================================
