-------------------- MODULE SubscriptionLifecycleProofs --------------------
(***************************************************************************)
(* Proofs about SubscriptionLifecycle, for any number of houses, requests, *)
(* crashes and days and any lengths of period, grace, notice and pause.    *)
(*                                                                         *)
(* The runner works on objects it loaded at the start of a cycle, and      *)
(* payments on objects they loaded before their commit.  Three things make *)
(* the stale objects harmless.  A payment goes through only if no other    *)
(* was booked since it was loaded (an approval looks, a cash entry does by *)
(* the premise Undoubled), so it knows the last end (SeenEnd).  An         *)
(* object in the past due group has an end behind the cycle's clock, so it *)
(* is either current or the house has paid for time that lies ahead, and   *)
(* the cycle looks for that time before it marks the row (ListEnd).  And   *)
(* an UPDATE names only the columns the session changed, so a reminder or  *)
(* an expiry writes no end (DraftEnd).                                     *)
(*                                                                         *)
(* EndInv says so and yields PaidEndKept.  FreeInv adds that no active row *)
(* past its end escapes a cycle (OldListed, SweptRows, Daily), which ties  *)
(* a grace to the end of its period (RowOK), and yields FreeTimeBounded    *)
(* and ExpiredStaysBlocked.                                                *)
(***************************************************************************)
EXTENDS SubscriptionLifecycle, FiniteSetTheorems, TLAPS

-----------------------------------------------------------------------------
(* What a flush writes, and the rows it yields                             *)

(* An UPDATE of a subscription: a column the session changed gets the new  *)
(* value, any other keeps what the row has by now; the result is a row.    *)
LEMMA OrmSub ==
  ASSUME NEW row \in SubRow, NEW seen \in SubRow, NEW object \in SubRow
  PROVE  /\ OrmUpdate(row, seen, object) \in SubRow
         /\ OrmUpdate(row, seen, object).status
              = IF object.status = seen.status THEN row.status ELSE object.status
         /\ OrmUpdate(row, seen, object).end
              = IF object.end = seen.end THEN row.end ELSE object.end
         /\ OrmUpdate(row, seen, object).grace
              = IF object.grace = seen.grace THEN row.grace ELSE object.grace
         /\ OrmUpdate(row, seen, object).trial
              = IF object.trial = seen.trial THEN row.trial ELSE object.trial
<1> DEFINE columns == {"status", "end", "grace", "resume", "trial", "told"}
           new == OrmUpdate(row, seen, object)
<1>1. DOMAIN row = columns
  BY DEF SubRow
<1>2. new = [c \in columns |-> IF object[c] = seen[c] THEN row[c] ELSE object[c]]
  BY <1>1 DEF OrmUpdate
<1> HIDE DEF new
<1>3. /\ new.status = IF object.status = seen.status THEN row.status ELSE object.status
      /\ new.end = IF object.end = seen.end THEN row.end ELSE object.end
      /\ new.grace = IF object.grace = seen.grace THEN row.grace ELSE object.grace
      /\ new.resume = IF object.resume = seen.resume THEN row.resume ELSE object.resume
      /\ new.trial = IF object.trial = seen.trial THEN row.trial ELSE object.trial
      /\ new.told = IF object.told = seen.told THEN row.told ELSE object.told
  BY <1>2
<1>4. /\ new.status \in Statuses /\ {new.end, new.grace, new.resume, new.trial} \subseteq Nat
      /\ new.told \in BOOLEAN
  BY <1>3 DEF SubRow
<1>5. new = [status |-> new.status, end |-> new.end, grace |-> new.grace,
             resume |-> new.resume, trial |-> new.trial, told |-> new.told]
  BY <1>2
<1>6. new \in SubRow
  BY <1>4, <1>5 DEF SubRow
<1> QED
  BY <1>3, <1>6 DEF new

(* The same for a house.                                                   *)
LEMMA OrmHouse ==
  ASSUME NEW row \in HouseRow, NEW seen \in HouseRow, NEW object \in HouseRow
  PROVE  OrmUpdate(row, seen, object) \in HouseRow
<1> DEFINE new == OrmUpdate(row, seen, object)
<1>1. new = [c \in {"active", "locked"} |-> IF object[c] = seen[c] THEN row[c] ELSE object[c]]
  BY DEF OrmUpdate, HouseRow
<1> HIDE DEF new
<1>2. new.active \in BOOLEAN /\ new.locked \in BOOLEAN
  BY <1>1 DEF HouseRow
<1>3. new = [active |-> new.active, locked |-> new.locked]
  BY <1>1
<1> QED
  BY <1>2, <1>3 DEF HouseRow, new

(* Locking or unlocking a house leaves a house row.                        *)
LEMMA SyncedRow ==
  ASSUME NEW seen \in HouseRow, NEW entitled
  PROVE  SyncedHouse(seen, entitled) \in HouseRow
  BY DEF SyncedHouse, HouseRow

-----------------------------------------------------------------------------
(* Types                                                                   *)

USE DEF Null

(* What a member or an administrator can have asked for.                   *)
EditOps == {"pause", "resume", "cancel", "extend"} \cup Statuses

(* The inductive form of TypeOK: a house has finitely many paid periods, a *)
(* session that edits knows an edit, the runner holds the object of every  *)
(* house on its list, and the house it is about to mark is still on it.    *)
TypeInv ==
  /\ TypeOK
  /\ \A h \in Houses : IsFiniteSet(bought[h])
  /\ \A r \in Members \cup Admins : pc[r] = "loaded" => txn[r].op \in EditOps
  /\ \A h \in runner.todo : runner.object[h] # Absent
  /\ runner.step = "mark" => runner.at \in runner.todo

(* The columns of the cycle.                                               *)
LEMMA RunnerFields ==
  ASSUME TypeOK
  PROVE  /\ runner.step \in RunnerSteps /\ runner.clock \in Nat /\ runner.todo \subseteq Houses
         /\ runner.at \in Houses /\ runner.object \in [Houses -> SubRow \cup {Absent}]
         /\ runner.draft \in [Houses -> SubRow \cup {Absent}]
         /\ runner.houses \in [Houses -> HouseRow] /\ runner.judged \subseteq Houses
  BY DEF TypeOK

(* The columns of a session.                                               *)
LEMMA TxnFields ==
  ASSUME TypeOK, NEW r \in Requests
  PROVE  /\ txn[r].h \in Houses /\ txn[r].op \in Ops /\ txn[r].seen \in SubRow
         /\ txn[r].house \in HouseRow /\ txn[r].paid \in Nat
  BY DEF TypeOK

(* The rows that stand for nothing.                                        *)
LEMMA Rows ==
  /\ NoRow \in SubRow /\ NoHouse \in HouseRow /\ Absent \notin SubRow
  /\ \A row \in SubRow : row # Absent
  BY DEF NoRow, NoHouse, Absent, SubRow, HouseRow, Statuses

(* What the runner sees of a subscription is a row.                        *)
LEMMA SeesRow ==
  ASSUME TypeOK, NEW h \in Houses
  PROVE  RunnerSees(h) \in SubRow
  BY DEF TypeOK, RunnerSees

(* The session of a request that has none: its house is arbitrary, so      *)
(* there must be a house.                                                  *)
LEMMA BlankTyped ==
  ASSUME Houses # {}
  PROVE  Blank \in [h : Houses, op : Ops, seen : SubRow, house : HouseRow, paid : Nat]
<1>1. (CHOOSE h \in Houses : TRUE) \in Houses
  OBVIOUS
<1> QED
  BY <1>1, Rows DEF Blank, Ops

(* The cycle that has not begun.                                           *)
LEMMA IdleTyped ==
  ASSUME Houses # {}
  PROVE  /\ Idle \in [step : RunnerSteps, clock : Nat, todo : SUBSET Houses, at : Houses,
                 object : [Houses -> SubRow \cup {Absent}],
                 draft : [Houses -> SubRow \cup {Absent}],
                 houses : [Houses -> HouseRow], judged : SUBSET Houses]
         /\ Idle.step = "idle" /\ Idle.todo = {} /\ Idle.draft = [h \in Houses |-> Absent]
         /\ Idle.object = [h \in Houses |-> Absent]
<1>1. (CHOOSE h \in Houses : TRUE) \in Houses
  OBVIOUS
<1> QED
  BY <1>1, Rows DEF Idle, RunnerSteps

(* pause, resume, cancel, extend_period_days and set_status leave a row.   *)
LEMMA EditedTyped ==
  ASSUME TypeOK, LifecycleAssumption, NEW seen \in SubRow, NEW op \in EditOps
  PROVE  Edited(seen, op) \in SubRow
<1>1. now + PauseLength \in Nat
  BY DEF TypeOK, LifecycleAssumption
<1>2. CASE op = "pause"
  BY <1>1, <1>2 DEF Edited, SubRow, Statuses
<1>3. CASE op = "resume"
  BY <1>3 DEF Edited, SubRow, Statuses
<1>4. CASE op = "cancel"
  BY <1>4 DEF Edited, SubRow, Statuses
<1>5. CASE op = "extend"
  BY <1>5 DEF Edited, SubRow, Statuses
<1>6. CASE op \in Statuses
  BY <1>6 DEF Edited, SubRow, Statuses
<1> QED
  BY <1>2, <1>3, <1>4, <1>5, <1>6 DEF EditOps

(* The period of a payment is one interval long and starts at the end the  *)
(* session knows, if that lies ahead and this is a renewal, and now        *)
(* otherwise.                                                              *)
LEMMA PaidTyped ==
  ASSUME TypeOK, LifecycleAssumption, NEW t, t.seen \in SubRow, t.paid \in Nat,
         NEW cash \in BOOLEAN
  PROVE  LET period == PaidPeriod(t, cash) IN
         /\ period \in Period /\ period.no = t.paid + 1
         /\ period.end = period.start + Interval
         /\ period.start \in {now, t.seen.end}
         /\ period.start >= now
         /\ t.seen.end > now /\ (OtherPaid(t) # {} \/ t.seen.status \in {"active", "past_due"})
              => period.start = t.seen.end
         /\ OtherPaid(t) = {} /\ t.seen.status \notin {"active", "past_due"}
              => period.start = now
<1>1. now \in Nat /\ t.seen.end \in Nat /\ Interval \in Nat
  BY DEF TypeOK, LifecycleAssumption, SubRow
<1> QED
  BY <1>1 DEF PaidPeriod, Period

(* The invoice is stored with a period, next to the others of the house.   *)
LEMMA StoredTyped ==
  ASSUME NEW t, bought[t.h] \subseteq Period, IsFiniteSet(bought[t.h]), NEW period \in Period,
         NEW stored \in Stored(t, period)
  PROVE  /\ stored \in Period /\ OtherPaid(t) \cup {stored} \subseteq Period
         /\ IsFiniteSet(OtherPaid(t) \cup {stored})
<1>1. OtherPaid(t) \subseteq bought[t.h] /\ bought[t.h] \ OtherPaid(t) \subseteq Period
  BY DEF OtherPaid
<1>2. stored \in Period
  BY <1>1 DEF Stored, Period
<1>3. IsFiniteSet(OtherPaid(t) \cup {stored})
  BY <1>1, FS_Subset, FS_AddElement
<1> QED
  BY <1>1, <1>2, <1>3

(* A paid subscription is active to the end of its period, without a       *)
(* grace.                                                                  *)
LEMMA ActivatedTyped ==
  ASSUME NEW seen \in SubRow, NEW q \in Period
  PROVE  /\ Activated(seen, q) \in SubRow /\ Activated(seen, q).status = "active"
         /\ Activated(seen, q).end = q.end /\ Activated(seen, q).grace = Null
         /\ Activated(seen, q).trial = seen.trial
  BY DEF Activated, SubRow, Period, Statuses

(* If nobody has paid the invoice before, it is stored with the period.    *)
LEMMA StoredAlone ==
  ASSUME NEW t, bought[t.h] \ OtherPaid(t) = {}, NEW period \in Period,
         NEW stored \in Stored(t, period)
  PROVE  stored = period
<1>1. stored \in [start : {period.start}, end : {period.end}, no : {period.no},
                  cash : {period.cash}]
  BY DEF Stored
<1> QED
  BY <1>1 DEF Period

(* Houses start in their types.                                            *)
LEMMA InitTyped ==
  ASSUME Init, LifecycleAssumption, KindsAssumption, Houses # {}
  PROVE  TypeInv
<1>1. Selected \in SubRow /\ Paid \in SubRow
  <2>1. 1 + FreeTier \in Nat /\ 1 + Interval \in Nat
    BY DEF LifecycleAssumption
  <2>2. Selected \in SubRow
    BY <2>1 DEF Selected, SubRow, Statuses
  <2> QED
    BY <2>1, <2>2 DEF Paid, SubRow, Statuses
<1>2. [start |-> 1, end |-> 1 + Interval, no |-> 1, cash |-> FALSE] \in Period
  BY DEF Period, LifecycleAssumption
<1> PICK new \in SUBSET Houses :
       /\ sub = [h \in Houses |-> IF h \in new THEN Selected ELSE Paid]
       /\ open = [h \in Houses |-> h \in new]
       /\ bought = [h \in Houses |-> IF h \in new THEN {}
                                     ELSE {[start |-> 1, end |-> 1 + Interval, no |-> 1,
                                            cash |-> FALSE]}]
       /\ house = [h \in Houses |-> [active |-> h \notin new \/ FreeTier > 0,
                                     locked |-> h \in new /\ FreeTier = 0]]
  BY DEF Init
<1>3. sub \in [Houses -> SubRow]
  BY <1>1
<1>4. open \in [Houses -> BOOLEAN]
  <2>1. ASSUME NEW h \in Houses
        PROVE  (h \in new) \in BOOLEAN
    OBVIOUS
  <2> QED
    BY <2>1
<1>5. bought \in [Houses -> SUBSET Period] /\ \A h \in Houses : IsFiniteSet(bought[h])
  BY <1>2, FS_EmptySet, FS_Singleton
<1>6. house \in [Houses -> HouseRow]
  <2>1. ASSUME NEW h \in Houses
        PROVE  [active |-> h \notin new \/ FreeTier > 0,
                locked |-> h \in new /\ FreeTier = 0] \in HouseRow
    BY Zenon DEF HouseRow
  <2> QED
    BY <2>1
<1>7. closed \in [Houses -> BOOLEAN]
  BY DEF Init
<1>8. pc \in [Requests -> {"new", "loaded", "committed", "done"}]
  BY DEF Init
<1>9. txn \in [Requests -> [h : Houses, op : Ops, seen : SubRow, house : HouseRow, paid : Nat]]
  BY BlankTyped DEF Init
<1>10. now \in Nat /\ swept \in Nat /\ crashes \in Nat
  BY DEF Init
<1>11. TypeOK
  BY <1>3, <1>4, <1>5, <1>6, <1>7, <1>8, <1>9, <1>10, IdleTyped, Zenon DEF TypeOK, Init
<1>12. runner.todo = {} /\ runner.step = "idle"
  BY IdleTyped DEF Init
<1>13. \A r \in Members \cup Admins : pc[r] # "loaded"
  BY DEF Init, Requests
<1> QED
  BY <1>5, <1>11, <1>12, <1>13 DEF TypeInv

(* What a session has read.                                                *)
TxnRow == [h : Houses, op : Ops, seen : SubRow, house : HouseRow, paid : Nat]

(* A cycle.                                                                *)
RunnerRow ==
  [step : RunnerSteps, clock : Nat, todo : SUBSET Houses, at : Houses,
   object : [Houses -> SubRow \cup {Absent}], draft : [Houses -> SubRow \cup {Absent}],
   houses : [Houses -> HouseRow], judged : SUBSET Houses]

(* TypeInv in four parts, after the variables a step changes together: the *)
(* tables,                                                                 *)
TablesTyped ==
  /\ sub \in [Houses -> SubRow]
  /\ house \in [Houses -> HouseRow]
  /\ open \in [Houses -> BOOLEAN]
  /\ bought \in [Houses -> SUBSET Period] /\ \A h \in Houses : IsFiniteSet(bought[h])
  /\ closed \in [Houses -> BOOLEAN]

(* the runner,                                                             *)
RunnerTyped ==
  /\ runner \in RunnerRow
  /\ \A h \in runner.todo : runner.object[h] # Absent
  /\ runner.step = "mark" => runner.at \in runner.todo

(* the requests,                                                           *)
RequestsTyped ==
  /\ pc \in [Requests -> {"new", "loaded", "committed", "done"}]
  /\ txn \in [Requests -> TxnRow]
  /\ \A r \in Members \cup Admins : pc[r] = "loaded" => txn[r].op \in EditOps

(* and the clock.                                                          *)
WorldTyped == now \in Nat /\ swept \in Nat /\ crashes \in Nat

(* The four parts are the whole,                                           *)
LEMMA InvParts ==
  TypeInv <=> TablesTyped /\ RunnerTyped /\ RequestsTyped /\ WorldTyped
  BY Zenon DEF TypeInv, TypeOK, TablesTyped, RunnerTyped, RequestsTyped, WorldTyped, TxnRow,
       RunnerRow

(* after a step as before it.                                              *)
LEMMA InvPartsNext ==
  TypeInv' <=> TablesTyped' /\ RunnerTyped' /\ RequestsTyped' /\ WorldTyped'
  BY Zenon DEF TypeInv, TypeOK, TablesTyped, RunnerTyped, RequestsTyped, WorldTyped, TxnRow,
       RunnerRow

(* A step that leaves the runner alone.                                    *)
LEMMA SameRunner ==
  ASSUME RunnerTyped, runner' = runner
  PROVE  RunnerTyped'
  BY DEF RunnerTyped

(* A step that leaves the tables alone.                                    *)
LEMMA SameTables ==
  ASSUME TablesTyped, UNCHANGED tables
  PROVE  TablesTyped'
  BY DEF TablesTyped, tables

(* A step that leaves the requests alone.                                  *)
LEMMA SameRequests ==
  ASSUME RequestsTyped, UNCHANGED <<pc, txn>>
  PROVE  RequestsTyped'
  BY DEF RequestsTyped

(* A step that leaves the clock alone.                                     *)
LEMMA SameWorld ==
  ASSUME WorldTyped, UNCHANGED world
  PROVE  WorldTyped'
  BY DEF WorldTyped, world

(* A request that goes on to its next stage.                               *)
LEMMA Continued ==
  ASSUME RequestsTyped, RunnerTyped, WorldTyped, NEW r \in Requests,
         NEW stage \in {"new", "loaded", "committed", "done"}, NEW session \in TxnRow,
         r \in Members \cup Admins /\ stage = "loaded" => session.op \in EditOps,
         Continue(r, stage, session)
  PROVE  RunnerTyped' /\ RequestsTyped' /\ WorldTyped'
<1>1. RunnerTyped' /\ WorldTyped'
  BY SameRunner, SameWorld DEF Continue
<1>2. pc' = [pc EXCEPT ![r] = stage] /\ txn' = [txn EXCEPT ![r] = session]
  BY DEF Continue
<1>3. pc' \in [Requests -> {"new", "loaded", "committed", "done"}]
  BY <1>2 DEF RequestsTyped
<1>4. txn' \in [Requests -> TxnRow]
  BY <1>2 DEF RequestsTyped
<1>5. ASSUME NEW s \in Members \cup Admins, pc'[s] = "loaded"
      PROVE  txn'[s].op \in EditOps
  <2>1. s \in Requests
    BY DEF Requests
  <2>2. CASE s = r
    BY <1>2, <1>5, <2>1, <2>2 DEF RequestsTyped
  <2>3. CASE s # r
    BY <1>2, <1>5, <2>1, <2>3 DEF RequestsTyped
  <2> QED
    BY <2>2, <2>3
<1> QED
  BY <1>1, <1>3, <1>4, <1>5 DEF RequestsTyped

(* A request that ends.                                                    *)
LEMMA Finished ==
  ASSUME RequestsTyped, RunnerTyped, WorldTyped, Houses # {}, NEW r \in Requests, Finish(r)
  PROVE  RunnerTyped' /\ RequestsTyped' /\ WorldTyped'
<1>1. Blank \in TxnRow
  BY BlankTyped DEF TxnRow
<1>2. "done" # "loaded"
  OBVIOUS
<1> QED
  BY <1>1, <1>2, Continued DEF Finish

(* A request that comes and reads its rows.                                *)
LEMMA Loaded ==
  ASSUME TypeInv, NEW r \in Requests, NEW h \in Houses, NEW op \in Ops,
         r \in Members \cup Admins => op \in EditOps, Load(r, h, op)
  PROVE  TypeInv'
<1> DEFINE session == [h |-> h, op |-> op, seen |-> sub[h], house |-> house[h],
                       paid |-> Cardinality(bought[h])]
<1>1. Continue(r, "loaded", session) /\ UNCHANGED tables
  BY DEF Load
<1>2. sub[h] \in SubRow /\ house[h] \in HouseRow /\ IsFiniteSet(bought[h])
  BY InvParts DEF TablesTyped
<1>3. Cardinality(bought[h]) \in Nat
  BY <1>2, FS_CardinalityType
<1>4. session \in TxnRow /\ session.op = op
  BY <1>2, <1>3 DEF TxnRow
<1> HIDE DEF session
<1>5. RunnerTyped' /\ RequestsTyped' /\ WorldTyped'
  BY <1>1, <1>4, Continued, InvParts
<1> QED
  BY <1>1, <1>5, SameTables, InvParts, InvPartsNext

(* sync_house_billing_state for one house leaves house rows.               *)
LEMMA HouseSynced ==
  ASSUME TypeInv, NEW h \in Houses, NEW seen \in HouseRow, NEW row, SyncHouse(h, seen, row)
  PROVE  house' \in [Houses -> HouseRow]
<1> DEFINE new == OrmUpdate(house[h], seen, SyncedHouse(seen, IsEntitled(row, now)))
<1>1. house \in [Houses -> HouseRow]
  BY InvParts DEF TablesTyped
<1>2. new \in HouseRow
  BY <1>1, OrmHouse, SyncedRow
<1>3. house' = [house EXCEPT ![h] = new]
  BY DEF SyncHouse
<1> QED
  BY <1>1, <1>2, <1>3

(* mark_invoice_paid.                                                      *)
LEMMA PayTyped ==
  ASSUME TypeInv, LifecycleAssumption, Houses # {}, NEW p \in Payers, PayCommit(p)
  PROVE  TypeInv'
<1> DEFINE t == txn[p]
<1>1. TypeOK /\ TablesTyped /\ RunnerTyped /\ RequestsTyped /\ WorldTyped
  BY InvParts DEF TypeInv
<1>2. p \in Requests
  BY DEF Requests
<1>3. t \in TxnRow /\ t.h \in Houses /\ t.seen \in SubRow /\ t.paid \in Nat
  BY <1>1, <1>2 DEF RequestsTyped, TxnRow
<1>4. PICK cash, stored :
        LET object == Activated(t.seen, PaidPeriod(t, cash)) IN
        /\ cash \in BOOLEAN /\ stored \in Stored(t, PaidPeriod(t, cash))
        /\ sub' = [sub EXCEPT ![t.h] = OrmUpdate(@, t.seen, object)]
        /\ bought' = [bought EXCEPT ![t.h] = OtherPaid(t) \cup {stored}]
        /\ Continue(p, "committed", [t EXCEPT !.seen = object])
  BY DEF PayCommit
<1> DEFINE period == PaidPeriod(t, cash)
           object == Activated(t.seen, period)
           row == OrmUpdate(sub[t.h], t.seen, object)
           session == [t EXCEPT !.seen = object]
           paid == OtherPaid(t) \cup {stored}
<1>5. stored \in Stored(t, period) /\ period \in Period
  <2>1. cash \in BOOLEAN /\ stored \in Stored(t, period)
    BY <1>4
  <2> QED
    BY <1>1, <1>3, <2>1, PaidTyped
<1>6. object \in SubRow
  BY <1>3, <1>5, ActivatedTyped
<1>7. row \in SubRow
  BY <1>1, <1>3, <1>6, OrmSub DEF TablesTyped
<1>8. session \in TxnRow
  BY <1>3, <1>6 DEF TxnRow
<1>9. paid \subseteq Period /\ IsFiniteSet(paid)
  BY <1>1, <1>3, <1>5, StoredTyped DEF TablesTyped
<1>10. (open[t.h] /\ PaidSince(t)) \in BOOLEAN
  OBVIOUS
<1>11. /\ sub' = [sub EXCEPT ![t.h] = row]
       /\ bought' = [bought EXCEPT ![t.h] = paid]
       /\ open' = [open EXCEPT ![t.h] = @ /\ PaidSince(t)]
       /\ Continue(p, "committed", session)
       /\ UNCHANGED <<house, closed>>
  BY <1>4 DEF PayCommit
<1> HIDE DEF t, period, object, row, session, paid
<1>12. RunnerTyped' /\ RequestsTyped' /\ WorldTyped'
  BY <1>1, <1>2, <1>8, <1>11, Continued
<1>13. sub' \in [Houses -> SubRow]
  BY <1>1, <1>7, <1>11 DEF TablesTyped
<1>14. bought' \in [Houses -> SUBSET Period] /\ \A h \in Houses : IsFiniteSet(bought'[h])
  BY <1>1, <1>9, <1>11 DEF TablesTyped
<1>15. open' \in [Houses -> BOOLEAN]
  BY <1>1, <1>10, <1>11, Zenon DEF TablesTyped
<1>16. TablesTyped'
  BY <1>1, <1>11, <1>13, <1>14, <1>15 DEF TablesTyped
<1> QED
  BY <1>12, <1>16, InvPartsNext

(* A payment that finds its invoice paid.                                  *)
LEMMA RefusedTyped ==
  ASSUME TypeInv, LifecycleAssumption, Houses # {}, NEW p \in Payers, PayRefused(p)
  PROVE  TypeInv'
<1>1. TypeOK /\ TablesTyped /\ RunnerTyped /\ RequestsTyped /\ WorldTyped
  BY InvParts DEF TypeInv
<1>2. p \in Requests /\ Finish(p) /\ UNCHANGED tables
  BY DEF Requests, PayRefused
<1> QED
  BY <1>1, <1>2, Finished, SameTables, InvPartsNext

(* pause, resume, cancel, set_status and extend_period_days.               *)
LEMMA EditTyped ==
  ASSUME TypeInv, LifecycleAssumption, Houses # {}, NEW r \in Members \cup Admins, EditCommit(r)
  PROVE  TypeInv'
<1> DEFINE t == txn[r]
           object == Edited(t.seen, t.op)
           row == OrmUpdate(sub[t.h], t.seen, object)
           session == [t EXCEPT !.seen = IF r \in Members THEN row ELSE object]
<1>1. TypeOK /\ TablesTyped /\ RunnerTyped /\ RequestsTyped /\ WorldTyped
  BY InvParts DEF TypeInv
<1>2. r \in Requests
  BY DEF Requests
<1>3. /\ pc[r] = "loaded"
      /\ sub' = [sub EXCEPT ![t.h] = row]
      /\ IF t.op = "extend" THEN Finish(r) ELSE Continue(r, "committed", session)
      /\ UNCHANGED <<house, open, bought, closed>>
  BY DEF EditCommit
<1>4. t \in TxnRow /\ t.h \in Houses /\ t.seen \in SubRow /\ t.op \in EditOps
  BY <1>1, <1>2, <1>3 DEF RequestsTyped, TxnRow
<1>5. object \in SubRow
  BY <1>1, <1>4, EditedTyped
<1>6. row \in SubRow
  BY <1>1, <1>4, <1>5, OrmSub DEF TablesTyped
<1>7. session \in TxnRow
  BY <1>4, <1>5, <1>6 DEF TxnRow
<1> HIDE DEF t, object, row, session
<1>8. RunnerTyped' /\ RequestsTyped' /\ WorldTyped'
  <2>1. CASE t.op = "extend"
    BY <1>1, <1>2, <1>3, <2>1, Finished
  <2>2. CASE t.op # "extend"
    BY <1>1, <1>2, <1>3, <1>7, <2>2, Continued
  <2> QED
    BY <2>1, <2>2
<1>9. TablesTyped'
  BY <1>1, <1>3, <1>4, <1>6 DEF TablesTyped
<1> QED
  BY <1>8, <1>9, InvPartsNext

(* The house is brought in line after a payment or an edit.                *)
LEMMA SyncTyped ==
  ASSUME TypeInv, Houses # {}, NEW r \in Requests, PaySync(r) \/ EditSync(r)
  PROVE  TypeInv'
<1> DEFINE t == txn[r]
<1>1. TablesTyped /\ RunnerTyped /\ RequestsTyped /\ WorldTyped
  BY InvParts
<1>2. t.h \in Houses /\ t.house \in HouseRow /\ house[t.h] \in HouseRow
  BY <1>1 DEF RequestsTyped, TxnRow, TablesTyped
<1>3. Finish(r) /\ UNCHANGED <<sub, open, bought, closed>>
  BY DEF PaySync, EditSync
<1>4. \E seen \in {t.house, house[t.h]} : \E row : SyncHouse(t.h, seen, row)
  BY DEF PaySync, EditSync
<1>5. house' \in [Houses -> HouseRow]
  BY <1>2, <1>4, HouseSynced
<1>6. TablesTyped'
  BY <1>1, <1>3, <1>5 DEF TablesTyped
<1> QED
  BY <1>1, <1>3, <1>6, Finished, InvPartsNext

(* update_house.                                                           *)
LEMMA HouseEditTyped ==
  ASSUME TypeInv, Houses # {}, NEW e \in HouseEdits, HouseEditCommit(e)
  PROVE  TypeInv'
<1> DEFINE t == txn[e]
           edited == [t.house EXCEPT !.active = (t.op = "on")]
           row == OrmUpdate(house[t.h], t.house, edited)
<1>1. TablesTyped /\ RunnerTyped /\ RequestsTyped /\ WorldTyped
  BY InvParts
<1>2. e \in Requests
  BY DEF Requests
<1>3. t.h \in Houses /\ t.house \in HouseRow /\ house[t.h] \in HouseRow
  BY <1>1, <1>2 DEF RequestsTyped, TxnRow, TablesTyped
<1>4. edited \in HouseRow
  <2>1. (t.op = "on") \in BOOLEAN
    OBVIOUS
  <2> QED
    BY <1>3, <2>1 DEF HouseRow
<1>5. row \in HouseRow
  BY <1>3, <1>4, OrmHouse
<1>6. /\ house' = [house EXCEPT ![t.h] = row]
      /\ closed' = [closed EXCEPT ![t.h] = IF row.active = house[t.h].active THEN @
                                           ELSE ~row.active]
      /\ Finish(e)
      /\ UNCHANGED <<sub, open, bought>>
  BY DEF HouseEditCommit
<1> HIDE DEF t, edited, row
<1>7. row.active \in BOOLEAN
  BY <1>5 DEF HouseRow
<1>8. closed' \in [Houses -> BOOLEAN]
  <2>1. (~row.active) \in BOOLEAN
    BY <1>7
  <2> QED
    BY <1>1, <1>3, <1>6, <2>1 DEF TablesTyped
<1>9. TablesTyped'
  BY <1>1, <1>5, <1>6, <1>8 DEF TablesTyped
<1> QED
  BY <1>1, <1>2, <1>6, <1>9, Finished, InvPartsNext

(* renew_subscription opens the next invoice.                              *)
LEMMA RenewTyped ==
  ASSUME TypeInv, NEW h \in Houses, RenewRequest(h)
  PROVE  TypeInv'
<1>1. TablesTyped /\ RunnerTyped /\ RequestsTyped /\ WorldTyped
  BY InvParts
<1>2. open' \in [Houses -> BOOLEAN]
  BY <1>1 DEF TablesTyped, RenewRequest
<1>3. TablesTyped'
  BY <1>1, <1>2 DEF TablesTyped, RenewRequest
<1> QED
  BY <1>1, <1>3, SameRunner, SameRequests, SameWorld, InvPartsNext DEF RenewRequest

(* Every way a request comes.                                              *)
LEMMA ArriveTyped ==
  ASSUME TypeInv, Arrive
  PROVE  TypeInv'
<1>1. ASSUME NEW p \in Payers, NEW h \in Houses, PayLoad(p, h)
      PROVE  TypeInv'
  <2>1. p \in Requests /\ p \notin Members \cup Admins /\ Load(p, h, "pay") /\ "pay" \in Ops
    BY <1>1, KindsAssumption DEF PayLoad, Requests, Ops
  <2> QED
    BY <2>1, Loaded
<1>2. ASSUME NEW m \in Members, NEW h \in Houses, NEW op \in {"pause", "resume", "cancel"},
             MemberLoad(m, h, op)
      PROVE  TypeInv'
  <2>1. m \in Requests /\ Load(m, h, op) /\ op \in Ops /\ op \in EditOps
    BY <1>2 DEF MemberLoad, Requests, Ops, EditOps
  <2> QED
    BY <2>1, Loaded
<1>3. ASSUME NEW o \in Overrides, NEW h \in Houses, NEW status \in Statuses,
             OverrideLoad(o, h, status)
      PROVE  TypeInv'
  <2>1. o \in Requests /\ Load(o, h, status) /\ status \in Ops /\ status \in EditOps
    BY <1>3 DEF OverrideLoad, Requests, Admins, Ops, EditOps
  <2> QED
    BY <2>1, Loaded
<1>4. ASSUME NEW e \in Extensions, NEW h \in Houses, ExtendLoad(e, h)
      PROVE  TypeInv'
  <2>1. e \in Requests /\ Load(e, h, "extend") /\ "extend" \in Ops /\ "extend" \in EditOps
    BY <1>4 DEF ExtendLoad, Requests, Admins, Ops, EditOps
  <2> QED
    BY <2>1, Loaded
<1>5. ASSUME NEW e \in HouseEdits, NEW h \in Houses, NEW active \in BOOLEAN,
             HouseEditLoad(e, h, active)
      PROVE  TypeInv'
  <2> DEFINE op == IF active THEN "on" ELSE "off"
  <2>1. e \in Requests /\ e \notin Members \cup Admins /\ Load(e, h, op) /\ op \in Ops
    BY <1>5, KindsAssumption DEF HouseEditLoad, Requests, Ops
  <2> QED
    BY <2>1, Loaded
<1> QED
  BY <1>1, <1>2, <1>3, <1>4, <1>5 DEF Arrive

(* Every way it goes on.                                                   *)
LEMMA AdvanceTyped ==
  ASSUME TypeInv, LifecycleAssumption, Houses # {}, NEW r \in Requests, Advance(r)
  PROVE  TypeInv'
  BY PayTyped, RefusedTyped, SyncTyped, EditTyped, HouseEditTyped DEF Advance

-----------------------------------------------------------------------------
(* Types: the runner                                                       *)

(* A flush changes the object and the uncommitted row of one house and     *)
(* takes it off the list.                                                  *)
LEMMA Flushed ==
  ASSUME TypeOK, NEW h \in Houses, runner.object[h] # Absent, NEW object \in SubRow,
         NEW group \in RunnerSteps, Flush(h, object, group)
  PROVE  /\ runner' \in RunnerRow
         /\ runner'.step = group /\ runner'.clock = runner.clock
         /\ runner'.todo = runner.todo \ {h}
         /\ runner'.object = [runner.object EXCEPT ![h] = object]
         /\ runner'.draft = [runner.draft EXCEPT
                               ![h] = OrmUpdate(RunnerSees(h), runner.object[h], object)]
         /\ runner.object[h] \in SubRow
         /\ OrmUpdate(RunnerSees(h), runner.object[h], object) \in SubRow
<1> DEFINE row == OrmUpdate(RunnerSees(h), runner.object[h], object)
           objects == [runner.object EXCEPT ![h] = object]
           drafts == [runner.draft EXCEPT ![h] = row]
<1>1. runner \in RunnerRow
  BY DEF TypeOK, RunnerRow
<1>2. runner.object[h] \in SubRow
  BY RunnerFields
<1>3. row \in SubRow
  BY <1>2, SeesRow, OrmSub
<1>4. runner' = [runner EXCEPT !.step = group, !.todo = @ \ {h}, !.object = objects,
                               !.draft = drafts]
  BY <1>1 DEF Flush, RunnerRow
<1> HIDE DEF row
<1>5. objects \in [Houses -> SubRow \cup {Absent}] /\ drafts \in [Houses -> SubRow \cup {Absent}]
  BY <1>3, RunnerFields
<1> HIDE DEF objects, drafts
<1>6. /\ runner' \in RunnerRow
      /\ runner'.step = group /\ runner'.clock = runner.clock
      /\ runner'.todo = runner.todo \ {h}
      /\ runner'.object = objects /\ runner'.draft = drafts
  BY <1>1, <1>4, <1>5 DEF RunnerRow
<1> QED
  BY <1>2, <1>3, <1>6 DEF row, objects, drafts

(* So the cycle stays a cycle.                                             *)
LEMMA FlushTyped ==
  ASSUME TypeInv, NEW h \in runner.todo, NEW object \in SubRow,
         NEW group \in RunnerSteps \ {"mark"}, Flush(h, object, group)
  PROVE  RunnerTyped'
<1>1. TypeOK /\ h \in Houses /\ runner.object[h] # Absent
  BY RunnerFields DEF TypeInv
<1>2. /\ runner' \in RunnerRow /\ runner'.step = group
      /\ runner'.todo = runner.todo \ {h}
      /\ runner'.object = [runner.object EXCEPT ![h] = object]
  BY <1>1, Flushed
<1>3. \A g \in runner.todo \ {h} : runner'.object[g] # Absent
  BY <1>1, <1>2, RunnerFields DEF TypeInv
<1> QED
  BY <1>2, <1>3 DEF RunnerTyped

(* A group is selected: its due houses are listed, and the session loads   *)
(* those it does not hold yet.                                             *)
LEMMA Entered ==
  ASSUME TypeOK, NEW group \in Groups, NEW clock \in Nat, Enter(group, clock)
  PROVE  /\ runner' \in RunnerRow
         /\ runner'.step = group /\ runner'.clock = clock
         /\ runner'.todo = {h \in Houses : Due(group, h, RunnerSees(h), clock)}
         /\ runner'.object = [h \in Houses |->
                                IF h \in runner'.todo /\ runner.object[h] = Absent
                                THEN RunnerSees(h) ELSE runner.object[h]]
         /\ runner'.draft = runner.draft
         /\ \A h \in runner'.todo : runner'.object[h] # Absent
<1> DEFINE due == {h \in Houses : Due(group, h, RunnerSees(h), clock)}
           objects == [h \in Houses |-> IF h \in due /\ runner.object[h] = Absent
                                        THEN RunnerSees(h) ELSE runner.object[h]]
<1>1. runner \in RunnerRow
  BY DEF TypeOK, RunnerRow
<1>2. runner' = [runner EXCEPT !.step = group, !.clock = clock, !.todo = due, !.object = objects]
  BY <1>1 DEF Enter, RunnerRow
<1>3. due \subseteq Houses
  OBVIOUS
<1>4. objects \in [Houses -> SubRow \cup {Absent}]
  <2>1. \A h \in Houses : RunnerSees(h) \in SubRow /\ runner.object[h] \in SubRow \cup {Absent}
    BY SeesRow, RunnerFields
  <2> HIDE DEF due
  <2> QED
    BY <2>1
<1>5. \A h \in due : objects[h] # Absent
  <2>1. \A h \in Houses : RunnerSees(h) # Absent
    BY SeesRow, Rows
  <2> HIDE DEF due
  <2> QED
    BY <1>3, <2>1
<1> HIDE DEF due, objects
<1>6. group \in RunnerSteps
  BY DEF RunnerSteps
<1>7. /\ runner' \in RunnerRow
      /\ runner'.step = group /\ runner'.clock = clock
      /\ runner'.todo = due /\ runner'.object = objects /\ runner'.draft = runner.draft
  BY <1>1, <1>2, <1>3, <1>4, <1>6 DEF RunnerRow
<1> QED
  BY <1>5, <1>7 DEF due, objects

(* So the cycle stays a cycle.                                             *)
LEMMA EnterTyped ==
  ASSUME TypeInv, NEW group \in Groups, NEW clock \in Nat, Enter(group, clock)
  PROVE  RunnerTyped'
<1>1. /\ runner' \in RunnerRow /\ runner'.step = group
      /\ \A h \in runner'.todo : runner'.object[h] # Absent
  BY Entered DEF TypeInv
<1>2. group # "mark"
  BY DEF Groups
<1> QED
  BY <1>1, <1>2 DEF RunnerTyped

(* A cycle that ends or dies leaves nothing.                               *)
LEMMA IdleAgain ==
  ASSUME Houses # {}, runner' = Idle
  PROVE  RunnerTyped'
<1>1. Idle \in RunnerRow /\ Idle.todo = {} /\ Idle.step # "mark"
  BY IdleTyped DEF RunnerRow
<1> QED
  BY <1>1 DEF RunnerTyped

(* renew_period, called by the cycle: one paid period that starts at or    *)
(* after the end the session knows becomes the current one, and everything *)
(* the cycle has changed is committed.                                     *)
LEMMA Rolled ==
  ASSUME TypeInv, NEW h \in Houses, LookForPaidPeriod(h), PaidNext(h) # {}
  PROVE  \E q \in PaidNext(h), row \in SubRow :
           /\ q \in Period /\ q \in bought[h] /\ q.start >= runner.object[h].end
           /\ h \in runner.todo /\ runner.object[h] \in SubRow
           /\ row = OrmUpdate(RunnerSees(h), runner.object[h], Activated(runner.object[h], q))
           /\ sub' = [g \in Houses |-> IF g = h THEN row ELSE RunnerSees(g)]
           /\ runner' \in RunnerRow
           /\ runner'.step = "rolled" /\ runner'.clock = runner.clock
           /\ runner'.todo = runner.todo \ {h}
           /\ runner'.object = [runner.object EXCEPT ![h] = row]
           /\ runner'.draft = [g \in Houses |-> Absent]
<1> DEFINE rolled(q) == OrmUpdate(RunnerSees(h), runner.object[h], Activated(runner.object[h], q))
<1>1. runner \in RunnerRow /\ h \in runner.todo /\ runner.object[h] \in SubRow
  BY RunnerFields DEF TypeInv, TypeOK, RunnerRow, LookForPaidPeriod
<1>2. PICK q \in PaidNext(h) :
        /\ sub' = [g \in Houses |-> IF g = h THEN rolled(q) ELSE RunnerSees(g)]
        /\ runner' = [runner EXCEPT !.step = "rolled", !.at = h, !.todo = @ \ {h},
                            !.object[h] = sub'[h], !.draft = Idle.draft]
  BY DEF LookForPaidPeriod
<1>3. q \in Period /\ q \in bought[h] /\ q.start >= runner.object[h].end
  BY DEF PaidNext, TypeInv, TypeOK
<1>4. RunnerSees(h) \in SubRow
  BY SeesRow DEF TypeInv
<1>5. rolled(q) \in SubRow
  BY <1>1, <1>3, <1>4, ActivatedTyped, OrmSub
<1>6. PICK row \in SubRow : row = rolled(q)
  BY <1>5
<1>7. sub' = [g \in Houses |-> IF g = h THEN row ELSE RunnerSees(g)]
  BY <1>2, <1>6
<1>8. sub'[h] = row
  BY <1>7
<1>9. PICK drafts : drafts = [g \in Houses |-> Absent]
  OBVIOUS
<1>10. Idle.draft = drafts
  BY <1>9 DEF Idle
<1>11. PICK objects : objects = [runner.object EXCEPT ![h] = row]
  OBVIOUS
<1>12. PICK todo : todo = runner.todo \ {h}
  OBVIOUS
<1> HIDE DEF rolled
<1>13. runner' = [runner EXCEPT !.step = "rolled", !.at = h, !.todo = todo, !.object = objects,
                                !.draft = drafts]
  BY <1>1, <1>2, <1>8, <1>10, <1>11, <1>12 DEF RunnerRow
<1>14. /\ todo \in SUBSET Houses /\ objects \in [Houses -> SubRow \cup {Absent}]
       /\ drafts \in [Houses -> SubRow \cup {Absent}]
  BY <1>1, <1>9, <1>11, <1>12, RunnerFields DEF TypeInv
<1>15. /\ runner' \in RunnerRow
       /\ runner'.step = "rolled" /\ runner'.clock = runner.clock /\ runner'.at = h
       /\ runner'.todo = todo /\ runner'.object = objects /\ runner'.draft = drafts
  <2>1. "rolled" \in RunnerSteps
    BY DEF RunnerSteps
  <2> QED
    BY <1>1, <1>13, <1>14, <2>1 DEF RunnerRow
<1>16. row = OrmUpdate(RunnerSees(h), runner.object[h], Activated(runner.object[h], q))
  BY <1>6 DEF rolled
<1> QED
  BY <1>1, <1>3, <1>7, <1>9, <1>11, <1>12, <1>15, <1>16

(* _process_past_due up to the mark.                                       *)
LEMMA LookTyped ==
  ASSUME TypeInv, NEW h \in Houses, LookForPaidPeriod(h)
  PROVE  TypeInv'
<1>1. TypeOK /\ TablesTyped /\ RunnerTyped /\ RequestsTyped /\ WorldTyped
  BY InvParts DEF TypeInv
<1>2. h \in runner.todo /\ runner.object[h] # Absent
  BY <1>1 DEF LookForPaidPeriod, RunnerTyped
<1>3. UNCHANGED <<house, open, bought, closed, pc, txn, world>>
  BY DEF LookForPaidPeriod
<1>4. RequestsTyped' /\ WorldTyped'
  BY <1>1, <1>3, SameRequests, SameWorld
<1>5. CASE PaidNext(h) = {}
  <2>1. runner' = [runner EXCEPT !.step = "mark", !.at = h] /\ sub' = sub
    BY <1>5 DEF LookForPaidPeriod
  <2>2. RunnerTyped'
    BY <1>1, <1>2, <2>1 DEF RunnerTyped, RunnerRow, RunnerSteps
  <2>3. TablesTyped'
    BY <1>1, <1>3, <2>1 DEF TablesTyped
  <2> QED
    BY <1>4, <2>2, <2>3, InvPartsNext
<1>6. CASE PaidNext(h) # {}
  <2>3. PICK row \in SubRow :
        /\ sub' = [g \in Houses |-> IF g = h THEN row ELSE RunnerSees(g)]
        /\ runner' \in RunnerRow /\ runner'.step = "rolled"
        /\ runner'.todo = runner.todo \ {h}
        /\ runner'.object = [runner.object EXCEPT ![h] = row]
    BY <1>6, Rolled
  <2>1. sub' \in [Houses -> SubRow]
    BY <1>1, <2>3, SeesRow
  <2>4. \A g \in runner.todo \ {h} : runner'.object[g] # Absent
    BY <1>1, <2>3, RunnerFields DEF RunnerTyped
  <2>5. RunnerTyped'
    BY <2>3, <2>4 DEF RunnerTyped
  <2>6. TablesTyped'
    BY <1>1, <1>3, <2>1 DEF TablesTyped
  <2> QED
    BY <1>4, <2>5, <2>6, InvPartsNext
<1> QED
  BY <1>5, <1>6

(* The changes the groups make to an object leave a row.                   *)
LEMMA ToldTyped ==
  ASSUME NEW o \in SubRow
  PROVE  /\ [o EXCEPT !.told = TRUE] \in SubRow
         /\ [o EXCEPT !.status = "expired"] \in SubRow
         /\ [o EXCEPT !.status = "active", !.resume = Null] \in SubRow
         /\ \A t \in Nat : [o EXCEPT !.status = "past_due", !.grace = t] \in SubRow
<1>1. [o EXCEPT !.told = TRUE] \in SubRow
  <2>1. \A b \in BOOLEAN : [o EXCEPT !.told = b] \in SubRow
    BY DEF SubRow
  <2>2. TRUE \in BOOLEAN
    OBVIOUS
  <2> QED
    BY <2>1, <2>2, Zenon
<1>2. \A s \in Statuses : [o EXCEPT !.status = s] \in SubRow
  BY DEF SubRow
<1>3. \A s \in Statuses, t \in Nat : [o EXCEPT !.status = s, !.resume = t] \in SubRow
  BY DEF SubRow
<1>4. \A s \in Statuses, t \in Nat : [o EXCEPT !.status = s, !.grace = t] \in SubRow
  BY DEF SubRow
<1>5. {"expired", "active", "past_due"} \subseteq Statuses
  BY DEF Statuses
<1>9. Null \in Nat
  OBVIOUS
<1>6. [o EXCEPT !.status = "expired"] \in SubRow
  BY <1>2, <1>5
<1>7. [o EXCEPT !.status = "active", !.resume = Null] \in SubRow
  BY <1>3, <1>5, <1>9
<1>8. \A t \in Nat : [o EXCEPT !.status = "past_due", !.grace = t] \in SubRow
  BY <1>4, <1>5
<1> QED
  BY <1>1, <1>6, <1>7, <1>8, Zenon

(* A listed house has a row in the session.                                *)
LEMMA HeldRow ==
  ASSUME TypeInv, NEW h \in runner.todo
  PROVE  h \in Houses /\ runner.object[h] \in SubRow
  BY RunnerFields DEF TypeInv

(* The end of a cycle: its commit and sync_house_billing_state.            *)
LEMMA SweepTyped ==
  ASSUME TypeInv, Houses # {}, CommitCycle \/ JudgeHouses \/ ReadHouses \/ SyncHouses \/ SyncRolled
  PROVE  TypeInv'
<1>1. TypeOK /\ TablesTyped /\ RunnerTyped /\ RequestsTyped /\ WorldTyped
  BY InvParts DEF TypeInv
<1>2. runner \in RunnerRow /\ \A h \in runner.todo : runner.object[h] # Absent
  BY <1>1 DEF RunnerTyped
<1>3. CASE CommitCycle
  <2>1. [h \in Houses |-> RunnerSees(h)] \in [Houses -> SubRow]
    BY <1>1, SeesRow
  <2>2. TablesTyped'
    BY <1>1, <1>3, <2>1 DEF CommitCycle, TablesTyped
  <2>3. PICK drafts \in [Houses -> {Absent}] : drafts = Idle.draft
    BY DEF Idle
  <2>4. runner' = [runner EXCEPT !.step = "judge", !.draft = drafts]
    BY <1>3, <2>3 DEF CommitCycle
  <2>5. drafts \in [Houses -> SubRow \cup {Absent}]
    BY <2>3
  <2>6. RunnerTyped'
    BY <1>2, <2>4, <2>5 DEF RunnerTyped, RunnerRow, RunnerSteps
  <2> QED
    BY <1>1, <1>3, <2>2, <2>6, SameRequests, SameWorld, InvPartsNext DEF CommitCycle
<1>4. CASE JudgeHouses
  <2>1. PICK judged \in SUBSET Houses : runner' = [runner EXCEPT !.step = "read", !.judged = judged]
    BY <1>4 DEF JudgeHouses
  <2>2. RunnerTyped'
    BY <1>2, <2>1 DEF RunnerTyped, RunnerRow, RunnerSteps
  <2> QED
    BY <1>1, <1>4, <2>2, SameTables, SameRequests, SameWorld, InvPartsNext DEF JudgeHouses
<1>5. CASE ReadHouses
  <2>1. runner' = [runner EXCEPT !.step = "write", !.houses = house]
    BY <1>5 DEF ReadHouses
  <2>2. RunnerTyped'
    BY <1>1, <1>2, <2>1 DEF RunnerTyped, RunnerRow, RunnerSteps, TablesTyped
  <2> QED
    BY <1>1, <1>5, <2>2, SameTables, SameRequests, SameWorld, InvPartsNext DEF ReadHouses
<1>6. CASE SyncHouses
  <2> DEFINE row(h) == OrmUpdate(house[h], runner.houses[h],
                                 SyncedHouse(runner.houses[h], h \in runner.judged))
  <2>1. \A h \in Houses : row(h) \in HouseRow
    BY <1>1, RunnerFields, OrmHouse, SyncedRow DEF TablesTyped
  <2>2. house' = [h \in Houses |-> row(h)]
    BY <1>6 DEF SyncHouses
  <2> HIDE DEF row
  <2>3. TablesTyped'
    BY <1>1, <1>6, <2>1, <2>2 DEF SyncHouses, TablesTyped
  <2>4. RunnerTyped'
    BY <1>6, IdleAgain DEF SyncHouses
  <2>5. WorldTyped'
    BY <1>1, <1>6, RunnerFields DEF SyncHouses, WorldTyped
  <2> QED
    BY <1>1, <1>6, <2>3, <2>4, <2>5, SameRequests, InvPartsNext DEF SyncHouses
<1>7. CASE SyncRolled
  <2>1. house' \in [Houses -> HouseRow]
    BY <1>1, <1>7, RunnerFields, HouseSynced DEF SyncRolled, TablesTyped
  <2>2. TablesTyped'
    BY <1>1, <1>7, <2>1 DEF SyncRolled, TablesTyped
  <2>3. runner' = [runner EXCEPT !.step = "past_due"]
    BY <1>7 DEF SyncRolled
  <2>4. RunnerTyped'
    BY <1>2, <2>3 DEF RunnerTyped, RunnerRow, RunnerSteps, Groups
  <2> QED
    BY <1>1, <1>7, <2>2, <2>4, SameRequests, SameWorld, InvPartsNext DEF SyncRolled
<1> QED
  BY <1>3, <1>4, <1>5, <1>6, <1>7

(* What the cycle does to one subscription of a group.                     *)
LEMMA GroupTyped ==
  ASSUME TypeInv, LifecycleAssumption, Houses # {}, NEW h \in Houses,
         IssueRenewal(h) \/ Remind(h) \/ Expire(h) \/ Resume(h) \/ MarkPastDue
  PROVE  TypeInv'
<1>1. TypeOK /\ TablesTyped /\ RunnerTyped /\ RequestsTyped /\ WorldTyped
  BY InvParts DEF TypeInv
<1>2. CASE IssueRenewal(h)
  <2>1. TablesTyped'
    <3>1. open' \in [Houses -> BOOLEAN]
      BY <1>1, <1>2 DEF IssueRenewal, TablesTyped
    <3> QED
      BY <1>1, <1>2, <3>1 DEF IssueRenewal, TablesTyped
  <2>2. runner' = [runner EXCEPT !.todo = @ \ {h}] /\ runner.step # "mark"
    BY <1>2 DEF IssueRenewal
  <2>3. RunnerTyped'
    BY <1>1, <2>2 DEF RunnerTyped, RunnerRow
  <2> QED
    BY <1>1, <1>2, <2>1, <2>3, SameRequests, SameWorld, InvPartsNext DEF IssueRenewal
<1>3. CASE Remind(h)
  <2>1. /\ h \in runner.todo /\ Flush(h, [runner.object[h] EXCEPT !.told = TRUE], "remind")
        /\ UNCHANGED <<tables, pc, txn, world>> /\ "remind" \in RunnerSteps \ {"mark"}
    BY <1>3 DEF Remind, RunnerSteps, Groups
  <2>2. RunnerTyped'
    BY <2>1, HeldRow, ToldTyped, FlushTyped
  <2> QED
    BY <1>1, <2>1, <2>2, SameTables, SameRequests, SameWorld, InvPartsNext
<1>4. CASE Expire(h)
  <2>1. /\ h \in runner.todo
        /\ Flush(h, [runner.object[h] EXCEPT !.status = "expired"], runner.step)
        /\ UNCHANGED <<tables, pc, txn, world>> /\ runner.step \in RunnerSteps \ {"mark"}
    BY <1>4 DEF Expire, RunnerSteps, Groups
  <2>2. RunnerTyped'
    BY <2>1, HeldRow, ToldTyped, FlushTyped
  <2> QED
    BY <1>1, <2>1, <2>2, SameTables, SameRequests, SameWorld, InvPartsNext
<1>5. CASE Resume(h)
  <2>1. /\ h \in runner.todo
        /\ Flush(h, [runner.object[h] EXCEPT !.status = "active", !.resume = Null], "resume")
        /\ UNCHANGED <<tables, pc, txn, world>> /\ "resume" \in RunnerSteps \ {"mark"}
    BY <1>5 DEF Resume, RunnerSteps, Groups
  <2>2. RunnerTyped'
    BY <2>1, HeldRow, ToldTyped, FlushTyped
  <2> QED
    BY <1>1, <2>1, <2>2, SameTables, SameRequests, SameWorld, InvPartsNext
<1>6. CASE MarkPastDue
  <2> DEFINE g == runner.at
             grace == runner.clock + Grace
  <2>1. /\ g \in runner.todo
        /\ Flush(g, [runner.object[g] EXCEPT !.status = "past_due", !.grace = grace], "past_due")
        /\ UNCHANGED <<tables, pc, txn, world>> /\ "past_due" \in RunnerSteps \ {"mark"}
    BY <1>1, <1>6 DEF MarkPastDue, RunnerTyped, RunnerSteps, Groups
  <2>2. grace \in Nat
    BY <1>1, RunnerFields DEF LifecycleAssumption
  <2> HIDE DEF g, grace
  <2>3. RunnerTyped'
    BY <2>1, <2>2, HeldRow, ToldTyped, FlushTyped
  <2> QED
    BY <1>1, <2>1, <2>3, SameTables, SameRequests, SameWorld, InvPartsNext
<1> QED
  BY <1>2, <1>3, <1>4, <1>5, <1>6

(* From one group to the next.                                             *)
LEMMA NextGroupTyped ==
  ASSUME TypeInv, StartCycle \/ NextGroup
  PROVE  TypeInv'
<1>1. TypeOK /\ TablesTyped /\ RunnerTyped /\ RequestsTyped /\ WorldTyped
  BY InvParts DEF TypeInv
<1>2. now \in Nat /\ runner.clock \in Nat
  BY <1>1, RunnerFields DEF WorldTyped
<1>3. UNCHANGED <<tables, pc, txn, world>>
  BY DEF StartCycle, NextGroup
<1>4. \/ \E group \in Groups, clock \in Nat : Enter(group, clock)
      \/ runner.todo = {} /\ runner' = [runner EXCEPT !.step = "commit"]
  BY <1>2 DEF StartCycle, NextGroup, Groups
<1>5. ASSUME runner.todo = {}, runner' = [runner EXCEPT !.step = "commit"]
      PROVE  RunnerTyped'
  BY <1>1, <1>5 DEF RunnerTyped, RunnerRow, RunnerSteps
<1>6. RunnerTyped'
  BY <1>4, <1>5, EnterTyped
<1> QED
  BY <1>1, <1>3, <1>6, SameTables, SameRequests, SameWorld, InvPartsNext

(* Every step keeps the types.                                             *)
LEMMA NextTyped ==
  ASSUME TypeInv, LifecycleAssumption, Houses # {}, [Next]_vars
  PROVE  TypeInv'
<1>1. TypeOK /\ TablesTyped /\ RunnerTyped /\ RequestsTyped /\ WorldTyped
  BY InvParts DEF TypeInv
<1>2. CASE Arrive
  BY <1>2, ArriveTyped
<1>3. ASSUME NEW r \in Requests, Advance(r)
      PROVE  TypeInv'
  BY <1>3, AdvanceTyped
<1>4. ASSUME NEW h \in Houses, RenewRequest(h)
      PROVE  TypeInv'
  BY <1>4, RenewTyped
<1>5. CASE Cycle
  BY <1>5, NextGroupTyped, GroupTyped, LookTyped, SweepTyped DEF Cycle
<1>6. CASE Crash
  <2>1. WorldTyped'
    BY <1>1, <1>6 DEF Crash, WorldTyped
  <2> QED
    BY <1>1, <1>6, <2>1, SameTables, SameRequests, IdleAgain, InvPartsNext DEF Crash
<1>7. CASE Tick
  <2>1. WorldTyped'
    BY <1>1, <1>7 DEF Tick, WorldTyped
  <2> QED
    BY <1>1, <1>7, <2>1, SameTables, SameRequests, SameRunner, InvPartsNext DEF Tick
<1>8. CASE UNCHANGED vars
  BY <1>1, <1>8, SameTables, SameRequests, SameRunner, SameWorld, InvPartsNext DEF vars, tables,
       world
<1> QED
  BY <1>2, <1>3, <1>4, <1>5, <1>6, <1>7, <1>8 DEF Next, Proceed

(* Every row, object and session has the columns and values it may have,   *)
(* with any number of houses, requests, crashes and days: no step of the   *)
(* runner, of a payment or of an edit stores a status or a time that is    *)
(* none. There must be a house, since the session of a request that has    *)
(* none names an arbitrary one.                                            *)
THEOREM LifecycleTyped ==
  ASSUME Houses # {}
  PROVE  Spec => []TypeOK
<1>1. Init => TypeInv
  BY InitTyped, LifecycleAssumption, KindsAssumption
<1>2. TypeInv /\ [Next]_vars => TypeInv'
  BY NextTyped, LifecycleAssumption
<1>3. TypeInv => TypeOK
  BY DEF TypeInv
<1> QED
  BY <1>1, <1>2, <1>3, PTL DEF Spec

-----------------------------------------------------------------------------
(* Paid time                                                               *)

(* The groups before the past due.                                         *)
Ahead == runner.step \in {"renew", "remind"}

(* A payment whose invoice nobody has paid since it was loaded: the one    *)
(* that will go through.                                                   *)
Current(r) == pc[r] = "loaded" /\ Cardinality(bought[txn[r].h]) = txn[r].paid

(* A paid period is one interval long.                                     *)
PeriodsWhole == \A h \in Houses : \A q \in bought[h] : q.end = q.start + Interval

(* The paid invoices are numbered, so that the next one is another.        *)
Numbered == \A h \in Houses : \A q \in bought[h] : q.no <= Cardinality(bought[h])

(* A session has counted no more paid periods than there are.              *)
Counted == \A r \in Payers : pc[r] = "loaded" => txn[r].paid <= Cardinality(bought[txn[r].h])

(* The runner never has another end than the stored one uncommitted.       *)
DraftEnd == \A h \in Houses : runner.draft[h] # Absent => runner.draft[h].end = sub[h].end

(* A first payment knows the end of the row.                               *)
SeenFirst ==
  \A r \in Payers :
    Current(r) /\ bought[txn[r].h] = {} => txn[r].seen.end = sub[txn[r].h].end

(* A later one knows an end no paid period exceeds.                        *)
SeenEnd ==
  \A r \in Payers : Current(r) => \A q \in bought[txn[r].h] : txn[r].seen.end >= q.end

(* Before the past due group, an object whose end differs from the row is  *)
(* of a subscription that is not due: it has been renewed.                 *)
HeldEnd ==
  Ahead => \A h \in Houses :
    runner.object[h] # Absent =>
      sub[h].end > runner.clock \/ sub[h].end = runner.object[h].end

(* A listed subscription is past its end as the session knows it. The      *)
(* periods bought since lie wholly ahead, and there is at most one:        *)
(* rolling forward to it loses nothing.                                    *)
ListEnd ==
  \A h \in Houses : OnList(h) =>
    /\ runner.object[h].end < runner.clock
    /\ \A q \in bought[h] : q.end > runner.object[h].end => q.start >= runner.clock
    /\ \A p, q \in bought[h] :
         p.end > runner.object[h].end /\ q.end > runner.object[h].end => p = q

(* The cycle's clock is behind the clock and not behind the previous       *)
(* cycle.                                                                  *)
ClockOK ==
  swept <= now /\ (runner.step # "idle" => swept <= runner.clock /\ runner.clock <= now)

(* A cycle starts with an empty session.                                   *)
IdleEmpty == runner.step = "idle" => \A h \in Houses : runner.object[h] = Absent

(* No extension of a period is under way.                                  *)
NotExtended == \A r \in Members \cup Admins : pc[r] = "loaded" => txn[r].op # "extend"

(* The inductive invariant behind PaidEndKept.                             *)
EndInv ==
  /\ TypeInv /\ NotExtended /\ IdleEmpty /\ PeriodsWhole /\ Numbered /\ Counted /\ DraftEnd
  /\ SeenFirst /\ SeenEnd /\ HeldEnd /\ ListEnd /\ ClockOK /\ PaidEndKept

(* The class of steps that change no end: no payment, no roll, no          *)
(* selection. Most actions are of this class.                              *)
CalmEnds ==
  /\ \A h \in Houses : sub'[h].end = sub[h].end /\ bought'[h] = bought[h]
  /\ \A r \in Requests : pc'[r] = "loaded" => pc[r] = "loaded" /\ txn'[r] = txn[r]
  /\ \A h \in Houses : runner'.draft[h] # Absent => runner'.draft[h].end = sub'[h].end
  /\ \A h \in Houses :
       OnList(h)' => /\ OnList(h) /\ runner'.clock = runner.clock
                     /\ runner'.object[h].end = runner.object[h].end
  /\ Ahead' => /\ Ahead /\ runner'.clock = runner.clock
               /\ \A h \in Houses :
                    runner'.object[h] # Absent =>
                      runner.object[h] # Absent /\ runner'.object[h].end = runner.object[h].end
  /\ ClockOK' /\ IdleEmpty'

(* The types the arithmetic of ends needs.                                 *)
LEMMA EndsTyped ==
  ASSUME TypeInv
  PROVE  /\ \A h \in Houses : sub[h] \in SubRow /\ sub[h].end \in Nat
         /\ \A h \in Houses : bought[h] \subseteq Period /\ IsFiniteSet(bought[h])
                               /\ Cardinality(bought[h]) \in Nat
         /\ \A h \in Houses : \A q \in bought[h] : q \in Period /\ q.start \in Nat /\ q.end \in Nat
         /\ \A h \in Houses : runner.object[h] # Absent =>
                               runner.object[h] \in SubRow /\ runner.object[h].end \in Nat
         /\ \A h \in Houses : runner.draft[h] # Absent =>
                               runner.draft[h] \in SubRow /\ runner.draft[h].end \in Nat
         /\ \A h \in Houses : OnList(h) => runner.object[h] # Absent
         /\ \A r \in Payers : r \in Requests /\ txn[r].h \in Houses /\ txn[r].seen \in SubRow
                               /\ txn[r].seen.end \in Nat /\ txn[r].paid \in Nat
         /\ now \in Nat /\ swept \in Nat /\ runner.clock \in Nat
<1>1. TypeOK /\ TablesTyped /\ RunnerTyped /\ RequestsTyped /\ WorldTyped
  BY InvParts DEF TypeInv
<1>2. \A row \in SubRow : row.end \in Nat
  BY DEF SubRow
<1>3. \A q \in Period : q.start \in Nat /\ q.end \in Nat
  BY DEF Period
<1>4. \A h \in Houses : sub[h] \in SubRow /\ sub[h].end \in Nat
  BY <1>1, <1>2 DEF TablesTyped
<1>5. \A h \in Houses : bought[h] \subseteq Period /\ IsFiniteSet(bought[h])
                        /\ Cardinality(bought[h]) \in Nat
  BY <1>1, FS_CardinalityType DEF TablesTyped
<1>6. \A h \in Houses : \A q \in bought[h] : q \in Period /\ q.start \in Nat /\ q.end \in Nat
  BY <1>3, <1>5
<1>7. \A h \in Houses : runner.object[h] # Absent =>
                          runner.object[h] \in SubRow /\ runner.object[h].end \in Nat
  BY <1>1, <1>2, RunnerFields
<1>8. \A h \in Houses : runner.draft[h] # Absent =>
                          runner.draft[h] \in SubRow /\ runner.draft[h].end \in Nat
  BY <1>1, <1>2, RunnerFields
<1>9. \A h \in Houses : OnList(h) => runner.object[h] # Absent
  BY <1>1 DEF RunnerTyped, OnList
<1>10. \A r \in Payers : r \in Requests /\ txn[r].h \in Houses /\ txn[r].seen \in SubRow
                         /\ txn[r].seen.end \in Nat /\ txn[r].paid \in Nat
  BY <1>1, <1>2, TxnFields DEF Requests
<1>11. now \in Nat /\ swept \in Nat /\ runner.clock \in Nat
  BY <1>1, RunnerFields DEF WorldTyped
<1> QED
  BY <1>4, <1>5, <1>6, <1>7, <1>8, <1>9, <1>10, <1>11

(* A step of the class keeps the invariant.                                *)
LEMMA CalmKeepsEnds ==
  ASSUME EndInv, TypeInv', CalmEnds
  PROVE  EndInv'
<1>0. \A r \in Payers : r \in Requests /\ txn[r].h \in Houses
  BY EndsTyped DEF EndInv
<1>9. NotExtended'
  BY DEF EndInv, NotExtended, CalmEnds, Requests
<1>1. PeriodsWhole' /\ Numbered'
  BY DEF EndInv, PeriodsWhole, Numbered, CalmEnds
<1>2. Counted'
  BY <1>0 DEF EndInv, Counted, CalmEnds
<1>3. DraftEnd'
  BY DEF DraftEnd, CalmEnds
<1>4. SeenFirst' /\ SeenEnd'
  BY <1>0 DEF EndInv, SeenFirst, SeenEnd, CalmEnds, Current
<1>5. HeldEnd'
  BY DEF EndInv, HeldEnd, CalmEnds
<1>6. ListEnd'
  BY DEF EndInv, ListEnd, CalmEnds
<1>7. PaidEndKept'
  BY DEF EndInv, PaidEndKept, CalmEnds
<1>8. ClockOK' /\ IdleEmpty'
  BY DEF CalmEnds
<1> QED
  BY <1>1, <1>2, <1>3, <1>4, <1>5, <1>6, <1>7, <1>8, <1>9 DEF EndInv

(* The end the runner sees is the stored one.                              *)
LEMMA SeesEnd ==
  ASSUME EndInv, NEW h \in Houses
  PROVE  RunnerSees(h) \in SubRow /\ RunnerSees(h).end = sub[h].end
<1>1. RunnerSees(h) \in SubRow
  BY SeesRow DEF EndInv, TypeInv
<1>2. CASE runner.draft[h] = Absent
  BY <1>1, <1>2 DEF RunnerSees
<1>3. CASE runner.draft[h] # Absent
  BY <1>1, <1>3 DEF RunnerSees, EndInv, DraftEnd
<1> QED
  BY <1>2, <1>3

(* By the premise, only a payment that is up to date goes through.         *)
LEMMA PaysCurrent ==
  ASSUME TypeOK, Undoubled, NEW p \in Payers, PayCommit(p)
  PROVE  Current(p)
<1>1. pc[p] = "loaded" /\ \E session : Continue(p, "committed", session)
  BY DEF PayCommit
<1>2. pc'[p] = "committed"
  BY <1>1 DEF Continue, TypeOK, Requests
<1> QED
  BY <1>1, <1>2 DEF Undoubled, PaidSince, Current

(* A payment that goes through buys a period that ends after every other,  *)
(* and stores its end: a stale session is ruled out by the number of paid  *)
(* periods it counted. No row of the runner is uncommitted at that moment. *)
LEMMA PaidFor ==
  ASSUME EndInv, LifecycleAssumption, NEW p \in Payers, PayCommit(p), Current(p),
         NEW h, h = txn[p].h
  PROVE  \E period, object :
         /\ object = Activated(txn[p].seen, period)
         /\ period \in Period /\ period.end = period.start + Interval /\ period.start >= now
         /\ period.no = Cardinality(bought[h]) + 1
         /\ object \in SubRow
         /\ sub' = [sub EXCEPT ![h] = OrmUpdate(@, txn[p].seen, object)]
         /\ sub'[h].end = period.end
         /\ bought' = [bought EXCEPT ![h] = @ \cup {period}]
         /\ \A q \in bought[h] : q.end < period.end
         /\ period \notin bought[h]
         /\ Cardinality(bought'[h]) = Cardinality(bought[h]) + 1
         /\ runner.draft[h] = Absent
         /\ UNCHANGED <<runner, world>>
         /\ \A r \in Requests : pc'[r] = "loaded" => /\ pc[r] = "loaded" /\ txn'[r] = txn[r]
                                                      /\ r # p
<1> DEFINE t == txn[p]
           seen == txn[p].seen
<1>a. /\ TypeInv /\ TypeOK /\ h \in Houses /\ seen \in SubRow /\ p \in Requests
      /\ t.paid \in Nat /\ t.paid = Cardinality(bought[h]) /\ bought[h] \subseteq Period
  BY EndsTyped DEF EndInv, TypeInv, Current
<1>b. PICK cash, stored :
        LET object == Activated(seen, PaidPeriod(t, cash)) IN
        /\ cash \in BOOLEAN /\ stored \in Stored(t, PaidPeriod(t, cash))
        /\ sub' = [sub EXCEPT ![h] = OrmUpdate(@, seen, object)]
        /\ bought' = [bought EXCEPT ![h] = OtherPaid(t) \cup {stored}]
        /\ Continue(p, "committed", [t EXCEPT !.seen = object])
  BY DEF PayCommit
<1> DEFINE period == PaidPeriod(t, cash)
           object == Activated(seen, period)
           row == OrmUpdate(sub[h], seen, object)
<1>c. OtherPaid(t) = bought[h]
  <2>1. \A q \in bought[h] : q.no # t.paid + 1
    <3> TAKE q \in bought[h]
    <3>1. q.no \in Nat /\ q.no <= t.paid
      BY <1>a DEF EndInv, Numbered, Period
    <3> QED
      BY <1>a, <3>1
  <2> QED
    BY <2>1 DEF OtherPaid
<1>1. TypeInv /\ TypeOK /\ h \in Houses /\ seen \in SubRow /\ p \in Requests
  BY <1>a
<1>2. /\ period \in Period /\ period.end = period.start + Interval
      /\ period.start \in {now, seen.end} /\ period.start >= now
      /\ seen.end > now /\ bought[h] # {} => period.start = seen.end
      /\ period.no = Cardinality(bought[h]) + 1
  <2>1. cash \in BOOLEAN
    BY <1>b
  <2> QED
    BY <1>a, <1>c, <2>1, PaidTyped
<1> HIDE DEF period
<1>d. stored = period
  <2>1. bought[t.h] \ OtherPaid(t) = {}
    BY <1>c
  <2>2. stored \in Stored(t, period)
    BY <1>b DEF period
  <2> QED
    BY <1>2, <2>1, <2>2, StoredAlone
<1>3. /\ object \in SubRow /\ object.end = period.end
  BY <1>1, <1>2, ActivatedTyped
<1>4. /\ runner.draft[h] = Absent
      /\ sub' = [sub EXCEPT ![h] = row]
      /\ bought' = [bought EXCEPT ![h] = @ \cup {period}]
      /\ \E session : Continue(p, "committed", session)
  BY <1>b, <1>c, <1>d DEF PayCommit, RowFree, period
<1>5. /\ now \in Nat /\ seen.end \in Nat /\ sub[h].end \in Nat /\ Interval \in Nat /\ Interval > 0
      /\ sub[h] \in SubRow
      /\ \A q \in bought[h] : q.end \in Nat
      /\ period.start \in Nat /\ period.end \in Nat
  <2>1. period.start \in Nat /\ period.end \in Nat
    BY <1>2 DEF Period
  <2> QED
    BY <1>1, <2>1, EndsTyped DEF LifecycleAssumption
<1>6. \A q \in bought[h] : q.end < period.end
  <2> TAKE q \in bought[h]
  <2>1. seen.end >= q.end
    BY DEF EndInv, SeenEnd
  <2>2. CASE seen.end > now
    BY <1>2, <1>5, <2>1, <2>2
  <2>3. CASE ~(seen.end > now)
    BY <1>2, <1>5, <2>1, <2>3
  <2> QED
    BY <2>2, <2>3
<1>7. row.end = period.end
  <2>1. row.end = IF object.end = seen.end THEN sub[h].end ELSE object.end
    BY <1>1, <1>3, <1>5, OrmSub
  <2>2. CASE period.end # seen.end
    BY <1>3, <2>1, <2>2
  <2>3. CASE period.end = seen.end
    <3>1. seen.end > now /\ period.start # seen.end
      BY <1>2, <1>5, <2>3
    <3>2. bought[h] = {}
      BY <1>2, <3>1
    <3>3. seen.end = sub[h].end
      BY <3>2 DEF EndInv, SeenFirst
    <3> QED
      BY <1>3, <2>1, <2>3, <3>3
  <2> QED
    BY <2>2, <2>3
<1>8. period \notin bought[h]
  BY <1>5, <1>6
<1>9. sub'[h] = row /\ bought'[h] = bought[h] \cup {period}
  BY <1>1, <1>4 DEF TypeOK
<1>10. Cardinality(bought'[h]) = Cardinality(bought[h]) + 1
  <2>1. IsFiniteSet(bought[h])
    BY <1>1, EndsTyped
  <2>2. Cardinality(bought[h] \cup {period}) = Cardinality(bought[h]) + 1
    BY <1>8, <2>1, FS_AddElement
  <2> QED
    BY <1>9, <2>2
<1>11. /\ UNCHANGED <<runner, world>>
       /\ \A r \in Requests : pc'[r] = "loaded" => pc[r] = "loaded" /\ txn'[r] = txn[r] /\ r # p
  <2>1. pc \in [Requests -> {"new", "loaded", "committed", "done"}] /\ Payers \subseteq Requests
    BY <1>1 DEF TypeOK, Requests
  <2>2. PICK session : Continue(p, "committed", session)
    BY <1>4
  <2>3. /\ UNCHANGED <<runner, world>>
        /\ pc' = [pc EXCEPT ![p] = "committed"] /\ txn' = [txn EXCEPT ![p] = session]
    BY <2>2 DEF Continue
  <2> QED
    BY <1>1, <2>1, <2>3 DEF TypeOK
<1> QED
  BY <1>2, <1>3, <1>4, <1>6, <1>7, <1>8, <1>9, <1>10, <1>11

(* A request that has just read its rows is up to date.                    *)
LEMMA LoadEnds ==
  ASSUME EndInv, TypeInv', NEW r \in Requests, NEW h \in Houses, NEW op,
         r \in Members \cup Admins => op # "extend", Load(r, h, op)
  PROVE  EndInv'
<1> DEFINE session == [h |-> h, op |-> op, seen |-> sub[h], house |-> house[h],
                       paid |-> Cardinality(bought[h])]
<1>1. /\ pc' = [pc EXCEPT ![r] = "loaded"] /\ txn' = [txn EXCEPT ![r] = session]
      /\ UNCHANGED <<runner, world, tables>>
  BY DEF Load, Continue
<1>2. TypeInv /\ TypeOK /\ PaidEndKept
  BY DEF EndInv, TypeInv
<1>3. ASSUME NEW p \in Payers
      PROVE  \/ p = r /\ pc'[p] = "loaded" /\ txn'[p] = session
             \/ p # r /\ pc'[p] = pc[p] /\ txn'[p] = txn[p] /\ txn[p].h \in Houses
  BY <1>1, <1>2, EndsTyped DEF TypeOK
<1>4. /\ session.h = h /\ session.seen = sub[h] /\ session.paid = Cardinality(bought[h])
      /\ session.op = op
  OBVIOUS
<1>5. Cardinality(bought[h]) <= Cardinality(bought[h])
  BY <1>2, EndsTyped
<1> HIDE DEF session
<1>6. Counted'
  BY <1>1, <1>3, <1>4, <1>5 DEF EndInv, Counted, tables
<1>7. SeenFirst'
  BY <1>1, <1>3, <1>4 DEF EndInv, SeenFirst, Current, tables
<1>8. SeenEnd'
  BY <1>1, <1>2, <1>3, <1>4 DEF EndInv, SeenEnd, PaidEndKept, Current, tables
<1>10. NotExtended'
  <2>1. ASSUME NEW s \in Members \cup Admins, pc'[s] = "loaded"
        PROVE  txn'[s].op # "extend"
    <3>1. s \in Requests
      BY DEF Requests
    <3>2. CASE s = r
      BY <1>1, <1>2, <1>4, <3>1, <3>2 DEF TypeOK
    <3>3. CASE s # r
      BY <1>1, <1>2, <2>1, <3>1, <3>3 DEF EndInv, NotExtended, TypeOK
    <3> QED
      BY <3>2, <3>3
  <2> QED
    BY <2>1 DEF NotExtended
<1>9. /\ PeriodsWhole' /\ Numbered' /\ IdleEmpty' /\ DraftEnd' /\ HeldEnd' /\ ListEnd'
      /\ ClockOK' /\ PaidEndKept'
  BY <1>1 DEF EndInv, IdleEmpty, PeriodsWhole, Numbered, DraftEnd, HeldEnd, ListEnd, ClockOK, PaidEndKept,
       tables, world, Ahead, OnList
<1> QED
  BY <1>6, <1>7, <1>8, <1>9, <1>10 DEF EndInv

(* A payment. For a house on the past due list it buys the only period     *)
(* ahead, by the premise.                                                  *)
LEMMA PayEnds ==
  ASSUME EndInv, TypeInv', LifecycleAssumption, NEW p \in Payers, PayCommit(p), Current(p),
  Unhurried
  PROVE  EndInv'
<1> DEFINE h == txn[p].h
<1>4. PICK period, object :
      /\ period \in Period /\ period.end = period.start + Interval /\ period.start >= now
      /\ period.no = Cardinality(bought[h]) + 1
      /\ sub' = [sub EXCEPT ![h] = OrmUpdate(@, txn[p].seen, object)]
      /\ sub'[h].end = period.end
      /\ bought' = [bought EXCEPT ![h] = @ \cup {period}]
      /\ \A q \in bought[h] : q.end < period.end
      /\ period \notin bought[h]
      /\ Cardinality(bought'[h]) = Cardinality(bought[h]) + 1
      /\ runner.draft[h] = Absent
      /\ UNCHANGED <<runner, world>>
      /\ \A r \in Requests : pc'[r] = "loaded" => pc[r] = "loaded" /\ txn'[r] = txn[r] /\ r # p
  BY PaidFor
<1>5. TypeInv /\ TypeOK /\ h \in Houses
  BY EndsTyped DEF EndInv, TypeInv
<1>6. /\ bought'[h] = bought[h] \cup {period}
      /\ \A g \in Houses : g # h => sub'[g] = sub[g] /\ bought'[g] = bought[g]
  BY <1>4, <1>5 DEF TypeOK
<1>7. /\ now \in Nat /\ runner.clock \in Nat /\ Interval \in Nat /\ Interval > 0
      /\ period.start \in Nat /\ period.end \in Nat
  BY <1>4, <1>5, EndsTyped DEF Period, LifecycleAssumption
<1> HIDE DEF h
<1>8. PeriodsWhole' /\ Numbered'
  <2>1. PeriodsWhole'
    BY <1>4, <1>6 DEF EndInv, PeriodsWhole
  <2>2. ASSUME NEW q \in bought[h]
        PROVE  q.no <= Cardinality(bought[h]) + 1
    <3>1. q \in Period /\ q.no <= Cardinality(bought[h]) /\ Cardinality(bought[h]) \in Nat
      BY <1>5, EndsTyped DEF EndInv, Numbered
    <3> QED
      BY <3>1 DEF Period
  <2>3. \A q \in bought'[h] : q.no <= Cardinality(bought'[h])
    BY <1>4, <1>5, <1>6, <2>2, EndsTyped
  <2>4. Numbered'
    BY <1>6, <2>3 DEF EndInv, Numbered
  <2> QED
    BY <2>1, <2>4
<1>9. PaidEndKept'
  <2>1. \A q \in bought'[h] : sub'[h].end >= q.end
    BY <1>4, <1>5, <1>6, <1>7, EndsTyped
  <2> QED
    BY <1>6, <2>1 DEF EndInv, PaidEndKept
<1>10. DraftEnd'
  BY <1>4, <1>6 DEF EndInv, DraftEnd
<1>11. ASSUME NEW r \in Payers, pc'[r] = "loaded"
       PROVE  /\ txn'[r] = txn[r] /\ pc[r] = "loaded" /\ txn[r].h \in Houses
              /\ txn[r].paid \in Nat /\ txn[r].paid <= Cardinality(bought[txn[r].h])
              /\ txn[r].h = h => Cardinality(bought'[h]) > txn[r].paid
  <2>1. /\ txn'[r] = txn[r] /\ pc[r] = "loaded" /\ txn[r].h \in Houses
        /\ txn[r].paid \in Nat /\ txn[r].paid <= Cardinality(bought[txn[r].h])
    BY <1>4, <1>5, <1>11, EndsTyped DEF EndInv, Counted
  <2>2. Cardinality(bought[h]) \in Nat
    BY <1>5, EndsTyped
  <2> QED
    BY <1>4, <2>1, <2>2
<1>12. Counted'
  <2> SUFFICES ASSUME NEW r \in Payers, pc'[r] = "loaded"
               PROVE  txn'[r].paid <= Cardinality(bought'[txn'[r].h])
    BY DEF Counted
  <2>1. CASE txn[r].h = h
    <3>1. Cardinality(bought'[h]) > txn[r].paid /\ Cardinality(bought[h]) \in Nat
          /\ txn'[r] = txn[r] /\ txn[r].paid \in Nat
      BY <1>5, <1>11, <2>1, EndsTyped
    <3>2. Cardinality(bought'[h]) \in Nat
      BY <1>4, <3>1
    <3>3. txn[r].paid <= Cardinality(bought'[h])
      BY <3>1, <3>2
    <3> QED
      BY <2>1, <3>1, <3>3, Zenon
  <2>2. CASE txn[r].h # h
    BY <1>6, <1>11, <2>2
  <2> QED
    BY <2>1, <2>2
<1>13. \A r \in Payers : Current(r)' => /\ Current(r) /\ txn'[r] = txn[r] /\ txn[r].h # h
                                         /\ txn[r].h \in Houses
  <2> SUFFICES ASSUME NEW r \in Payers, Current(r)'
               PROVE  /\ Current(r) /\ txn'[r] = txn[r] /\ txn[r].h # h /\ txn[r].h \in Houses
    OBVIOUS
  <2>1. pc'[r] = "loaded" /\ Cardinality(bought'[txn'[r].h]) = txn'[r].paid
    BY DEF Current
  <2>2. txn'[r] = txn[r] /\ pc[r] = "loaded" /\ txn[r].h \in Houses /\ txn[r].paid \in Nat
    BY <1>11, <2>1
  <2>3. txn[r].h # h
    <3> SUFFICES ASSUME txn[r].h = h
                 PROVE  FALSE
      OBVIOUS
    <3>1. Cardinality(bought'[h]) > txn[r].paid
      BY <1>11, <2>1
    <3> QED
      BY <2>1, <2>2, <3>1
  <2> QED
    BY <1>6, <2>1, <2>2, <2>3 DEF Current
<1>14. SeenFirst' /\ SeenEnd'
  BY <1>6, <1>13 DEF EndInv, SeenFirst, SeenEnd
<1>15. HeldEnd'
  <2> SUFFICES ASSUME Ahead, NEW g \in Houses, runner.object[g] # Absent
               PROVE  sub'[g].end > runner.clock \/ sub'[g].end = runner.object[g].end
    BY <1>4 DEF HeldEnd, Ahead
  <2>1. CASE g # h
    BY <1>6, <2>1 DEF EndInv, HeldEnd
  <2>2. CASE g = h
    <3>1. runner.clock <= now
      BY DEF EndInv, ClockOK, Ahead
    <3> QED
      BY <1>4, <1>7, <2>2, <3>1
  <2> QED
    BY <2>1, <2>2
<1>16. ListEnd'
  <2> SUFFICES ASSUME NEW g \in Houses, OnList(g)
               PROVE  /\ runner.object[g].end < runner.clock
                      /\ \A q \in bought'[g] :
                           q.end > runner.object[g].end => q.start >= runner.clock
                      /\ \A r, q \in bought'[g] :
                           r.end > runner.object[g].end /\ q.end > runner.object[g].end => r = q
    BY <1>4 DEF ListEnd, OnList
  <2>1. CASE g # h
    BY <1>6, <2>1 DEF EndInv, ListEnd
  <2>2. CASE g = h
    <3>1. runner.object[g].end < runner.clock /\ runner.object[g].end \in Nat
      BY <1>5, EndsTyped DEF EndInv, ListEnd
    <3>2. runner.clock <= now
      BY DEF EndInv, ClockOK, OnList, InTurn
    <3>3. bought'[g] # bought[g]
      BY <1>4, <1>6, <2>2
    <3>4. \A q \in bought[g] : q.start < runner.object[g].end
      BY <3>3 DEF Unhurried
    <3>5. \A q \in bought[g] : q.end \in Nat /\ q.start \in Nat /\ ~(q.end > runner.object[g].end)
      <4> TAKE q \in bought[g]
      <4>1. q.end \in Nat /\ q.start \in Nat
        BY <1>5, EndsTyped
      <4>2. ~(q.start >= runner.object[g].end)
        BY <3>1, <3>4, <4>1
      <4>3. q.end > runner.object[g].end => q.start >= runner.clock
        BY DEF EndInv, ListEnd
      <4> QED
        BY <1>7, <3>1, <4>1, <4>2, <4>3
    <3>6. period.start >= runner.clock
      BY <1>4, <1>7, <3>2
    <3> QED
      BY <1>6, <2>2, <3>1, <3>5, <3>6
  <2> QED
    BY <2>1, <2>2
<1>17. ClockOK' /\ IdleEmpty' /\ NotExtended'
  BY <1>4 DEF EndInv, ClockOK, IdleEmpty, NotExtended, Requests, world
<1> QED
  BY <1>8, <1>9, <1>10, <1>12, <1>14, <1>15, <1>16, <1>17 DEF EndInv

(* A selection: a subscription enters the past due list with an object     *)
(* whose end lies behind the clock, so with the end of the row, and all    *)
(* its paid periods behind.                                                *)
LEMMA EnterEnds ==
  ASSUME EndInv, TypeInv', NEW group \in {"renew", "remind", "past_due"}, NEW clock \in Nat,
         Enter(group, clock),
         \/ group = "renew" /\ runner.step = "idle" /\ clock = now
         \/ group # "renew" /\ Ahead /\ clock = runner.clock,
         UNCHANGED <<tables, pc, txn, world>>
  PROVE  EndInv'
<1>1. TypeInv /\ TypeOK /\ group \in Groups
  BY DEF EndInv, TypeInv, Groups
<1>2. /\ runner'.step = group /\ runner'.clock = clock
      /\ runner'.todo = {h \in Houses : Due(group, h, RunnerSees(h), clock)}
      /\ runner'.object = [h \in Houses |-> IF h \in runner'.todo /\ runner.object[h] = Absent
                                             THEN RunnerSees(h) ELSE runner.object[h]]
      /\ runner'.draft = runner.draft
  BY <1>1, Entered
<1>3. ASSUME NEW h \in Houses, runner'.object[h] # Absent
      PROVE  sub[h].end > clock \/ sub[h].end = runner'.object[h].end
  <2>1. CASE runner.object[h] = Absent
    <3>1. runner'.object[h] = RunnerSees(h)
      BY <1>2, <1>3, <2>1
    <3> QED
      BY <3>1, SeesEnd
  <2>2. CASE runner.object[h] # Absent
    <3>1. runner'.object[h] = runner.object[h]
      BY <1>2, <2>2
    <3>2. Ahead /\ clock = runner.clock
      BY <2>2 DEF EndInv, IdleEmpty
    <3> QED
      BY <2>2, <3>1, <3>2 DEF EndInv, HeldEnd
  <2> QED
    BY <2>1, <2>2
<1>4. sub' = sub /\ bought' = bought /\ pc' = pc /\ txn' = txn /\ now' = now /\ swept' = swept
  BY DEF tables, world
<1>5. HeldEnd'
  BY <1>2, <1>3, <1>4 DEF HeldEnd
<1>6. ListEnd'
  <2> SUFFICES ASSUME NEW h \in Houses, OnList(h)'
               PROVE  /\ runner'.object[h].end < clock
                      /\ \A q \in bought[h] : ~(q.end > runner'.object[h].end)
    BY <1>2, <1>4 DEF ListEnd
  <2>1. group = "past_due" /\ h \in runner'.todo
    BY <1>2 DEF OnList, InTurn
  <2>2. RunnerSees(h).end < clock
    BY <1>2, <2>1 DEF Due
  <2>3. runner'.object[h] # Absent
    BY <1>1, <2>1, Entered
  <2>4. sub[h].end < clock /\ sub[h].end \in Nat
    BY <1>1, <2>2, SeesEnd, EndsTyped
  <2>5. sub[h].end = runner'.object[h].end
    BY <1>3, <2>3, <2>4
  <2>6. \A q \in bought[h] : sub[h].end >= q.end /\ q.end \in Nat
    BY <1>1, EndsTyped DEF EndInv, PaidEndKept
  <2> QED
    BY <2>4, <2>5, <2>6
<1>7. ClockOK'
  BY <1>1, <1>2, <1>4, EndsTyped DEF EndInv, ClockOK, Ahead
<1>8. IdleEmpty'
  BY <1>2 DEF IdleEmpty
<1>9. /\ PeriodsWhole' /\ Numbered' /\ Counted' /\ DraftEnd' /\ SeenFirst' /\ SeenEnd'
      /\ PaidEndKept' /\ NotExtended'
  BY <1>2, <1>4 DEF EndInv, NotExtended, PeriodsWhole, Numbered, Counted, DraftEnd, SeenFirst, SeenEnd,
       PaidEndKept, Current
<1> QED
  BY <1>5, <1>6, <1>7, <1>8, <1>9 DEF EndInv

(* A roll: the period it picks is the only one ahead, so its end is the    *)
(* last that has been paid for.                                            *)
LEMMA RollEnds ==
  ASSUME EndInv, TypeInv', LifecycleAssumption, NEW h \in Houses, LookForPaidPeriod(h),
         PaidNext(h) # {}
  PROVE  EndInv'
<1>1. TypeInv /\ TypeOK
  BY DEF EndInv, TypeInv
<1>2. PICK q \in PaidNext(h), row \in SubRow :
        /\ q \in Period /\ q \in bought[h] /\ q.start >= runner.object[h].end
        /\ h \in runner.todo /\ runner.object[h] \in SubRow
        /\ row = OrmUpdate(RunnerSees(h), runner.object[h], Activated(runner.object[h], q))
        /\ sub' = [g \in Houses |-> IF g = h THEN row ELSE RunnerSees(g)]
        /\ runner'.step = "rolled" /\ runner'.clock = runner.clock
        /\ runner'.todo = runner.todo \ {h}
        /\ runner'.object = [runner.object EXCEPT ![h] = row]
        /\ runner'.draft = [g \in Houses |-> Absent]
  BY <1>1, Rolled
<1>3. runner.step = "past_due" /\ OnList(h)
  BY <1>2 DEF LookForPaidPeriod, OnList, InTurn
<1>4. bought' = bought /\ pc' = pc /\ txn' = txn /\ now' = now /\ swept' = swept
  BY DEF LookForPaidPeriod, world
<1>5. /\ q.end > runner.object[h].end /\ q.end \in Nat /\ runner.object[h].end \in Nat
      /\ runner.object[h].end < runner.clock
  <2>1. q.end = q.start + Interval /\ Interval \in Nat /\ Interval > 0
    BY <1>2 DEF EndInv, PeriodsWhole, LifecycleAssumption
  <2>2. q.start \in Nat /\ q.end \in Nat /\ runner.object[h].end \in Nat
    BY <1>2 DEF Period, SubRow
  <2> QED
    BY <1>2, <1>3, <2>1, <2>2 DEF EndInv, ListEnd
<1>6. row.end = q.end
  <2>1. Activated(runner.object[h], q) \in SubRow /\ Activated(runner.object[h], q).end = q.end
    BY <1>2, ActivatedTyped
  <2>2. RunnerSees(h) \in SubRow
    BY SeesEnd
  <2>3. row.end = IF q.end = runner.object[h].end THEN RunnerSees(h).end ELSE q.end
    BY <1>2, <2>1, <2>2, OrmSub
  <2> QED
    BY <1>5, <2>3
<1>7. \A g \in Houses : g # h => sub'[g].end = sub[g].end
  BY <1>2, SeesEnd
<1>8. sub'[h] = row
  BY <1>2
<1>9. PaidEndKept'
  <2>1. ASSUME NEW p \in bought[h]
        PROVE  q.end >= p.end
    <3>1. p.end \in Nat
      BY <1>1, EndsTyped
    <3>2. p.end > runner.object[h].end => p = q
      BY <1>2, <1>3, <1>5 DEF EndInv, ListEnd
    <3> QED
      BY <1>5, <3>1, <3>2
  <2> QED
    BY <1>4, <1>6, <1>7, <1>8, <2>1 DEF EndInv, PaidEndKept
<1>10. SeenFirst'
  <2>1. bought[h] # {}
    BY <1>2
  <2>2. \A r \in Payers : txn[r].h \in Houses
    BY <1>1, EndsTyped
  <2> QED
    BY <1>4, <1>7, <2>1, <2>2 DEF EndInv, SeenFirst, Current
<1>11. DraftEnd' /\ HeldEnd' /\ IdleEmpty'
  BY <1>2 DEF DraftEnd, HeldEnd, IdleEmpty, Ahead
<1>12. ListEnd'
  <2>1. \A g \in Houses : OnList(g)' => OnList(g) /\ runner'.object[g] = runner.object[g]
    BY <1>1, <1>2, <1>3, RunnerFields DEF OnList, InTurn
  <2> QED
    BY <1>2, <1>4, <2>1 DEF EndInv, ListEnd
<1>13. ClockOK'
  BY <1>2, <1>3, <1>4 DEF EndInv, ClockOK
<1>14. PeriodsWhole' /\ Numbered' /\ Counted' /\ SeenEnd' /\ NotExtended'
  BY <1>4 DEF EndInv, NotExtended, PeriodsWhole, Numbered, Counted, SeenEnd, Current
<1> QED
  BY <1>9, <1>10, <1>11, <1>12, <1>13, <1>14 DEF EndInv

(* A request that stores no end.                                           *)
LEMMA QuietCalm ==
  ASSUME EndInv, NEW r \in Requests, NEW stage \in {"committed", "done"}, NEW session,
         Continue(r, stage, session), UNCHANGED <<sub, bought>>
  PROVE  CalmEnds
<1>1. /\ pc' = [pc EXCEPT ![r] = stage] /\ txn' = [txn EXCEPT ![r] = session]
      /\ UNCHANGED <<runner, world>>
  BY DEF Continue
<1>2. TypeOK
  BY DEF EndInv, TypeInv
<1>3. \A s \in Requests : pc'[s] = "loaded" => pc[s] = "loaded" /\ txn'[s] = txn[s]
  BY <1>1, <1>2 DEF TypeOK
<1>4. ClockOK' /\ IdleEmpty'
  BY <1>1 DEF EndInv, ClockOK, IdleEmpty, world
<1> QED
  BY <1>1, <1>3, <1>4 DEF CalmEnds, EndInv, DraftEnd, OnList, Ahead

(* An edit by a member or an override stores no end.                       *)
LEMMA EditCalm ==
  ASSUME EndInv, LifecycleAssumption, NEW r \in Members \cup Admins, EditCommit(r)
  PROVE  CalmEnds
<1> DEFINE t == txn[r]
<1>0. PICK object : object = Edited(t.seen, t.op)
  OBVIOUS
<1>1. TypeInv /\ TypeOK /\ r \in Requests
  BY DEF EndInv, TypeInv, Requests
<1>2. /\ pc[r] = "loaded" /\ runner.draft[t.h] = Absent
      /\ sub' = [sub EXCEPT ![t.h] = OrmUpdate(@, t.seen, object)]
      /\ bought' = bought
  BY <1>0 DEF EditCommit, RowFree
<1>3. t.h \in Houses /\ t.seen \in SubRow /\ t.op \in EditOps /\ t.op # "extend"
  BY <1>1, <1>2, TxnFields DEF TypeInv, EndInv, NotExtended
<1>4. PICK session : Continue(r, "committed", session)
  BY <1>3 DEF EditCommit
<1>5. object \in SubRow /\ object.end = t.seen.end
  <2>1. object.end = t.seen.end
    BY <1>0, <1>3 DEF Edited, EditOps, SubRow
  <2> QED
    BY <1>0, <1>1, <1>3, <2>1, EditedTyped
<1> HIDE DEF t
<1>6. \A h \in Houses : sub'[h].end = sub[h].end
  <2>1. sub[t.h] \in SubRow
    BY <1>1, <1>3 DEF TypeOK
  <2>2. OrmUpdate(sub[t.h], t.seen, object).end = sub[t.h].end
    BY <1>3, <1>5, <2>1, OrmSub
  <2> QED
    BY <1>1, <1>2, <2>2 DEF TypeOK
<1>7. /\ pc' = [pc EXCEPT ![r] = "committed"] /\ txn' = [txn EXCEPT ![r] = session]
      /\ UNCHANGED <<runner, world>>
  BY <1>4 DEF Continue
<1>8. \A s \in Requests : pc'[s] = "loaded" => pc[s] = "loaded" /\ txn'[s] = txn[s]
  BY <1>1, <1>7 DEF TypeOK
<1>9. ClockOK' /\ IdleEmpty'
  BY <1>7 DEF EndInv, ClockOK, IdleEmpty, world
<1> QED
  BY <1>2, <1>6, <1>7, <1>8, <1>9 DEF CalmEnds, EndInv, DraftEnd, OnList, Ahead

(* A group that changes no end of its object changes none of the row.      *)
LEMMA FlushCalm ==
  ASSUME EndInv, NEW h \in runner.todo, NEW object \in SubRow,
         object.end = runner.object[h].end, NEW group \in Groups, Flush(h, object, group),
         group = "past_due" => runner.step \in InTurn,
         group \in {"renew", "remind"} => Ahead, runner.step # "idle",
         UNCHANGED <<sub, bought, pc, txn, world>>
  PROVE  CalmEnds
<1> DEFINE row == OrmUpdate(RunnerSees(h), runner.object[h], object)
<1>1. TypeInv /\ TypeOK /\ h \in Houses /\ runner.object[h] \in SubRow /\ runner.object[h] # Absent
  BY HeldRow, Rows DEF EndInv, TypeInv
<1>2. group \in RunnerSteps
  BY DEF RunnerSteps
<1>3. /\ runner'.step = group /\ runner'.clock = runner.clock
      /\ runner'.todo = runner.todo \ {h}
      /\ runner'.object = [runner.object EXCEPT ![h] = object]
      /\ runner'.draft = [runner.draft EXCEPT ![h] = row]
  BY <1>1, <1>2, Flushed
<1>4. row.end = sub[h].end
  <2>1. RunnerSees(h) \in SubRow /\ RunnerSees(h).end = sub[h].end
    BY <1>1, SeesEnd
  <2> QED
    BY <1>1, <2>1, OrmSub
<1> HIDE DEF row
<1>5. \A g \in Houses : runner'.draft[g] # Absent => runner'.draft[g].end = sub[g].end
  BY <1>1, <1>3, <1>4, RunnerFields DEF EndInv, DraftEnd
<1>6. \A g \in Houses : runner'.object[g] # Absent =>
                          runner.object[g] # Absent /\ runner'.object[g].end = runner.object[g].end
  BY <1>1, <1>3, RunnerFields
<1>7. Ahead' => Ahead
  BY <1>3 DEF Ahead
<1>8. \A g \in Houses : OnList(g)' => OnList(g) /\ runner'.object[g].end = runner.object[g].end
  <2> SUFFICES ASSUME NEW g \in Houses, OnList(g)'
               PROVE  OnList(g) /\ runner'.object[g].end = runner.object[g].end
    OBVIOUS
  <2>1. group = "past_due" /\ g \in runner.todo /\ g # h
    BY <1>3 DEF OnList, InTurn, Groups
  <2> QED
    BY <1>1, <1>3, <2>1, RunnerFields DEF OnList
<1>9. ClockOK' /\ IdleEmpty'
  <2>1. group # "idle"
    BY DEF Groups
  <2> QED
    BY <1>3, <2>1 DEF EndInv, ClockOK, IdleEmpty, world
<1> QED
  BY <1>3, <1>5, <1>6, <1>7, <1>8, <1>9 DEF CalmEnds

(* A step of the cycle that changes neither objects nor ends.              *)
LEMMA StepCalm ==
  ASSUME EndInv, runner.step # "idle", runner'.step # "idle",
         runner'.clock = runner.clock, runner'.todo \subseteq runner.todo,
         runner'.object = runner.object,
         runner'.draft = runner.draft \/ runner'.draft = [h \in Houses |-> Absent],
         runner'.step \in InTurn => runner.step \in InTurn, Ahead' => Ahead,
         \A h \in Houses : sub'[h].end = sub[h].end,
         UNCHANGED <<bought, pc, txn, world>>
  PROVE  CalmEnds
<1>1. ClockOK' /\ IdleEmpty'
  BY DEF EndInv, ClockOK, IdleEmpty, world
<1>2. \A h \in Houses : runner'.draft[h] # Absent => runner'.draft[h].end = sub'[h].end
  BY DEF EndInv, DraftEnd
<1> QED
  BY <1>1, <1>2 DEF CalmEnds, OnList

(* The end of a cycle, also by a crash.                                    *)
LEMMA IdleCalm ==
  ASSUME EndInv, runner' = Idle, swept' \in {swept, runner.clock}, now' = now,
         runner.step # "idle", UNCHANGED <<sub, bought, pc, txn>>
  PROVE  CalmEnds
<1>1. /\ Idle.step = "idle" /\ Idle.object = [h \in Houses |-> Absent]
      /\ Idle.draft = [h \in Houses |-> Absent]
  BY DEF Idle
<1>2. ClockOK' /\ IdleEmpty'
  BY <1>1 DEF EndInv, ClockOK, IdleEmpty
<1> QED
  BY <1>1, <1>2 DEF CalmEnds, OnList, Ahead, InTurn

(* Houses start with their paid period, if any, current.                   *)
LEMMA InitEnds ==
  ASSUME Init, LifecycleAssumption, KindsAssumption, Houses # {}
  PROVE  EndInv
<1>1. TypeInv
  BY InitTyped
<1>2. PICK new \in SUBSET Houses :
        /\ sub = [h \in Houses |-> IF h \in new THEN Selected ELSE Paid]
        /\ bought = [h \in Houses |-> IF h \in new THEN {}
                                      ELSE {[start |-> 1, end |-> 1 + Interval, no |-> 1,
                                            cash |-> FALSE]}]
  BY DEF Init
<1>3. Paid.end = 1 + Interval /\ 1 + Interval \in Nat /\ Paid.end >= 1 + Interval
  BY DEF Paid, Selected, LifecycleAssumption
<1>4. ASSUME NEW h \in Houses, NEW q \in bought[h]
      PROVE  /\ q.start = 1 /\ q.end = 1 + Interval /\ sub[h] = Paid
             /\ q.no = 1 /\ bought[h] = {q}
  <2>1. h \notin new
    BY <1>2, <1>4
  <2>2. sub[h] = Paid
    BY <1>2, <2>1
  <2>3. bought[h] = {[start |-> 1, end |-> 1 + Interval, no |-> 1, cash |-> FALSE]}
    BY <1>2, <2>1
  <2>4. q = [start |-> 1, end |-> 1 + Interval, no |-> 1, cash |-> FALSE]
    BY <1>4, <2>3
  <2>5. bought[h] = {q}
    BY <2>3, <2>4, Zenon
  <2>6. q.start = 1 /\ q.end = 1 + Interval /\ q.no = 1
    BY <2>4
  <2> QED
    BY <2>2, <2>5, <2>6
<1>5. PeriodsWhole /\ Numbered
  <2>1. ASSUME NEW h \in Houses, NEW q \in bought[h]
        PROVE  q.no <= Cardinality(bought[h])
    BY <1>4, FS_Singleton
  <2> QED
    BY <1>4, <2>1 DEF PeriodsWhole, Numbered
<1>6. PaidEndKept
  BY <1>3, <1>4 DEF PaidEndKept
<1>7. /\ \A r \in Requests : pc[r] # "loaded"
      /\ runner.step = "idle"
      /\ \A h \in Houses : runner.object[h] = Absent /\ runner.draft[h] = Absent
      /\ now = 1 /\ swept = 0
  BY IdleTyped DEF Init
<1> QED
  BY <1>1, <1>5, <1>6, <1>7 DEF EndInv, NotExtended, IdleEmpty, Counted, DraftEnd, SeenFirst,
       SeenEnd, HeldEnd, ListEnd, ClockOK, Current, OnList, Ahead, InTurn, Requests

(* Every way a request comes.                                              *)
LEMMA ArriveEnds ==
  ASSUME EndInv, TypeInv', Extensions = {}, Arrive
  PROVE  EndInv'
<1>1. \E r \in Requests, h \in Houses : \E op :
        /\ r \in Members \cup Admins => op # "extend"
        /\ Load(r, h, op)
  <2>1. \A p \in Payers : p \in Requests /\ p \notin Members \cup Admins
    BY KindsAssumption DEF Requests
  <2>2. \A e \in HouseEdits : e \in Requests /\ e \notin Members \cup Admins
    BY KindsAssumption DEF Requests
  <2>3. Members \subseteq Requests /\ Overrides \subseteq Requests
    BY DEF Requests, Admins
  <2>4. CASE \E p \in Payers, h \in Houses : PayLoad(p, h)
    BY <2>1, <2>4 DEF PayLoad
  <2>5. CASE \E m \in Members, h \in Houses, op \in {"pause", "resume", "cancel"} :
               MemberLoad(m, h, op)
    <3>1. PICK m \in Members, h \in Houses, op \in {"pause", "resume", "cancel"} :
            MemberLoad(m, h, op)
      BY <2>5
    <3>2. op # "extend" /\ Load(m, h, op)
      BY <3>1 DEF MemberLoad
    <3> QED
      BY <2>3, <3>2
  <2>6. CASE \E o \in Overrides, h \in Houses, status \in Statuses : OverrideLoad(o, h, status)
    <3>1. PICK o \in Overrides, h \in Houses, status \in Statuses : OverrideLoad(o, h, status)
      BY <2>6
    <3>2. status # "extend" /\ Load(o, h, status)
      BY <3>1 DEF OverrideLoad, Statuses
    <3> QED
      BY <2>3, <3>2
  <2>7. CASE \E e \in HouseEdits, h \in Houses, active \in BOOLEAN : HouseEditLoad(e, h, active)
    BY <2>2, <2>7 DEF HouseEditLoad
  <2> QED
    BY <2>4, <2>5, <2>6, <2>7 DEF Arrive
<1> QED
  BY <1>1, LoadEnds

(* Every way it goes on.                                                   *)
LEMMA AdvanceEnds ==
  ASSUME EndInv, TypeInv', LifecycleAssumption, Unhurried, Undoubled, NEW r \in Requests,
         Advance(r)
  PROVE  EndInv'
<1>1. CASE r \in Payers /\ PayCommit(r)
  <2>1. TypeOK
    BY DEF EndInv, TypeInv
  <2> QED
    BY <1>1, <2>1, PaysCurrent, PayEnds
<1>2. CASE r \in Members \cup Admins /\ EditCommit(r)
  BY <1>2, EditCalm, CalmKeepsEnds
<1>3. CASE PayRefused(r) \/ PaySync(r) \/ EditSync(r) \/ HouseEditCommit(r)
  <2>1. Finish(r) /\ UNCHANGED <<sub, bought>>
    BY <1>3 DEF PayRefused, PaySync, EditSync, HouseEditCommit, tables
  <2>2. CalmEnds
    BY <2>1, QuietCalm DEF Finish
  <2> QED
    BY <2>2, CalmKeepsEnds
<1> QED
  BY <1>1, <1>2, <1>3 DEF Advance

(* What the cycle keeps when one or two of its columns change.             *)
LEMMA RunnerStep ==
  ASSUME TypeOK
  PROVE  /\ \A s : LET next == [runner EXCEPT !.step = s] IN
              /\ next.step = s /\ next.clock = runner.clock /\ next.todo = runner.todo
              /\ next.object = runner.object /\ next.draft = runner.draft
         /\ \A s, g : LET next == [runner EXCEPT !.step = s, !.at = g] IN
              /\ next.step = s /\ next.clock = runner.clock /\ next.todo = runner.todo
              /\ next.object = runner.object /\ next.draft = runner.draft
         /\ \A h : LET next == [runner EXCEPT !.todo = @ \ {h}] IN
              /\ next.step = runner.step /\ next.clock = runner.clock
              /\ next.todo = runner.todo \ {h}
              /\ next.object = runner.object /\ next.draft = runner.draft
         /\ \A s, d : LET next == [runner EXCEPT !.step = s, !.draft = d] IN
              /\ next.step = s /\ next.clock = runner.clock /\ next.todo = runner.todo
              /\ next.object = runner.object /\ next.draft = d
         /\ \A s, j : LET next == [runner EXCEPT !.step = s, !.judged = j] IN
              /\ next.step = s /\ next.clock = runner.clock /\ next.todo = runner.todo
              /\ next.object = runner.object /\ next.draft = runner.draft
         /\ \A s, k : LET next == [runner EXCEPT !.step = s, !.houses = k] IN
              /\ next.step = s /\ next.clock = runner.clock /\ next.todo = runner.todo
              /\ next.object = runner.object /\ next.draft = runner.draft
<1>1. runner \in RunnerRow
  BY DEF TypeOK, RunnerRow
<1> QED
  BY <1>1 DEF RunnerRow

(* The steps of the cycle that change no object.                           *)
LEMMA TurnCalm ==
  ASSUME EndInv, NEW h \in Houses,
         \/ IssueRenewal(h) \/ SyncRolled \/ CommitCycle \/ JudgeHouses \/ ReadHouses
         \/ NextGroup /\ runner' = [runner EXCEPT !.step = "commit"] /\ runner.step = "resume"
         \/ LookForPaidPeriod(h) /\ PaidNext(h) = {}
  PROVE  CalmEnds
<1>1. TypeOK
  BY DEF EndInv, TypeInv
<1>2. \A g \in Houses : RunnerSees(g).end = sub[g].end
  BY SeesEnd
<1>3. CASE IssueRenewal(h)
  BY <1>1, <1>3, RunnerStep, StepCalm DEF IssueRenewal, Ahead
<1>4. CASE SyncRolled
  BY <1>1, <1>4, RunnerStep, StepCalm DEF SyncRolled, Ahead, InTurn
<1>5. CASE CommitCycle
  <2>1. /\ runner.step = "commit" /\ runner'.step = "judge" /\ runner'.clock = runner.clock
        /\ runner'.todo = runner.todo /\ runner'.object = runner.object
        /\ runner'.draft = [g \in Houses |-> Absent]
    BY <1>1, <1>5, RunnerStep DEF CommitCycle, Idle
  <2>2. \A g \in Houses : sub'[g].end = sub[g].end
    BY <1>2, <1>5 DEF CommitCycle
  <2> QED
    BY <1>5, <2>1, <2>2, StepCalm DEF CommitCycle, Ahead, InTurn
<1>6. CASE JudgeHouses
  <2>1. PICK judged : runner' = [runner EXCEPT !.step = "read", !.judged = judged]
    BY <1>6 DEF JudgeHouses
  <2>2. /\ runner.step = "judge" /\ runner'.step = "read" /\ runner'.clock = runner.clock
        /\ runner'.todo = runner.todo /\ runner'.object = runner.object
        /\ runner'.draft = runner.draft
    <3>1. runner \in RunnerRow
      BY <1>1 DEF TypeOK, RunnerRow
    <3>2. runner.step = "judge"
      BY <1>6 DEF JudgeHouses
    <3> QED
      BY <2>1, <3>1, <3>2 DEF RunnerRow
  <2> QED
    BY <1>6, <2>2, StepCalm DEF JudgeHouses, Ahead, InTurn, tables
<1>7. CASE ReadHouses
  BY <1>1, <1>7, RunnerStep, StepCalm DEF ReadHouses, Ahead, InTurn, tables
<1>8. CASE NextGroup /\ runner' = [runner EXCEPT !.step = "commit"] /\ runner.step = "resume"
  <2>1. /\ runner'.step = "commit" /\ runner'.clock = runner.clock
        /\ runner'.todo = runner.todo /\ runner'.object = runner.object
        /\ runner'.draft = runner.draft
    BY <1>1, <1>8, RunnerStep
  <2> QED
    BY <1>8, <2>1, StepCalm DEF NextGroup, Ahead, InTurn, tables
<1>9. CASE LookForPaidPeriod(h) /\ PaidNext(h) = {}
  <2>1. /\ runner.step = "past_due" /\ runner'.step = "mark" /\ runner'.clock = runner.clock
        /\ runner'.todo = runner.todo /\ runner'.object = runner.object
        /\ runner'.draft = runner.draft
    <3>1. runner \in RunnerRow
      BY <1>1 DEF TypeOK, RunnerRow
    <3>2. runner.step = "past_due" /\ runner' = [runner EXCEPT !.step = "mark", !.at = h]
      BY <1>9 DEF LookForPaidPeriod
    <3> QED
      BY <3>1, <3>2 DEF RunnerRow
  <2> QED
    BY <1>9, <2>1, StepCalm DEF LookForPaidPeriod, Ahead, InTurn
<1> QED
  BY <1>3, <1>4, <1>5, <1>6, <1>7, <1>8, <1>9

(* The groups that change a status, a mark or a grace.                     *)
LEMMA GroupCalm ==
  ASSUME EndInv, LifecycleAssumption, NEW h \in Houses,
         Remind(h) \/ Expire(h) \/ Resume(h) \/ MarkPastDue
  PROVE  CalmEnds
<1>1. TypeInv /\ TypeOK
  BY DEF EndInv, TypeInv
<1>2. \A g \in runner.todo : runner.object[g] \in SubRow
  BY <1>1, HeldRow
<1>3. CASE Remind(h)
  <2>1. /\ [runner.object[h] EXCEPT !.told = TRUE] \in SubRow
        /\ [runner.object[h] EXCEPT !.told = TRUE].end = runner.object[h].end
    BY <1>2, <1>3, ToldTyped DEF Remind, SubRow
  <2>2. "remind" \in Groups
    BY DEF Groups
  <2> QED
    BY <1>3, <2>1, <2>2, FlushCalm DEF Remind, Ahead, tables
<1>4. CASE Expire(h)
  <2>1. /\ [runner.object[h] EXCEPT !.status = "expired"] \in SubRow
        /\ [runner.object[h] EXCEPT !.status = "expired"].end = runner.object[h].end
    BY <1>2, <1>4, ToldTyped DEF Expire, SubRow
  <2>2. runner.step \in Groups /\ runner.step \notin {"renew", "remind", "past_due", "idle"}
    BY <1>4 DEF Expire, Groups
  <2> QED
    BY <1>4, <2>1, <2>2, FlushCalm DEF Expire, tables
<1>5. CASE Resume(h)
  <2>1. /\ [runner.object[h] EXCEPT !.status = "active", !.resume = Null] \in SubRow
        /\ [runner.object[h] EXCEPT !.status = "active", !.resume = Null].end
             = runner.object[h].end
    BY <1>2, <1>5, ToldTyped DEF Resume, SubRow
  <2>2. "resume" \in Groups
    BY DEF Groups
  <2> QED
    BY <1>5, <2>1, <2>2, FlushCalm DEF Resume, tables
<1>6. CASE MarkPastDue
  <2> DEFINE g == runner.at
             grace == runner.clock + Grace
  <2>1. g \in runner.todo
    BY <1>1, <1>6 DEF MarkPastDue, TypeInv
  <2>2. grace \in Nat
    BY <1>1, RunnerFields DEF LifecycleAssumption
  <2>3. /\ runner.step = "mark"
        /\ Flush(g, [runner.object[g] EXCEPT !.status = "past_due", !.grace = grace], "past_due")
        /\ UNCHANGED <<tables, pc, txn, world>>
    BY <1>6 DEF MarkPastDue
  <2> HIDE DEF g, grace
  <2>4. /\ [runner.object[g] EXCEPT !.status = "past_due", !.grace = grace] \in SubRow
        /\ [runner.object[g] EXCEPT !.status = "past_due", !.grace = grace].end
             = runner.object[g].end
    BY <1>2, <2>1, <2>2, ToldTyped DEF SubRow
  <2>5. "past_due" \in Groups
    BY DEF Groups
  <2> QED
    BY <2>1, <2>3, <2>4, <2>5, FlushCalm DEF InTurn, tables
<1> QED
  BY <1>3, <1>4, <1>5, <1>6

(* From one group to the next.                                             *)
LEMMA NextGroupEnds ==
  ASSUME EndInv, TypeInv', StartCycle \/ NextGroup
  PROVE  EndInv'
<1>1. TypeInv /\ TypeOK /\ runner.clock \in Nat /\ now \in Nat
  BY EndsTyped DEF EndInv, TypeInv
<1>2. UNCHANGED <<tables, pc, txn, world>>
  BY DEF StartCycle, NextGroup
<1>3. CASE StartCycle
  BY <1>1, <1>2, <1>3, EnterEnds DEF StartCycle
<1>4. CASE NextGroup /\ Ahead
  BY <1>1, <1>2, <1>4, EnterEnds DEF NextGroup, Ahead
<1>5. CASE NextGroup /\ ~Ahead
  <2>1. CASE runner.step = "resume"
    <3>1. runner' = [runner EXCEPT !.step = "commit"]
      BY <1>5, <2>1 DEF NextGroup
    <3>2. PICK h : h \in Houses
      BY <1>1 DEF TypeOK
    <3>3. CalmEnds
      BY <1>5, <2>1, <3>1, <3>2, TurnCalm
    <3> QED
      BY <3>3, CalmKeepsEnds
  <2>2. CASE runner.step # "resume"
    <3>1. PICK group \in {"trial", "grace", "resume"} :
            runner.step # "idle" /\ Enter(group, runner.clock)
      BY <1>5, <2>2 DEF NextGroup, Ahead
    <3>2. group \in Groups
      BY DEF Groups
    <3>3. /\ runner'.step = group /\ runner'.clock = runner.clock /\ runner'.draft = runner.draft
      BY <1>1, <3>1, <3>2, Entered
    <3>4. ~Ahead' /\ runner'.step \notin InTurn /\ runner'.step # "idle"
      BY <3>3 DEF Ahead, InTurn
    <3>5. ClockOK' /\ IdleEmpty'
      BY <1>2, <3>1, <3>3, <3>4 DEF EndInv, ClockOK, IdleEmpty, world
    <3>6. CalmEnds
      BY <1>2, <3>3, <3>4, <3>5 DEF CalmEnds, EndInv, DraftEnd, OnList, tables
    <3> QED
      BY <3>6, CalmKeepsEnds
  <2> QED
    BY <2>1, <2>2
<1> QED
  BY <1>3, <1>4, <1>5

(* Every step keeps the invariant.                                         *)
LEMMA NextEnds ==
  ASSUME EndInv, LifecycleAssumption, Houses # {}, Extensions = {},
         [Next /\ Unhurried /\ Undoubled]_vars
  PROVE  EndInv'
<1>1. TypeInv /\ TypeOK
  BY DEF EndInv, TypeInv
<1>2. TypeInv'
  BY <1>1, NextTyped
<1>3. CASE Arrive
  BY <1>2, <1>3, ArriveEnds
<1>4. ASSUME NEW r \in Requests, Advance(r), Unhurried, Undoubled
      PROVE  EndInv'
  BY <1>2, <1>4, AdvanceEnds
<1>5. ASSUME NEW h \in Houses, RenewRequest(h)
      PROVE  EndInv'
  <2>1. UNCHANGED <<sub, bought, runner, pc, txn, world>>
    BY <1>5 DEF RenewRequest
  <2> QED
    BY <1>2, <2>1 DEF EndInv, NotExtended, IdleEmpty, PeriodsWhole, Numbered, Counted, DraftEnd,
         SeenFirst, SeenEnd, HeldEnd, ListEnd, ClockOK, PaidEndKept, Current, OnList, Ahead,
         world
<1>6. CASE StartCycle \/ NextGroup
  BY <1>2, <1>6, NextGroupEnds
<1>7. ASSUME NEW h \in Houses, LookForPaidPeriod(h)
      PROVE  EndInv'
  BY <1>2, <1>7, RollEnds, TurnCalm, CalmKeepsEnds
<1>8. ASSUME NEW h \in Houses, \/ IssueRenewal(h) \/ SyncRolled \/ CommitCycle
                               \/ JudgeHouses \/ ReadHouses
      PROVE  EndInv'
  BY <1>2, <1>8, TurnCalm, CalmKeepsEnds
<1>9. ASSUME NEW h \in Houses, Remind(h) \/ Expire(h) \/ Resume(h) \/ MarkPastDue
      PROVE  EndInv'
  BY <1>2, <1>9, GroupCalm, CalmKeepsEnds
<1>10. CASE SyncHouses \/ Crash
  <2>1. /\ runner' = Idle /\ swept' \in {swept, runner.clock} /\ now' = now
        /\ runner.step # "idle" /\ UNCHANGED <<sub, bought, pc, txn>>
    BY <1>10 DEF SyncHouses, Crash, tables
  <2> QED
    BY <1>2, <2>1, IdleCalm, CalmKeepsEnds
<1>11. CASE Tick
  <2>1. UNCHANGED <<sub, bought, runner, pc, txn, swept>> /\ now' = now + 1
    BY <1>11 DEF Tick, tables
  <2>2. ClockOK'
    BY <1>1, <2>1, EndsTyped DEF EndInv, ClockOK
  <2>3. CalmEnds
    BY <2>1, <2>2 DEF CalmEnds, EndInv, DraftEnd, IdleEmpty, OnList, Ahead
  <2> QED
    BY <1>2, <2>3, CalmKeepsEnds
<1>12. CASE UNCHANGED vars
  BY <1>2, <1>12 DEF vars, EndInv, NotExtended, IdleEmpty, PeriodsWhole, Numbered, Counted,
       DraftEnd, SeenFirst, SeenEnd, HeldEnd, ListEnd, ClockOK, PaidEndKept, Current, OnList, Ahead
<1>13. CASE Cycle
  BY <1>6, <1>7, <1>8, <1>9, <1>10, <1>13 DEF Cycle
<1> QED
  BY <1>3, <1>4, <1>5, <1>10, <1>11, <1>12, <1>13 DEF Next, Proceed

(* The subscription of a house runs at least to the end of the last period *)
(* paid for, however payments, pauses, cancellations, overrides, edits of  *)
(* the house, cycles and crashes interleave, for any lengths of period,    *)
(* grace, notice and pause. Unhurried is needed because a roll writes the  *)
(* end of the first paid period ahead (billing_runner.py:145). Undoubled   *)
(* is needed because a cash entry does not read its invoice again          *)
(* (manual_payment.py:165, subscription_service.py:613): one that comes    *)
(* after a renewal writes its own, older end over it. Extensions are left  *)
(* out because extend_period_days writes the end its session knew. Each of *)
(* them sets back a payment made since.                                    *)
THEOREM PaidTimeNeverLost ==
  ASSUME Houses # {}, Extensions = {}
  PROVE  Spec /\ [][Unhurried]_vars /\ [][Undoubled]_vars => []PaidEndKept
<1>1. Init => EndInv
  BY InitEnds, LifecycleAssumption, KindsAssumption
<1>2. EndInv /\ [Next]_vars /\ [Unhurried]_vars /\ [Undoubled]_vars => EndInv'
  BY NextEnds, LifecycleAssumption
<1>3. EndInv => PaidEndKept
  BY DEF EndInv
<1> QED
  BY <1>1, <1>2, <1>3, PTL DEF Spec

-----------------------------------------------------------------------------
(* Free time                                                               *)

(* What holds of every row, stored or uncommitted: no grace without past   *)
(* due; a grace that began no later than the day after the end; a trial    *)
(* that ends with its period; an active subscription not yet due at the    *)
(* previous cycle.                                                         *)
RowOK(row) ==
  /\ row.status \in {"trialing", "active", "past_due", "expired"}
  /\ row.status \in {"trialing", "active"} => row.grace = Null
  /\ row.status = "trialing" => row.trial # Null /\ row.trial <= row.end
  /\ row.status = "past_due" =>
       row.grace # Null /\ row.grace <= row.end + Grace + 1 /\ row.grace <= now + Grace
  /\ row.status = "active" => row.end >= swept

(* How a row may have moved on since a session read it.                    *)
Follows(seen, row) ==
  /\ seen.status # "trialing" => row.status # "trialing"
  /\ seen.status \in {"trialing", "expired"} /\ seen.grace = Null =>
       row.status \in {"trialing", "expired"} /\ row.grace = Null

(* From the past due group to the commit.                                  *)
Late == runner.step \in InTurn \cup {"trial", "grace", "resume", "commit"}

(* After the commit.                                                       *)
Sweeping == runner.step \in {"judge", "read", "write"}

(* A cycle has completed today or yesterday.                               *)
Daily == now <= swept + 1

(* All rows are as they should be.                                         *)
RowsOK == \A h \in Houses : RowOK(sub[h]) /\ RowOK(RunnerSees(h))

(* After the selection of the past due group, an active subscription past  *)
(* its end is on the list: none escapes the cycle.                         *)
OldListed ==
  Late => \A h \in Houses :
    RunnerSees(h).status = "active" /\ RunnerSees(h).end < runner.clock => OnList(h)

(* After the commit there is none.                                         *)
SweptRows ==
  Sweeping => \A h \in Houses : sub[h].status = "active" => sub[h].end >= runner.clock

(* A listed subscription is still active.                                  *)
ListActive ==
  \A h \in Houses : OnList(h) => sub[h].status = "active" /\ RunnerSees(h).status = "active"

(* What the earlier groups hold: objects that were active or on trial, and *)
(* a trial that has become active since has been paid for.                 *)
HeldOK ==
  Ahead => \A h \in Houses : runner.object[h] # Absent =>
    /\ runner.object[h].status \in {"active", "trialing"} /\ runner.object[h].grace = Null
    /\ runner.object[h].status = "active" => runner.object[h].end >= swept
    /\ runner.object[h].status = "trialing" /\ RunnerSees(h).status = "active" =>
         RunnerSees(h).end > runner.clock

(* Objects on the list are active ones without a grace.                    *)
ListOK ==
  \A h \in Houses : OnList(h) =>
    /\ runner.object[h].status = "active" /\ runner.object[h].grace = Null
    /\ runner.object[h].end >= swept

(* A payment that will go through sees a row from which the stored one has *)
(* only moved on.                                                          *)
SeenOK ==
  \A r \in Payers : Current(r) =>
    Follows(txn[r].seen, sub[txn[r].h]) /\ Follows(txn[r].seen, RunnerSees(txn[r].h))

(* A payment knows a sound row.                                            *)
SeenRow ==
  \A r \in Payers : pc[r] = "loaded" =>
    /\ txn[r].seen.status \in {"trialing", "active", "past_due", "expired"}
    /\ txn[r].seen.status = "past_due" => txn[r].seen.grace # Null
    /\ txn[r].seen.status = "active" => txn[r].seen.grace = Null

(* An uncommitted row differs from the stored one by an expiry, or comes   *)
(* from an active one.                                                     *)
DraftOK ==
  \A h \in Houses : runner.draft[h] # Absent =>
    \/ sub[h].status = "active" /\ runner.draft[h].status # "trialing"
    \/ /\ runner.draft[h].status \in {sub[h].status, "expired"}
       /\ runner.draft[h].grace = sub[h].grace
       /\ runner.draft[h].trial = sub[h].trial

(* Nothing is paused, so nothing is resumed.                               *)
NoneResumed == runner.step = "resume" => runner.todo = {}

(* The inductive invariant behind FreeTimeBounded and ExpiredStaysBlocked. *)
FreeInv ==
  /\ EndInv /\ Daily /\ RowsOK /\ OldListed /\ SweptRows /\ ListActive /\ HeldOK /\ ListOK
  /\ SeenOK /\ SeenRow /\ DraftOK /\ NoneResumed

(* The class of steps that change no row.                                  *)
CalmRows ==
  /\ UNCHANGED <<sub, bought, now, swept>>
  /\ runner'.draft = runner.draft
  /\ \A r \in Requests : pc'[r] = "loaded" => pc[r] = "loaded" /\ txn'[r] = txn[r]
  /\ \A h \in Houses : OnList(h)' <=> OnList(h)
  /\ runner'.object = runner.object
  /\ runner'.clock = runner.clock
  /\ Late' => Late
  /\ Sweeping' => Sweeping
  /\ Ahead' => Ahead
  /\ runner'.step = "resume" => runner.step = "resume" /\ runner'.todo \subseteq runner.todo

(* A step of the class keeps the invariant.                                *)
LEMMA CalmKeepsRows ==
  ASSUME FreeInv, EndInv', CalmRows
  PROVE  FreeInv'
<1>0. \A r \in Payers : r \in Requests
  BY DEF Requests
<1>1. \A h \in Houses : RunnerSees(h)' = RunnerSees(h)
  BY DEF CalmRows, RunnerSees
<1>2. \A row : RowOK(row)' <=> RowOK(row)
  BY DEF CalmRows, RowOK
<1>3. Daily' /\ RowsOK'
  BY <1>1, <1>2 DEF FreeInv, CalmRows, Daily, RowsOK, RowOK
<1>4. OldListed'
  BY <1>1 DEF FreeInv, CalmRows, OldListed
<1>5. SweptRows'
  BY DEF FreeInv, CalmRows, SweptRows
<1>6. ListActive' /\ ListOK'
  BY <1>1 DEF FreeInv, CalmRows, ListActive, ListOK
<1>7. HeldOK'
  BY <1>1 DEF FreeInv, CalmRows, HeldOK
<1>8. \A r \in Payers : Current(r)' => Current(r) /\ txn'[r] = txn[r]
  BY <1>0 DEF CalmRows, Current
<1>9. SeenOK'
  <2> SUFFICES ASSUME NEW r \in Payers, Current(r)'
               PROVE  (Follows(txn[r].seen, sub[txn[r].h])
                         /\ Follows(txn[r].seen, RunnerSees(txn[r].h)))'
    BY DEF SeenOK
  <2>1. Current(r) /\ txn'[r] = txn[r] /\ txn[r].h \in Houses
    BY <1>8, EndsTyped DEF FreeInv, EndInv
  <2>2. Follows(txn[r].seen, sub[txn[r].h]) /\ Follows(txn[r].seen, RunnerSees(txn[r].h))
    BY <2>1 DEF FreeInv, SeenOK
  <2> QED
    BY <1>1, <2>1, <2>2 DEF CalmRows, Follows
<1>10. SeenRow'
  BY <1>0 DEF FreeInv, CalmRows, SeenRow
<1>11. DraftOK'
  BY DEF FreeInv, CalmRows, DraftOK
<1>12. NoneResumed'
  BY DEF FreeInv, CalmRows, NoneResumed
<1> QED
  BY <1>3, <1>4, <1>5, <1>6, <1>7, <1>9, <1>10, <1>11, <1>12 DEF FreeInv

(* The types the comparison of rows needs.                                 *)
LEMMA RowsTyped ==
  ASSUME FreeInv
  PROVE  /\ \A row \in SubRow : row.end \in Nat /\ row.grace \in Nat /\ row.trial \in Nat
         /\ \A h \in Houses : sub[h] \in SubRow /\ RunnerSees(h) \in SubRow
                               /\ RunnerSees(h).end = sub[h].end
         /\ now \in Nat /\ swept \in Nat /\ runner.clock \in Nat
         /\ TypeInv /\ TypeOK
<1>1. TypeInv /\ TypeOK
  BY DEF FreeInv, EndInv, TypeInv
<1>2. \A row \in SubRow : row.end \in Nat /\ row.grace \in Nat /\ row.trial \in Nat
  BY DEF SubRow
<1>3. \A h \in Houses : RunnerSees(h) \in SubRow /\ RunnerSees(h).end = sub[h].end
  BY SeesEnd DEF FreeInv
<1> QED
  BY <1>1, <1>2, <1>3, EndsTyped

(* The uncommitted row has only moved on.                                  *)
LEMMA SeesFollows ==
  ASSUME FreeInv, NEW h \in Houses
  PROVE  Follows(sub[h], RunnerSees(h)) /\ Follows(sub[h], sub[h])
<1>1. Follows(sub[h], sub[h])
  BY DEF Follows
<1>2. CASE runner.draft[h] = Absent
  BY <1>1, <1>2 DEF RunnerSees
<1>3. CASE runner.draft[h] # Absent
  <2>1. \/ sub[h].status = "active" /\ RunnerSees(h).status # "trialing"
        \/ /\ RunnerSees(h).status \in {sub[h].status, "expired"}
           /\ RunnerSees(h).grace = sub[h].grace
    BY <1>3 DEF FreeInv, DraftOK, RunnerSees
  <2> QED
    BY <1>1, <2>1 DEF Follows
<1> QED
  BY <1>2, <1>3

(* A request that has just read its rows.                                  *)
LEMMA LoadRows ==
  ASSUME FreeInv, EndInv', NEW r \in Requests, NEW h \in Houses, NEW op, Load(r, h, op)
  PROVE  FreeInv'
<1> DEFINE session == [h |-> h, op |-> op, seen |-> sub[h], house |-> house[h],
                       paid |-> Cardinality(bought[h])]
<1>1. /\ pc' = [pc EXCEPT ![r] = "loaded"] /\ txn' = [txn EXCEPT ![r] = session]
      /\ UNCHANGED <<runner, world, tables>>
  BY DEF Load, Continue
<1>2. TypeInv /\ TypeOK
  BY RowsTyped
<1>3. ASSUME NEW p \in Payers
      PROVE  \/ p = r /\ pc'[p] = "loaded" /\ txn'[p] = session
             \/ p # r /\ pc'[p] = pc[p] /\ txn'[p] = txn[p] /\ txn[p].h \in Houses
  BY <1>1, <1>2, EndsTyped DEF TypeOK
<1>4. session.h = h /\ session.seen = sub[h]
  OBVIOUS
<1> HIDE DEF session
<1>5. sub' = sub /\ bought' = bought /\ now' = now /\ swept' = swept /\ runner' = runner
  BY <1>1 DEF tables, world
<1>6. \A g \in Houses : RunnerSees(g)' = RunnerSees(g)
  BY <1>5 DEF RunnerSees
<1>7. SeenOK'
  <2> SUFFICES ASSUME NEW p \in Payers, Current(p)'
               PROVE  (Follows(txn[p].seen, sub[txn[p].h])
                         /\ Follows(txn[p].seen, RunnerSees(txn[p].h)))'
    BY DEF SeenOK
  <2>1. CASE p = r
    <3>1. txn'[p].h = h /\ txn'[p].seen = sub[h]
      BY <1>3, <1>4, <2>1
    <3> QED
      BY <1>5, <1>6, <3>1, SeesFollows DEF Follows
  <2>2. CASE p # r
    <3>1. Current(p) /\ txn'[p] = txn[p] /\ txn[p].h \in Houses
      BY <1>3, <1>5, <2>2 DEF Current
    <3>2. Follows(txn[p].seen, sub[txn[p].h]) /\ Follows(txn[p].seen, RunnerSees(txn[p].h))
      BY <3>1 DEF FreeInv, SeenOK
    <3> QED
      BY <1>5, <1>6, <3>1, <3>2 DEF Follows
  <2> QED
    BY <2>1, <2>2
<1>8. SeenRow'
  <2> SUFFICES ASSUME NEW p \in Payers, pc'[p] = "loaded"
               PROVE  /\ txn'[p].seen.status \in {"trialing", "active", "past_due", "expired"}
                      /\ txn'[p].seen.status = "past_due" => txn'[p].seen.grace # Null
                      /\ txn'[p].seen.status = "active" => txn'[p].seen.grace = Null
    BY DEF SeenRow
  <2>1. CASE p = r
    <3>1. txn'[p].seen = sub[h] /\ RowOK(sub[h])
      BY <1>3, <1>4, <2>1 DEF FreeInv, RowsOK
    <3> QED
      BY <3>1 DEF RowOK
  <2>2. CASE p # r
    BY <1>3, <2>2 DEF FreeInv, SeenRow
  <2> QED
    BY <2>1, <2>2
<1>9. /\ Daily' /\ RowsOK' /\ OldListed' /\ SweptRows' /\ ListActive' /\ HeldOK' /\ ListOK'
      /\ DraftOK' /\ NoneResumed'
  BY <1>5, <1>6 DEF FreeInv, Daily, RowsOK, RowOK, OldListed, SweptRows, ListActive, HeldOK,
       ListOK, DraftOK, NoneResumed, Late, Sweeping, Ahead, OnList
<1> QED
  BY <1>7, <1>8, <1>9 DEF FreeInv

(* A payment that goes through leaves the subscription usable to an end    *)
(* ahead, or as it was; no other house changes, and every other payment    *)
(* for this house is outdated.                                             *)
LEMMA PaidRow ==
  ASSUME FreeInv, LifecycleAssumption, NEW p \in Payers, PayCommit(p), Current(p)
  PROVE  LET h == txn[p].h IN
         /\ h \in Houses
         /\ sub'[h].end > now
         /\ sub'[h].status \in {"active", sub[h].status}
         /\ sub[h].status = "active" => sub'[h].status = "active"
         /\ RowOK(sub'[h])
         /\ bought'[h] # bought[h]
         /\ \A g \in Houses : g # h => sub'[g] = sub[g] /\ bought'[g] = bought[g]
         /\ UNCHANGED <<runner, now, swept>>
         /\ runner.draft[h] = Absent
         /\ \A r \in Payers : Current(r)' => /\ Current(r) /\ txn'[r] = txn[r] /\ txn[r].h # h
                                              /\ txn[r].h \in Houses
         /\ \A r \in Requests : pc'[r] = "loaded" => pc[r] = "loaded" /\ txn'[r] = txn[r]
<1> DEFINE h == txn[p].h
           seen == txn[p].seen
<1>3. PICK period, object :
      /\ object = Activated(seen, period)
      /\ period \in Period /\ period.end = period.start + Interval /\ period.start >= now
      /\ object \in SubRow
      /\ sub' = [sub EXCEPT ![h] = OrmUpdate(@, seen, object)]
      /\ sub'[h].end = period.end
      /\ bought' = [bought EXCEPT ![h] = @ \cup {period}]
      /\ \A q \in bought[h] : q.end < period.end
      /\ period \notin bought[h]
      /\ Cardinality(bought'[h]) = Cardinality(bought[h]) + 1
      /\ runner.draft[h] = Absent
      /\ UNCHANGED <<runner, world>>
      /\ \A r \in Requests : pc'[r] = "loaded" => pc[r] = "loaded" /\ txn'[r] = txn[r] /\ r # p
  BY PaidFor DEF FreeInv
<1>4. TypeInv /\ TypeOK /\ h \in Houses /\ seen \in SubRow /\ sub[h] \in SubRow
      /\ now \in Nat /\ swept \in Nat
  BY RowsTyped, EndsTyped
<1>5. /\ seen.grace \in Nat /\ seen.end \in Nat /\ sub[h].grace \in Nat /\ sub[h].end \in Nat
      /\ Grace \in Nat /\ Interval \in Nat /\ Interval > 0
      /\ period.start \in Nat /\ period.end \in Nat
  <2>1. period.start \in Nat /\ period.end \in Nat
    BY <1>3 DEF Period
  <2> QED
    BY <1>4, <2>1, RowsTyped DEF LifecycleAssumption
<1>6. object.status = "active" /\ object.grace = Null /\ object.trial = seen.trial
  BY <1>3, <1>4, ActivatedTyped
<1>7. PICK row : row = OrmUpdate(sub[h], seen, object)
  OBVIOUS
<1>8. sub'[h] = row /\ \A g \in Houses : g # h => sub'[g] = sub[g] /\ bought'[g] = bought[g]
  BY <1>3, <1>4, <1>7 DEF TypeOK
<1>9. /\ row.status = IF seen.status = "active" THEN sub[h].status ELSE "active"
      /\ row.grace = IF seen.grace = Null THEN sub[h].grace ELSE Null
      /\ row.trial = sub[h].trial
      /\ row.end = period.end
  BY <1>3, <1>4, <1>6, <1>7, <1>8, OrmSub
<1>10. period.end > now
  BY <1>3, <1>4, <1>5
<1>11. pc[p] = "loaded" /\ Follows(seen, sub[h]) /\ RowOK(sub[h])
  BY <1>4 DEF FreeInv, SeenOK, RowsOK, Current
<1>12. /\ seen.status \in {"trialing", "active", "past_due", "expired"}
       /\ seen.status = "past_due" => seen.grace # Null
       /\ seen.status = "active" => seen.grace = Null
  BY <1>11 DEF FreeInv, SeenRow
<1>13. now >= swept
  BY DEF FreeInv, EndInv, ClockOK
<1> HIDE DEF h, seen
<1>14. RowOK(row)
  <2>1. CASE seen.status = "active"
    <3>1. row.status = sub[h].status /\ row.grace = sub[h].grace /\ sub[h].status # "trialing"
      BY <1>9, <1>11, <1>12, <2>1 DEF Follows
    <3>2. row.status = "past_due" =>
            row.grace # Null /\ row.grace <= row.end + Grace + 1 /\ row.grace <= now + Grace
      BY <1>4, <1>5, <1>9, <1>10, <1>11, <3>1 DEF RowOK
    <3> QED
      BY <1>4, <1>5, <1>9, <1>10, <1>11, <1>13, <3>1, <3>2 DEF RowOK
  <2>2. CASE seen.status # "active"
    <3>1. row.status = "active" /\ row.grace = Null
      BY <1>9, <1>11, <1>12, <2>2 DEF Follows
    <3> QED
      BY <1>4, <1>5, <1>9, <1>10, <1>13, <3>1 DEF RowOK
  <2> QED
    BY <2>1, <2>2
<1>15. \A r \in Payers : Current(r)' => /\ Current(r) /\ txn'[r] = txn[r] /\ txn[r].h # h
                                         /\ txn[r].h \in Houses
  <2> SUFFICES ASSUME NEW r \in Payers, Current(r)'
               PROVE  /\ Current(r) /\ txn'[r] = txn[r] /\ txn[r].h # h /\ txn[r].h \in Houses
    OBVIOUS
  <2>1. pc'[r] = "loaded" /\ Cardinality(bought'[txn'[r].h]) = txn'[r].paid /\ r \in Requests
    BY DEF Current, Requests
  <2>2. txn'[r] = txn[r] /\ pc[r] = "loaded" /\ txn[r].h \in Houses /\ txn[r].paid \in Nat
        /\ txn[r].paid <= Cardinality(bought[txn[r].h]) /\ Cardinality(bought[h]) \in Nat
    BY <1>3, <1>4, <2>1, EndsTyped DEF FreeInv, EndInv, Counted
  <2>3. txn[r].h # h
    <3> SUFFICES ASSUME txn[r].h = h
                 PROVE  FALSE
      OBVIOUS
    <3>1. Cardinality(bought'[h]) = txn[r].paid /\ txn[r].paid <= Cardinality(bought[h])
      BY <2>1, <2>2
    <3> QED
      BY <1>3, <2>2, <3>1
  <2> QED
    BY <1>8, <2>1, <2>2, <2>3 DEF Current
<1>16. bought'[h] # bought[h]
  <2>1. bought'[h] = bought[h] \cup {period}
    BY <1>3, <1>4 DEF TypeOK
  <2> QED
    BY <1>3, <2>1
<1> QED
  BY <1>3, <1>4, <1>8, <1>9, <1>10, <1>11, <1>12, <1>14, <1>15, <1>16 DEF h, world

(* A payment keeps the invariant.                                          *)
LEMMA PayRows ==
  ASSUME FreeInv, EndInv', LifecycleAssumption, NEW p \in Payers, PayCommit(p), Current(p)
  PROVE  FreeInv'
<1>0. PICK h : h = txn[p].h
  OBVIOUS
<1>1. /\ h \in Houses
      /\ sub'[h].end > now
      /\ sub'[h].status \in {"active", sub[h].status}
      /\ sub[h].status = "active" => sub'[h].status = "active"
      /\ RowOK(sub'[h])
      /\ \A g \in Houses : g # h => sub'[g] = sub[g] /\ bought'[g] = bought[g]
      /\ runner' = runner /\ now' = now /\ swept' = swept
      /\ runner.draft[h] = Absent
      /\ \A r \in Payers : Current(r)' => /\ Current(r) /\ txn'[r] = txn[r] /\ txn[r].h # h
                                           /\ txn[r].h \in Houses
      /\ \A r \in Requests : pc'[r] = "loaded" => pc[r] = "loaded" /\ txn'[r] = txn[r]
  BY <1>0, PaidRow
<1>2. /\ RunnerSees(h)' = sub'[h] /\ RunnerSees(h) = sub[h]
      /\ \A g \in Houses : g # h => RunnerSees(g)' = RunnerSees(g)
  BY <1>1 DEF RunnerSees
<1>3. sub'[h].end \in Nat /\ now \in Nat /\ runner.clock \in Nat
  <2>1. TypeInv'
    BY DEF EndInv
  <2>2. TypeOK'
    BY <2>1 DEF TypeInv
  <2> QED
    BY <1>1, <2>2, RowsTyped DEF TypeOK, SubRow
<1>4. runner.step # "idle" => runner.clock <= now
  BY DEF FreeInv, EndInv, ClockOK
<1>5. \A row : RowOK(row)' <=> RowOK(row)
  BY <1>1 DEF RowOK
<1>6. \A g \in Houses : RowOK(sub'[g]) /\ RowOK(RunnerSees(g)')
  BY <1>1, <1>2 DEF FreeInv, RowsOK
<1>7. Daily' /\ RowsOK'
  BY <1>1, <1>6 DEF FreeInv, Daily, RowsOK, RowOK
<1>8. OldListed'
  <2> SUFFICES ASSUME Late, NEW g \in Houses, RunnerSees(g)'.status = "active",
                      RunnerSees(g)'.end < runner.clock
               PROVE  OnList(g)
    BY <1>1 DEF OldListed, Late, OnList
  <2>1. g # h
    BY <1>1, <1>2, <1>3, <1>4 DEF Late, InTurn
  <2> QED
    BY <1>2, <2>1 DEF FreeInv, OldListed
<1>9. SweptRows'
  <2> SUFFICES ASSUME Sweeping, NEW g \in Houses, sub'[g].status = "active"
               PROVE  sub'[g].end >= runner.clock
    BY <1>1 DEF SweptRows, Sweeping
  <2>1. CASE g = h
    BY <1>1, <1>3, <1>4, <2>1 DEF Sweeping
  <2>2. CASE g # h
    BY <1>1, <2>2 DEF FreeInv, SweptRows
  <2> QED
    BY <2>1, <2>2
<1>10. ListActive'
  <2> SUFFICES ASSUME NEW g \in Houses, OnList(g)
               PROVE  sub'[g].status = "active" /\ RunnerSees(g)'.status = "active"
    BY <1>1 DEF ListActive, OnList
  <2> QED
    BY <1>1, <1>2 DEF FreeInv, ListActive
<1>11. HeldOK'
  <2> SUFFICES ASSUME Ahead, NEW g \in Houses, runner.object[g] # Absent
               PROVE  /\ runner.object[g].status \in {"active", "trialing"}
                      /\ runner.object[g].grace = Null
                      /\ runner.object[g].status = "active" => runner.object[g].end >= swept
                      /\ (/\ runner.object[g].status = "trialing"
                          /\ RunnerSees(g)'.status = "active") =>
                           RunnerSees(g)'.end > runner.clock
    BY <1>1 DEF HeldOK, Ahead
  <2>1. CASE g = h
    BY <1>1, <1>2, <1>3, <1>4, <2>1 DEF FreeInv, HeldOK, Ahead
  <2>2. CASE g # h
    BY <1>2, <2>2 DEF FreeInv, HeldOK
  <2> QED
    BY <2>1, <2>2
<1>12. ListOK'
  BY <1>1 DEF FreeInv, ListOK, OnList
<1>13. SeenOK'
  <2> SUFFICES ASSUME NEW r \in Payers, Current(r)'
               PROVE  (Follows(txn[r].seen, sub[txn[r].h])
                         /\ Follows(txn[r].seen, RunnerSees(txn[r].h)))'
    BY DEF SeenOK
  <2>1. Current(r) /\ txn'[r] = txn[r] /\ txn[r].h # h /\ txn[r].h \in Houses
    BY <1>1
  <2>2. Follows(txn[r].seen, sub[txn[r].h]) /\ Follows(txn[r].seen, RunnerSees(txn[r].h))
    BY <2>1 DEF FreeInv, SeenOK
  <2> QED
    BY <1>1, <1>2, <2>1, <2>2 DEF Follows
<1>14. SeenRow'
  BY <1>1 DEF FreeInv, SeenRow, Requests
<1>15. DraftOK'
  BY <1>1 DEF FreeInv, DraftOK
<1>16. NoneResumed'
  BY <1>1 DEF FreeInv, NoneResumed
<1> QED
  BY <1>7, <1>8, <1>9, <1>10, <1>11, <1>12, <1>13, <1>14, <1>15, <1>16 DEF FreeInv

(* What the steps of the runner that change no row have in common.         *)
LEMMA SteadyRows ==
  ASSUME FreeInv, UNCHANGED <<sub, bought, pc, txn, now, swept>>,
         \A h \in Houses : RunnerSees(h)' = RunnerSees(h)
  PROVE  Daily' /\ RowsOK' /\ SeenOK' /\ SeenRow'
<1>1. Daily' /\ RowsOK' /\ SeenRow'
  BY DEF FreeInv, Daily, RowsOK, RowOK, SeenRow
<1>2. SeenOK'
  <2> SUFFICES ASSUME NEW r \in Payers, Current(r)'
               PROVE  (Follows(txn[r].seen, sub[txn[r].h])
                         /\ Follows(txn[r].seen, RunnerSees(txn[r].h)))'
    BY DEF SeenOK
  <2>1. Current(r) /\ txn[r].h \in Houses
    BY EndsTyped DEF FreeInv, EndInv, Current
  <2>2. Follows(txn[r].seen, sub[txn[r].h]) /\ Follows(txn[r].seen, RunnerSees(txn[r].h))
    BY <2>1 DEF FreeInv, SeenOK
  <2> QED
    BY <2>1, <2>2 DEF Follows
<1> QED
  BY <1>1, <1>2

(* A selection: what it lists is what OldListed and ListOK say.            *)
LEMMA EnterRows ==
  ASSUME FreeInv, EndInv', NEW group \in Groups, NEW clock \in Nat,
         Enter(group, clock),
         \/ group = "renew" /\ runner.step = "idle" /\ clock = now
         \/ group \in {"remind", "past_due"} /\ Ahead /\ clock = runner.clock
         \/ /\ group \in {"trial", "grace", "resume"} /\ clock = runner.clock
            /\ Late /\ runner.todo = {},
         UNCHANGED <<tables, pc, txn, world>>
  PROVE  FreeInv'
<1>1. TypeInv /\ TypeOK
  BY RowsTyped
<1>2. /\ runner'.step = group /\ runner'.clock = clock
      /\ runner'.todo = {h \in Houses : Due(group, h, RunnerSees(h), clock)}
      /\ runner'.object = [h \in Houses |-> IF h \in runner'.todo /\ runner.object[h] = Absent
                                             THEN RunnerSees(h) ELSE runner.object[h]]
      /\ runner'.draft = runner.draft
      /\ \A h \in runner'.todo : runner'.object[h] # Absent
  BY <1>1, Entered
<1>3. sub' = sub /\ bought' = bought /\ pc' = pc /\ txn' = txn /\ now' = now /\ swept' = swept
  BY DEF tables, world
<1>4. \A h \in Houses : RunnerSees(h)' = RunnerSees(h)
  BY <1>2, <1>3 DEF RunnerSees
<1>5. Daily' /\ RowsOK' /\ SeenOK' /\ SeenRow'
  BY <1>3, <1>4, SteadyRows
<1>6. DraftOK'
  BY <1>2, <1>3 DEF FreeInv, DraftOK
<1>7. \A h \in Houses : RowOK(RunnerSees(h))
  BY DEF FreeInv, RowsOK
<1>8. NoneResumed'
  <2>1. CASE group = "resume"
    <3>1. \A h \in Houses : ~Due(group, h, RunnerSees(h), clock)
      BY <1>7, <2>1 DEF Due, RowOK
    <3> QED
      BY <1>2, <3>1 DEF NoneResumed
  <2>2. CASE group # "resume"
    BY <1>2, <2>2 DEF NoneResumed
  <2> QED
    BY <2>1, <2>2
<1>9. SweptRows'
  BY <1>2 DEF SweptRows, Sweeping, Groups
<1>10. ASSUME NEW h \in Houses, runner'.object[h] # Absent, group \in {"renew", "remind"}
       PROVE  /\ runner'.object[h].status \in {"active", "trialing"}
              /\ runner'.object[h].grace = Null
              /\ runner'.object[h].status = "active" => runner'.object[h].end >= swept
              /\ runner'.object[h].status = "trialing" /\ RunnerSees(h).status = "active" =>
                   RunnerSees(h).end > clock
  <2>1. CASE runner.object[h] = Absent
    <3>1. runner'.object[h] = RunnerSees(h) /\ Due(group, h, RunnerSees(h), clock)
      BY <1>2, <1>10, <2>1
    <3>2. RunnerSees(h).status \in {"active", "trialing"}
      BY <1>10, <3>1 DEF Due
    <3> QED
      BY <1>7, <3>1, <3>2 DEF RowOK
  <2>2. CASE runner.object[h] # Absent
    <3>1. runner'.object[h] = runner.object[h]
      BY <1>2, <2>2
    <3>2. Ahead /\ clock = runner.clock
      BY <1>10, <2>2 DEF FreeInv, EndInv, IdleEmpty
    <3> QED
      BY <2>2, <3>1, <3>2 DEF FreeInv, HeldOK
  <2> QED
    BY <2>1, <2>2
<1>11. HeldOK'
  BY <1>2, <1>3, <1>4, <1>10 DEF HeldOK, Ahead
<1>12. ASSUME NEW h \in Houses, OnList(h)'
       PROVE  /\ RunnerSees(h).status = "active" /\ sub[h].status = "active"
              /\ runner'.object[h].status = "active" /\ runner'.object[h].grace = Null
              /\ runner'.object[h].end >= swept
  <2>1. group = "past_due" /\ h \in runner'.todo
    BY <1>2, <1>12 DEF OnList, InTurn, Groups
  <2>2. RunnerSees(h).status = "active" /\ RunnerSees(h).end < clock
    BY <1>2, <2>1 DEF Due
  <2>3. sub[h].status = "active"
    <3>1. CASE runner.draft[h] = Absent
      BY <2>2, <3>1 DEF RunnerSees
    <3>2. CASE runner.draft[h] # Absent
      BY <2>2, <3>2 DEF RunnerSees, FreeInv, DraftOK
    <3> QED
      BY <3>1, <3>2
  <2>4. CASE runner.object[h] = Absent
    <3>1. runner'.object[h] = RunnerSees(h)
      BY <1>2, <2>1, <2>4
    <3> QED
      BY <1>7, <2>2, <2>3, <3>1 DEF RowOK
  <2>5. CASE runner.object[h] # Absent
    <3>1. runner'.object[h] = runner.object[h] /\ Ahead /\ clock = runner.clock
      BY <1>2, <2>1, <2>5
    <3>2. ~(RunnerSees(h).end > runner.clock)
      BY <2>2, <3>1, RowsTyped
    <3> QED
      BY <2>2, <2>3, <2>5, <3>1, <3>2 DEF FreeInv, HeldOK
  <2> QED
    BY <2>4, <2>5
<1>13. ListActive' /\ ListOK'
  BY <1>3, <1>4, <1>12 DEF ListActive, ListOK
<1>14. OldListed'
  <2> SUFFICES ASSUME Late', NEW h \in Houses, RunnerSees(h).status = "active",
                      RunnerSees(h).end < clock
               PROVE  OnList(h)'
    BY <1>2, <1>4 DEF OldListed
  <2>1. CASE group = "past_due"
    <3>1. Due(group, h, RunnerSees(h), clock)
      BY <1>7, <2>1 DEF Due, RowOK
    <3> QED
      BY <1>2, <2>1, <3>1 DEF OnList, InTurn
  <2>2. CASE group # "past_due"
    <3>1. Late /\ clock = runner.clock /\ runner.todo = {}
      BY <1>2, <2>2 DEF Late, InTurn, Groups
    <3>2. OnList(h)
      BY <3>1 DEF FreeInv, OldListed
    <3> QED
      BY <3>1, <3>2 DEF OnList
  <2> QED
    BY <2>1, <2>2
<1> QED
  BY <1>5, <1>6, <1>8, <1>9, <1>11, <1>13, <1>14 DEF FreeInv

(* What a flush changes, and what the runner sees afterwards.              *)
LEMMA FlushSees ==
  ASSUME FreeInv, NEW h \in runner.todo, NEW object \in SubRow, NEW group \in Groups,
         Flush(h, object, group),
         NEW row, row = OrmUpdate(RunnerSees(h), runner.object[h], object)
  PROVE  /\ runner'.step = group /\ runner'.clock = runner.clock
         /\ runner'.todo = runner.todo \ {h}
         /\ runner'.object[h] = object
         /\ \A g \in Houses : g # h => runner'.object[g] = runner.object[g]
         /\ runner'.draft[h] = row /\ RunnerSees(h)' = row /\ row \in SubRow
         /\ \A g \in Houses : g # h => /\ runner'.draft[g] = runner.draft[g]
         /\ h \in Houses /\ runner.object[h] \in SubRow
<1>1. TypeInv /\ TypeOK /\ h \in Houses /\ runner.object[h] \in SubRow /\ runner.object[h] # Absent
  BY RowsTyped, HeldRow, Rows
<1>2. group \in RunnerSteps
  BY DEF RunnerSteps
<1>3. /\ runner'.step = group /\ runner'.clock = runner.clock
      /\ runner'.todo = runner.todo \ {h}
      /\ runner'.object = [runner.object EXCEPT ![h] = object]
      /\ runner'.draft = [runner.draft EXCEPT ![h] = row]
      /\ row \in SubRow
  BY <1>1, <1>2, Flushed
<1>4. /\ runner'.object[h] = object /\ runner'.draft[h] = row
      /\ \A g \in Houses : g # h => /\ runner'.object[g] = runner.object[g]
                                    /\ runner'.draft[g] = runner.draft[g]
  BY <1>1, <1>3, RunnerFields
<1>5. row # Absent
  BY <1>3, Rows
<1>6. RunnerSees(h)' = row
  BY <1>4, <1>5 DEF RunnerSees
<1> QED
  BY <1>1, <1>3, <1>4, <1>6

(* A flush keeps the invariant when the row it yields is sound and has     *)
(* only moved on.                                                          *)
LEMMA FlushRows ==
  ASSUME FreeInv, EndInv', NEW h \in runner.todo, NEW object \in SubRow,
         NEW group \in Groups \ {"resume"}, Flush(h, object, group),
         NEW row, row = OrmUpdate(RunnerSees(h), runner.object[h], object),
         UNCHANGED <<sub, bought, pc, txn, world>>,
         runner.step \in InTurn <=> group \in InTurn, Late' => Late, Ahead' => Ahead,
         RowOK(row), Follows(RunnerSees(h), row),
         \/ sub[h].status = "active" /\ row.status # "trialing"
         \/ row.status \in {sub[h].status, "expired"} /\ row.grace = sub[h].grace
              /\ row.trial = sub[h].trial,
         Late => row.status # "active" \/ row.end >= runner.clock,
         Ahead' => /\ row.status = RunnerSees(h).status /\ row.end = RunnerSees(h).end
                   /\ object.status = runner.object[h].status
                   /\ object.grace = runner.object[h].grace
                   /\ object.end = runner.object[h].end
  PROVE  FreeInv'
<1>1. /\ runner'.step = group /\ runner'.clock = runner.clock
      /\ runner'.todo = runner.todo \ {h}
      /\ runner'.object[h] = object
      /\ \A g \in Houses : g # h => runner'.object[g] = runner.object[g]
      /\ runner'.draft[h] = row /\ RunnerSees(h)' = row /\ row \in SubRow
      /\ \A g \in Houses : g # h => /\ runner'.draft[g] = runner.draft[g]
      /\ h \in Houses /\ runner.object[h] \in SubRow
  BY FlushSees
<1>2. \A g \in Houses : g # h => RunnerSees(g)' = RunnerSees(g)
  BY <1>1 DEF RunnerSees
<1>3. sub' = sub /\ bought' = bought /\ pc' = pc /\ txn' = txn /\ now' = now /\ swept' = swept
  BY DEF world
<1>4. \A g \in Houses : OnList(g)' => OnList(g) /\ g # h
  BY <1>1 DEF OnList
<1>5. \A g \in Houses : OnList(g) /\ g # h => OnList(g)'
  BY <1>1 DEF OnList
<1>6. row.end \in Nat /\ runner.clock \in Nat
  BY <1>1, RowsTyped
<1>7. Daily'
  BY <1>3 DEF FreeInv, Daily
<1>8. RowsOK'
  <2>1. \A g \in Houses : RowOK(sub[g]) /\ RowOK(RunnerSees(g)')
    BY <1>1, <1>2 DEF FreeInv, RowsOK
  <2> QED
    BY <1>3, <2>1 DEF RowsOK, RowOK
<1>9. OldListed'
  <2> SUFFICES ASSUME Late', NEW g \in Houses, RunnerSees(g)'.status = "active",
                      RunnerSees(g)'.end < runner.clock
               PROVE  OnList(g)'
    BY <1>1 DEF OldListed
  <2>1. g # h
    BY <1>1, <1>6
  <2> QED
    BY <1>2, <1>5, <2>1 DEF FreeInv, OldListed
<1>10. SweptRows'
  BY <1>1 DEF SweptRows, Sweeping, Groups
<1>11. ListActive' /\ ListOK'
  BY <1>1, <1>2, <1>3, <1>4 DEF FreeInv, ListActive, ListOK
<1>12. HeldOK'
  <2> SUFFICES ASSUME Ahead', NEW g \in Houses, runner'.object[g] # Absent
               PROVE  /\ runner'.object[g].status \in {"active", "trialing"}
                      /\ runner'.object[g].grace = Null
                      /\ runner'.object[g].status = "active" => runner'.object[g].end >= swept
                      /\ (/\ runner'.object[g].status = "trialing"
                          /\ RunnerSees(g)'.status = "active") =>
                           RunnerSees(g)'.end > runner.clock
    BY <1>1, <1>3 DEF HeldOK
  <2>1. CASE g = h
    <3>1. runner.object[h] # Absent
      BY <1>1, Rows
    <3>2. /\ runner.object[h].status \in {"active", "trialing"}
          /\ runner.object[h].grace = Null
          /\ runner.object[h].status = "active" => runner.object[h].end >= swept
          /\ (runner.object[h].status = "trialing" /\ RunnerSees(h).status = "active") =>
               RunnerSees(h).end > runner.clock
      BY <1>1, <3>1 DEF FreeInv, HeldOK
    <3> QED
      BY <1>1, <2>1, <3>2
  <2>2. CASE g # h
    BY <1>1, <1>2, <2>2 DEF FreeInv, HeldOK
  <2> QED
    BY <2>1, <2>2
<1>13. SeenOK'
  <2> SUFFICES ASSUME NEW r \in Payers, Current(r)'
               PROVE  (Follows(txn[r].seen, sub[txn[r].h])
                         /\ Follows(txn[r].seen, RunnerSees(txn[r].h)))'
    BY DEF SeenOK
  <2>0. PICK g, seen : g = txn[r].h /\ seen = txn[r].seen
    OBVIOUS
  <2>1. Current(r) /\ g \in Houses
    BY <1>3, <2>0, EndsTyped DEF FreeInv, EndInv, Current
  <2>2. Follows(seen, sub[g]) /\ Follows(seen, RunnerSees(g))
    BY <2>0, <2>1 DEF FreeInv, SeenOK
  <2>3. Follows(seen, RunnerSees(g)')
    BY <1>1, <1>2, <2>1, <2>2 DEF Follows
  <2> QED
    BY <1>3, <2>0, <2>2, <2>3 DEF Follows
<1>14. SeenRow'
  BY <1>3 DEF FreeInv, SeenRow
<1>15. DraftOK'
  BY <1>1, <1>3 DEF FreeInv, DraftOK
<1>16. NoneResumed'
  BY <1>1 DEF NoneResumed
<1> QED
  BY <1>7, <1>8, <1>9, <1>10, <1>11, <1>12, <1>13, <1>14, <1>15, <1>16 DEF FreeInv

(* A reminder and an expiry leave everything but the status of the row,    *)
(* and that is sound.                                                      *)
LEMMA MildDraft ==
  ASSUME FreeInv, NEW h \in Houses, NEW row,
         row.status \in {RunnerSees(h).status, "expired"}, row.grace = RunnerSees(h).grace,
         row.trial = RunnerSees(h).trial, row.end = RunnerSees(h).end
  PROVE  /\ RowOK(row) /\ Follows(RunnerSees(h), row)
         /\ \/ sub[h].status = "active" /\ row.status # "trialing"
            \/ row.status \in {sub[h].status, "expired"} /\ row.grace = sub[h].grace
                 /\ row.trial = sub[h].trial
<1>1. RowOK(RunnerSees(h))
  BY DEF FreeInv, RowsOK
<1>2. RowOK(row)
  BY <1>1 DEF RowOK
<1>3. Follows(RunnerSees(h), row)
  BY DEF Follows
<1>4. CASE runner.draft[h] = Absent
  <2>1. RunnerSees(h) = sub[h]
    BY <1>4 DEF RunnerSees
  <2> QED
    BY <1>2, <1>3, <2>1
<1>5. CASE runner.draft[h] # Absent
  <2>1. \/ sub[h].status = "active" /\ RunnerSees(h).status # "trialing"
        \/ /\ RunnerSees(h).status \in {sub[h].status, "expired"}
           /\ RunnerSees(h).grace = sub[h].grace
           /\ RunnerSees(h).trial = sub[h].trial
    BY <1>5 DEF FreeInv, DraftOK, RunnerSees
  <2> QED
    BY <1>2, <1>3, <2>1
<1> QED
  BY <1>4, <1>5

(* The end of a trial is announced.                                        *)
LEMMA RemindRows ==
  ASSUME FreeInv, EndInv', NEW h \in Houses, Remind(h)
  PROVE  FreeInv'
<1> DEFINE object == [runner.object[h] EXCEPT !.told = TRUE]
<1>1. /\ runner.step = "remind" /\ h \in runner.todo /\ Flush(h, object, "remind")
      /\ UNCHANGED <<sub, bought, pc, txn, world>>
  BY DEF Remind, tables
<1>2. TypeInv /\ runner.object[h] \in SubRow /\ RunnerSees(h) \in SubRow
  BY <1>1, RowsTyped, HeldRow
<1>3. /\ object \in SubRow
      /\ object.status = runner.object[h].status /\ object.end = runner.object[h].end
      /\ object.grace = runner.object[h].grace /\ object.trial = runner.object[h].trial
  BY <1>2, ToldTyped DEF SubRow
<1> HIDE DEF object
<1>4. PICK row : row = OrmUpdate(RunnerSees(h), runner.object[h], object)
  OBVIOUS
<1>5. /\ row.status = RunnerSees(h).status /\ row.end = RunnerSees(h).end
      /\ row.grace = RunnerSees(h).grace /\ row.trial = RunnerSees(h).trial
  BY <1>2, <1>3, <1>4, OrmSub
<1>6. /\ RowOK(row) /\ Follows(RunnerSees(h), row)
      /\ \/ sub[h].status = "active" /\ row.status # "trialing"
         \/ row.status \in {sub[h].status, "expired"} /\ row.grace = sub[h].grace
              /\ row.trial = sub[h].trial
  BY <1>5, MildDraft
<1>7. "remind" \in Groups \ {"resume"}
  BY DEF Groups
<1>8. runner'.step = "remind"
  BY <1>1, <1>3, <1>4, <1>7, FlushSees
<1>9. ~Late' /\ ~Late /\ Ahead /\ runner.step \notin InTurn /\ "remind" \notin InTurn
  BY <1>1, <1>8 DEF Late, Ahead, InTurn
<1> QED
  BY <1>1, <1>3, <1>4, <1>5, <1>6, <1>7, <1>9, FlushRows

(* A trial or a grace ends.                                                *)
LEMMA ExpireRows ==
  ASSUME FreeInv, EndInv', NEW h \in Houses, Expire(h)
  PROVE  FreeInv'
<1> DEFINE object == [runner.object[h] EXCEPT !.status = "expired"]
<1>1. /\ runner.step \in {"trial", "grace"} /\ h \in runner.todo /\ Flush(h, object, runner.step)
      /\ UNCHANGED <<sub, bought, pc, txn, world>>
  BY DEF Expire, tables
<1>2. TypeInv /\ runner.object[h] \in SubRow /\ RunnerSees(h) \in SubRow
  BY <1>1, RowsTyped, HeldRow
<1>3. /\ object \in SubRow
      /\ object.status = "expired" /\ object.end = runner.object[h].end
      /\ object.grace = runner.object[h].grace /\ object.trial = runner.object[h].trial
  BY <1>2, ToldTyped DEF SubRow
<1> HIDE DEF object
<1>4. PICK row : row = OrmUpdate(RunnerSees(h), runner.object[h], object)
  OBVIOUS
<1>5. /\ row.status \in {RunnerSees(h).status, "expired"} /\ row.end = RunnerSees(h).end
      /\ row.grace = RunnerSees(h).grace /\ row.trial = RunnerSees(h).trial
  BY <1>2, <1>3, <1>4, OrmSub
<1>6. /\ RowOK(row) /\ Follows(RunnerSees(h), row)
      /\ \/ sub[h].status = "active" /\ row.status # "trialing"
         \/ row.status \in {sub[h].status, "expired"} /\ row.grace = sub[h].grace
              /\ row.trial = sub[h].trial
  BY <1>5, MildDraft
<1>7. runner.step \in Groups \ {"resume"}
  BY <1>1 DEF Groups
<1>8. runner'.step = runner.step
  BY <1>1, <1>3, <1>4, <1>7, FlushSees
<1>9. ~Ahead' /\ Late /\ runner.step \notin InTurn /\ ~OnList(h)
  BY <1>1, <1>8 DEF Late, Ahead, InTurn, OnList
<1>10. row.status # "active" \/ row.end >= runner.clock
  <2>1. RunnerSees(h).end \in Nat /\ runner.clock \in Nat
    BY <1>2, RowsTyped
  <2>2. ~(RunnerSees(h).status = "active" /\ RunnerSees(h).end < runner.clock)
    BY <1>9 DEF FreeInv, OldListed
  <2> QED
    BY <1>5, <2>1, <2>2
<1> QED
  BY <1>1, <1>3, <1>4, <1>6, <1>7, <1>9, <1>10, FlushRows

(* A subscription is marked past due: its grace runs from the cycle, which *)
(* a daily cycle starts no later than the day after the end.               *)
LEMMA MarkRows ==
  ASSUME FreeInv, EndInv', LifecycleAssumption, MarkPastDue
  PROVE  FreeInv'
<1>1. PICK h : h = runner.at
  OBVIOUS
<1>2. PICK grace : grace = runner.clock + Grace
  OBVIOUS
<1> DEFINE object == [runner.object[h] EXCEPT !.status = "past_due", !.grace = grace]
<1>3. /\ runner.step = "mark" /\ Flush(h, object, "past_due")
      /\ UNCHANGED <<sub, bought, pc, txn, world>>
  BY <1>1, <1>2 DEF MarkPastDue, tables
<1>4. TypeInv /\ h \in runner.todo /\ OnList(h)
  BY <1>1, <1>3, RowsTyped DEF TypeInv, OnList, InTurn
<1>5. h \in Houses /\ runner.object[h] \in SubRow /\ RunnerSees(h) \in SubRow
  BY <1>4, RowsTyped, HeldRow
<1>6. /\ grace \in Nat /\ grace > 0 /\ runner.clock \in Nat /\ now \in Nat /\ swept \in Nat
      /\ Grace \in Nat /\ RunnerSees(h).end \in Nat
  BY <1>2, <1>5, RowsTyped DEF LifecycleAssumption
<1>7. /\ object \in SubRow
      /\ object.status = "past_due" /\ object.end = runner.object[h].end
      /\ object.grace = grace
  BY <1>5, <1>6, ToldTyped DEF SubRow
<1> HIDE DEF object
<1>8. /\ runner.object[h].status = "active" /\ runner.object[h].grace = Null
      /\ sub[h].status = "active" /\ RunnerSees(h).status = "active"
  BY <1>4, <1>5 DEF FreeInv, ListOK, ListActive
<1>9. PICK row : row = OrmUpdate(RunnerSees(h), runner.object[h], object)
  OBVIOUS
<1>10. row.status = "past_due" /\ row.end = RunnerSees(h).end /\ row.grace = grace
  BY <1>5, <1>6, <1>7, <1>8, <1>9, OrmSub
<1>11. RowOK(row)
  <2>1. RunnerSees(h).end >= swept
    BY <1>5, <1>8 DEF FreeInv, RowsOK, RowOK
  <2>2. runner.clock <= now /\ now <= swept + 1
    BY <1>3 DEF FreeInv, EndInv, ClockOK, Daily
  <2> QED
    BY <1>2, <1>6, <1>10, <2>1, <2>2 DEF RowOK
<1>12. Follows(RunnerSees(h), row)
  BY <1>8, <1>10 DEF Follows
<1>13. "past_due" \in Groups \ {"resume"}
  BY DEF Groups
<1>14. runner'.step = "past_due"
  BY <1>3, <1>4, <1>7, <1>9, <1>13, FlushSees
<1>15. ~Ahead' /\ Late /\ runner.step \in InTurn /\ "past_due" \in InTurn
  BY <1>3, <1>14 DEF Late, Ahead, InTurn
<1> QED
  BY <1>3, <1>4, <1>7, <1>8, <1>9, <1>10, <1>11, <1>12, <1>13, <1>15, FlushRows

(* After a commit of the runner its rows are the stored ones.              *)
LEMMA CommittedRows ==
  ASSUME FreeInv, UNCHANGED <<bought, pc, txn, now, swept>>,
         runner'.draft = [g \in Houses |-> Absent],
         \A h \in Houses : /\ RowOK(sub'[h])
                           /\ Follows(RunnerSees(h), sub'[h])
  PROVE  /\ Daily' /\ RowsOK' /\ SeenOK' /\ SeenRow' /\ DraftOK'
         /\ \A h \in Houses : RunnerSees(h)' = sub'[h]
<1>1. \A h \in Houses : RunnerSees(h)' = sub'[h]
  BY DEF RunnerSees
<1>2. Daily' /\ SeenRow' /\ DraftOK'
  BY DEF FreeInv, Daily, SeenRow, DraftOK
<1>3. RowsOK'
  BY <1>1 DEF RowsOK, RowOK
<1>4. SeenOK'
  <2> SUFFICES ASSUME NEW r \in Payers, Current(r)'
               PROVE  (Follows(txn[r].seen, sub[txn[r].h])
                         /\ Follows(txn[r].seen, RunnerSees(txn[r].h)))'
    BY DEF SeenOK
  <2>0. PICK g, seen : g = txn[r].h /\ seen = txn[r].seen
    OBVIOUS
  <2>1. Current(r) /\ g \in Houses
    BY <2>0, EndsTyped DEF FreeInv, EndInv, Current
  <2>2. Follows(seen, RunnerSees(g))
    BY <2>0, <2>1 DEF FreeInv, SeenOK
  <2>3. Follows(seen, sub'[g])
    BY <2>1, <2>2 DEF Follows
  <2> QED
    BY <1>1, <2>0, <2>1, <2>3 DEF Follows
<1> QED
  BY <1>1, <1>2, <1>3, <1>4

(* A roll leaves the subscription active and not due.                      *)
LEMMA RolledRow ==
  ASSUME FreeInv, LifecycleAssumption, NEW h \in Houses, LookForPaidPeriod(h), PaidNext(h) # {}
  PROVE  /\ sub'[h].status = "active" /\ sub'[h].end >= runner.clock
         /\ RowOK(sub'[h]) /\ Follows(RunnerSees(h), sub'[h])
         /\ \A g \in Houses : g # h => sub'[g] = RunnerSees(g)
         /\ runner'.step = "rolled" /\ runner'.clock = runner.clock
         /\ runner'.todo = runner.todo \ {h}
         /\ \A g \in Houses : g # h => runner'.object[g] = runner.object[g]
         /\ runner'.draft = [g \in Houses |-> Absent]
         /\ runner.step = "past_due" /\ OnList(h)
<1>1. TypeInv /\ TypeOK
  BY RowsTyped
<1>2. PICK q \in PaidNext(h), row \in SubRow :
        /\ q \in Period /\ q \in bought[h] /\ q.start >= runner.object[h].end
        /\ h \in runner.todo /\ runner.object[h] \in SubRow
        /\ row = OrmUpdate(RunnerSees(h), runner.object[h], Activated(runner.object[h], q))
        /\ sub' = [g \in Houses |-> IF g = h THEN row ELSE RunnerSees(g)]
        /\ runner'.step = "rolled" /\ runner'.clock = runner.clock
        /\ runner'.todo = runner.todo \ {h}
        /\ runner'.object = [runner.object EXCEPT ![h] = row]
        /\ runner'.draft = [g \in Houses |-> Absent]
  BY <1>1, Rolled
<1>3. runner.step = "past_due" /\ OnList(h)
  BY <1>2 DEF LookForPaidPeriod, OnList, InTurn
<1>4. /\ runner.object[h].status = "active" /\ runner.object[h].grace = Null
      /\ runner.object[h].end >= swept
      /\ RunnerSees(h).status = "active" /\ RunnerSees(h).grace = Null
  BY <1>3 DEF FreeInv, ListOK, ListActive, RowsOK, RowOK
<1>5. /\ q.end = q.start + Interval /\ Interval \in Nat /\ Interval > 0
      /\ q.start \in Nat /\ q.end \in Nat /\ runner.object[h].end \in Nat
      /\ now \in Nat /\ swept \in Nat /\ runner.clock \in Nat
      /\ RunnerSees(h) \in SubRow
  BY <1>2, RowsTyped DEF FreeInv, EndInv, PeriodsWhole, LifecycleAssumption, Period
<1>6. q.end > runner.object[h].end /\ q.end >= runner.clock /\ q.end >= swept
  <2>1. runner.clock <= now /\ now <= swept + 1
    BY <1>3 DEF FreeInv, EndInv, ClockOK, Daily
  <2> QED
    BY <1>2, <1>4, <1>5, <2>1
<1>7. /\ Activated(runner.object[h], q) \in SubRow
      /\ Activated(runner.object[h], q).status = "active"
      /\ Activated(runner.object[h], q).end = q.end
      /\ Activated(runner.object[h], q).grace = Null
  BY <1>2, ActivatedTyped
<1>8. row.status = "active" /\ row.end = q.end /\ row.grace = Null
  BY <1>2, <1>4, <1>5, <1>6, <1>7, OrmSub
<1>9. sub'[h] = row
  BY <1>2
<1>10. RowOK(row) /\ Follows(RunnerSees(h), row)
  BY <1>4, <1>6, <1>8 DEF RowOK, Follows
<1>11. \A g \in Houses : g # h => runner'.object[g] = runner.object[g]
  BY <1>1, <1>2, RunnerFields
<1> QED
  BY <1>2, <1>3, <1>6, <1>8, <1>9, <1>10, <1>11

(* A row has moved on from itself.                                         *)
LEMMA FollowsSelf ==
  ASSUME NEW row
  PROVE  Follows(row, row)
  BY DEF Follows

(* A roll keeps the invariant.                                             *)
LEMMA RollRows ==
  ASSUME FreeInv, EndInv', LifecycleAssumption, NEW h \in Houses, LookForPaidPeriod(h),
         PaidNext(h) # {}
  PROVE  FreeInv'
<1>1. /\ sub'[h].status = "active" /\ sub'[h].end >= runner.clock
      /\ RowOK(sub'[h]) /\ Follows(RunnerSees(h), sub'[h])
      /\ \A g \in Houses : g # h => sub'[g] = RunnerSees(g)
      /\ runner'.step = "rolled" /\ runner'.clock = runner.clock
      /\ runner'.todo = runner.todo \ {h}
      /\ \A g \in Houses : g # h => runner'.object[g] = runner.object[g]
      /\ runner'.draft = [g \in Houses |-> Absent]
      /\ runner.step = "past_due" /\ OnList(h)
  BY RolledRow
<1>2. bought' = bought /\ pc' = pc /\ txn' = txn /\ now' = now /\ swept' = swept
  BY DEF LookForPaidPeriod, world
<1>3. \A g \in Houses : RowOK(sub'[g]) /\ Follows(RunnerSees(g), sub'[g])
  BY <1>1, FollowsSelf DEF FreeInv, RowsOK
<1>4. /\ Daily' /\ RowsOK' /\ SeenOK' /\ SeenRow' /\ DraftOK'
      /\ \A g \in Houses : RunnerSees(g)' = sub'[g]
  BY <1>1, <1>2, <1>3, CommittedRows
<1>5. \A g \in Houses : OnList(g)' <=> OnList(g) /\ g # h
  BY <1>1 DEF OnList, InTurn
<1>6. OldListed'
  <2> SUFFICES ASSUME NEW g \in Houses, sub'[g].status = "active", sub'[g].end < runner.clock
               PROVE  OnList(g)'
    BY <1>1, <1>4 DEF OldListed
  <2>1. g # h
    <3>1. sub'[h].end \in Nat /\ runner.clock \in Nat
      <4>1. TypeOK'
        BY DEF EndInv, TypeInv
      <4> QED
        BY <4>1, RowsTyped DEF TypeOK, SubRow
    <3> QED
      BY <1>1, <3>1
  <2>2. OnList(g)
    BY <1>1, <2>1 DEF FreeInv, OldListed, Late, InTurn
  <2> QED
    BY <1>5, <2>1, <2>2
<1>7. ListActive'
  BY <1>1, <1>4, <1>5 DEF FreeInv, ListActive
<1>8. ListOK'
  BY <1>1, <1>2, <1>5 DEF FreeInv, ListOK
<1>9. SweptRows' /\ HeldOK' /\ NoneResumed'
  BY <1>1 DEF SweptRows, Sweeping, HeldOK, Ahead, NoneResumed
<1> QED
  BY <1>4, <1>6, <1>7, <1>8, <1>9 DEF FreeInv

(* The commit of a cycle.                                                  *)
LEMMA CommitRows ==
  ASSUME FreeInv, EndInv', CommitCycle
  PROVE  FreeInv'
<1>1. /\ runner.step = "commit" /\ runner'.step = "judge" /\ runner'.clock = runner.clock
      /\ runner'.draft = [g \in Houses |-> Absent]
  BY RunnerStep, RowsTyped DEF CommitCycle, Idle
<1>2. bought' = bought /\ pc' = pc /\ txn' = txn /\ now' = now /\ swept' = swept
  BY DEF CommitCycle, world
<1>3. \A g \in Houses : sub'[g] = RunnerSees(g)
  BY DEF CommitCycle
<1>4. \A g \in Houses : RowOK(sub'[g]) /\ Follows(RunnerSees(g), sub'[g])
  BY <1>3, FollowsSelf DEF FreeInv, RowsOK
<1>5. /\ Daily' /\ RowsOK' /\ SeenOK' /\ SeenRow' /\ DraftOK'
  BY <1>1, <1>2, <1>4, CommittedRows
<1>6. SweptRows'
  <2> SUFFICES ASSUME NEW g \in Houses, RunnerSees(g).status = "active"
               PROVE  RunnerSees(g).end >= runner.clock
    BY <1>1, <1>3 DEF SweptRows
  <2>1. ~(RunnerSees(g).end < runner.clock)
    BY <1>1 DEF FreeInv, OldListed, Late, OnList, InTurn
  <2> QED
    BY <2>1, RowsTyped
<1>7. OldListed' /\ ListActive' /\ ListOK' /\ HeldOK' /\ NoneResumed'
  BY <1>1 DEF OldListed, Late, InTurn, ListActive, ListOK, OnList, HeldOK, Ahead, NoneResumed
<1> QED
  BY <1>5, <1>6, <1>7 DEF FreeInv

(* The end of a cycle, also by a crash: what it had not committed is gone, *)
(* and its rows are the stored ones again.                                 *)
LEMMA IdleRows ==
  ASSUME FreeInv, EndInv', SyncHouses \/ Crash
  PROVE  FreeInv'
<1>1. /\ runner'.step = "idle" /\ runner'.todo = {}
      /\ runner'.draft = [g \in Houses |-> Absent]
  BY DEF SyncHouses, Crash, Idle
<1>2. UNCHANGED <<sub, bought, pc, txn, now>>
  BY DEF SyncHouses, Crash, tables
<1>3. \A h \in Houses : RunnerSees(h)' = sub[h]
  BY <1>1, <1>2 DEF RunnerSees
<1>4. /\ now \in Nat /\ swept \in Nat /\ runner.clock \in Nat
      /\ swept <= runner.clock /\ now <= swept + 1
  BY RowsTyped DEF FreeInv, EndInv, ClockOK, Daily, SyncHouses, Crash
<1>5. Daily'
  BY <1>2, <1>4 DEF SyncHouses, Crash, Daily
<1>6. RowsOK'
  <2>1. CASE SyncHouses
    <3>1. /\ swept' = runner.clock
          /\ \A h \in Houses : sub[h].status = "active" => sub[h].end >= runner.clock
      BY <2>1 DEF SyncHouses, FreeInv, SweptRows, Sweeping
    <3> QED
      BY <1>2, <1>3, <3>1 DEF FreeInv, RowsOK, RowOK
  <2>2. CASE Crash
    <3>1. swept' = swept
      BY <2>2 DEF Crash
    <3> QED
      BY <1>2, <1>3, <3>1 DEF FreeInv, RowsOK, RowOK
  <2> QED
    BY <2>1, <2>2
<1>7. SeenOK'
  <2> SUFFICES ASSUME NEW r \in Payers, Current(r)'
               PROVE  (Follows(txn[r].seen, sub[txn[r].h])
                         /\ Follows(txn[r].seen, RunnerSees(txn[r].h)))'
    BY DEF SeenOK
  <2>0. PICK g, seen : g = txn[r].h /\ seen = txn[r].seen
    OBVIOUS
  <2>1. Current(r) /\ g \in Houses
    BY <1>2, <2>0, EndsTyped DEF FreeInv, EndInv, Current
  <2>2. Follows(seen, sub[g])
    BY <2>0, <2>1 DEF FreeInv, SeenOK
  <2> QED
    BY <1>2, <1>3, <2>0, <2>1, <2>2 DEF Follows
<1>8. SeenRow'
  BY <1>2 DEF FreeInv, SeenRow
<1>9. DraftOK'
  BY <1>1 DEF DraftOK
<1>10. OldListed' /\ SweptRows' /\ ListActive' /\ ListOK' /\ HeldOK' /\ NoneResumed'
  BY <1>1 DEF OldListed, Late, Sweeping, SweptRows, InTurn, ListActive, ListOK, OnList, HeldOK,
       Ahead, NoneResumed
<1> QED
  BY <1>5, <1>6, <1>7, <1>8, <1>9, <1>10 DEF FreeInv

(* The day changes after a completed cycle only.                           *)
LEMMA TickRows ==
  ASSUME FreeInv, EndInv', LifecycleAssumption, Punctual, Tick
  PROVE  FreeInv'
<1>1. /\ UNCHANGED <<sub, bought, runner, pc, txn, swept>> /\ now' = now + 1 /\ swept = now
  BY DEF Tick, tables
<1>2. \A h \in Houses : RunnerSees(h)' = RunnerSees(h)
  BY <1>1 DEF RunnerSees
<1>3. Daily'
  BY <1>1, RowsTyped DEF Daily
<1>4. RowsOK'
  <2>1. ASSUME NEW row \in SubRow, RowOK(row)
        PROVE  RowOK(row)'
    <3>1. row.grace \in Nat /\ now \in Nat /\ Grace \in Nat
      BY RowsTyped DEF LifecycleAssumption
    <3> QED
      BY <1>1, <2>1, <3>1 DEF RowOK
  <2>2. \A h \in Houses : /\ sub[h] \in SubRow /\ RunnerSees(h) \in SubRow
                          /\ RowOK(sub[h]) /\ RowOK(RunnerSees(h))
    BY RowsTyped DEF FreeInv, RowsOK
  <2> QED
    BY <1>1, <1>2, <2>1, <2>2 DEF RowsOK, RowOK
<1>5. \A r \in Payers : Current(r)' => Current(r) /\ txn[r].h \in Houses
  BY <1>1, EndsTyped DEF FreeInv, EndInv, Current
<1>6. SeenOK' /\ SeenRow'
  BY <1>1, <1>2, <1>5 DEF FreeInv, SeenOK, SeenRow, Follows
<1>7. /\ OldListed' /\ SweptRows' /\ ListActive' /\ ListOK' /\ HeldOK' /\ NoneResumed' /\ DraftOK'
  BY <1>1, <1>2 DEF FreeInv, OldListed, Late, Sweeping, SweptRows, ListActive, ListOK, OnList,
       HeldOK, Ahead, NoneResumed, DraftOK
<1> QED
  BY <1>3, <1>4, <1>6, <1>7 DEF FreeInv

(* Houses start sound.                                                     *)
LEMMA InitRows ==
  ASSUME Init, LifecycleAssumption, KindsAssumption, Houses # {}
  PROVE  FreeInv
<1>1. EndInv
  BY InitEnds
<1>2. PICK new \in SUBSET Houses : sub = [h \in Houses |-> IF h \in new THEN Selected ELSE Paid]
  BY DEF Init
<1>3. /\ \A r \in Requests : pc[r] # "loaded"
      /\ runner.step = "idle"
      /\ \A h \in Houses : runner.draft[h] = Absent
      /\ now = 1 /\ swept = 0
  BY IdleTyped DEF Init
<1>4. RowOK(Selected) /\ RowOK(Paid)
  <2>1. FreeTier \in Nat /\ Interval \in Nat
    BY DEF LifecycleAssumption
  <2>2. RowOK(Selected)
    BY <1>3, <2>1 DEF RowOK, Selected
  <2>3. Paid.status = "active" /\ Paid.end = 1 + Interval /\ Paid.grace = Null
    BY DEF Paid, Selected
  <2>4. RowOK(Paid)
    BY <1>3, <2>1, <2>3 DEF RowOK
  <2> QED
    BY <2>2, <2>4
<1>5. RowsOK
  BY <1>2, <1>3, <1>4 DEF RowsOK, RunnerSees
<1> QED
  BY <1>1, <1>3, <1>5 DEF FreeInv, Daily, OldListed, SweptRows, ListActive, HeldOK, ListOK,
       SeenOK, SeenRow, DraftOK, NoneResumed, Late, Sweeping, Ahead, InTurn, OnList, Current,
       Requests

(* A request that stores nothing.                                          *)
LEMMA QuietRows ==
  ASSUME FreeInv, NEW r \in Requests, Finish(r), UNCHANGED <<sub, bought>>
  PROVE  CalmRows
<1>1. /\ pc' = [pc EXCEPT ![r] = "done"] /\ txn' = [txn EXCEPT ![r] = Blank]
      /\ UNCHANGED <<runner, world>>
  BY DEF Finish, Continue
<1>2. TypeOK
  BY RowsTyped
<1>3. \A s \in Requests : pc'[s] = "loaded" => pc[s] = "loaded" /\ txn'[s] = txn[s]
  BY <1>1, <1>2 DEF TypeOK
<1> QED
  BY <1>1, <1>3 DEF CalmRows, OnList, Late, Sweeping, Ahead, world

(* The steps of the cycle that change no row.                              *)
LEMMA TurnRows ==
  ASSUME FreeInv, NEW h \in Houses,
         \/ IssueRenewal(h) \/ SyncRolled \/ JudgeHouses \/ ReadHouses
         \/ NextGroup /\ runner' = [runner EXCEPT !.step = "commit"] /\ runner.step = "resume"
         \/ LookForPaidPeriod(h) /\ PaidNext(h) = {}
  PROVE  CalmRows
<1>1. runner \in RunnerRow
  BY RowsTyped DEF TypeOK, RunnerRow
<1>2. CASE IssueRenewal(h)
  <2>1. runner.step = "renew" /\ runner' = [runner EXCEPT !.todo = @ \ {h}]
    BY <1>2 DEF IssueRenewal
  <2>2. /\ runner'.step = "renew" /\ runner'.clock = runner.clock /\ runner'.object = runner.object
        /\ runner'.draft = runner.draft
    BY <1>1, <2>1 DEF RunnerRow
  <2> QED
    BY <1>2, <2>1, <2>2 DEF IssueRenewal, CalmRows, OnList, InTurn, Late, Sweeping, Ahead, world
<1>3. CASE SyncRolled
  <2>1. runner.step = "rolled" /\ runner' = [runner EXCEPT !.step = "past_due"]
    BY <1>3 DEF SyncRolled
  <2>2. /\ runner'.step = "past_due" /\ runner'.clock = runner.clock
        /\ runner'.object = runner.object
        /\ runner'.draft = runner.draft /\ runner'.todo = runner.todo
    BY <1>1, <2>1 DEF RunnerRow
  <2> QED
    BY <1>3, <2>1, <2>2 DEF SyncRolled, CalmRows, OnList, InTurn, Late, Sweeping, Ahead, world
<1>4. CASE JudgeHouses
  <2>1. PICK judged : runner' = [runner EXCEPT !.step = "read", !.judged = judged]
    BY <1>4 DEF JudgeHouses
  <2>2. runner.step = "judge"
    BY <1>4 DEF JudgeHouses
  <2>3. /\ runner'.step = "read" /\ runner'.clock = runner.clock /\ runner'.object = runner.object
        /\ runner'.draft = runner.draft /\ runner'.todo = runner.todo
    BY <1>1, <2>1 DEF RunnerRow
  <2> QED
    BY <1>4, <2>2, <2>3 DEF JudgeHouses, CalmRows, OnList, InTurn, Late, Sweeping, Ahead, world,
         tables
<1>5. CASE ReadHouses
  <2>1. runner.step = "read" /\ runner' = [runner EXCEPT !.step = "write", !.houses = house]
    BY <1>5 DEF ReadHouses
  <2>2. /\ runner'.step = "write" /\ runner'.clock = runner.clock /\ runner'.object = runner.object
        /\ runner'.draft = runner.draft /\ runner'.todo = runner.todo
    BY <1>1, <2>1 DEF RunnerRow
  <2> QED
    BY <1>5, <2>1, <2>2 DEF ReadHouses, CalmRows, OnList, InTurn, Late, Sweeping, Ahead, world,
         tables
<1>6. CASE NextGroup /\ runner' = [runner EXCEPT !.step = "commit"] /\ runner.step = "resume"
  <2>1. /\ runner'.step = "commit" /\ runner'.clock = runner.clock /\ runner'.object = runner.object
        /\ runner'.draft = runner.draft /\ runner'.todo = runner.todo
    BY <1>1, <1>6 DEF RunnerRow
  <2> QED
    BY <1>6, <2>1 DEF NextGroup, CalmRows, OnList, InTurn, Late, Sweeping, Ahead, world, tables
<1>7. CASE LookForPaidPeriod(h) /\ PaidNext(h) = {}
  <2>1. runner.step = "past_due" /\ runner' = [runner EXCEPT !.step = "mark", !.at = h]
    BY <1>7 DEF LookForPaidPeriod
  <2>2. /\ runner'.step = "mark" /\ runner'.clock = runner.clock /\ runner'.object = runner.object
        /\ runner'.draft = runner.draft /\ runner'.todo = runner.todo
    BY <1>1, <2>1 DEF RunnerRow
  <2> QED
    BY <1>7, <2>1, <2>2 DEF LookForPaidPeriod, CalmRows, OnList, InTurn, Late, Sweeping, Ahead,
         world
<1> QED
  BY <1>2, <1>3, <1>4, <1>5, <1>6, <1>7

(* From one group to the next.                                             *)
LEMMA NextGroupRows ==
  ASSUME FreeInv, EndInv', StartCycle \/ NextGroup
  PROVE  FreeInv'
<1>1. runner.clock \in Nat /\ now \in Nat
  BY RowsTyped
<1>2. UNCHANGED <<tables, pc, txn, world>>
  BY DEF StartCycle, NextGroup
<1>3. CASE StartCycle
  <2>1. "renew" \in Groups
    BY DEF Groups
  <2> QED
    BY <1>1, <1>2, <1>3, <2>1, EnterRows DEF StartCycle
<1>4. CASE NextGroup /\ runner.step = "resume"
  <2>1. runner' = [runner EXCEPT !.step = "commit"]
    BY <1>4 DEF NextGroup
  <2>2. PICK h : h \in Houses
    BY RowsTyped DEF TypeOK
  <2> QED
    BY <1>4, <2>1, <2>2, TurnRows, CalmKeepsRows
<1>5. CASE NextGroup /\ runner.step # "resume"
  <2>1. PICK group \in {"remind", "past_due", "trial", "grace", "resume"} :
          /\ Enter(group, runner.clock) /\ runner.todo = {}
          /\ group \in {"remind", "past_due"} => Ahead
          /\ group \in {"trial", "grace", "resume"} => Late
    BY <1>5 DEF NextGroup, Ahead, Late, InTurn
  <2>2. group \in Groups
    BY DEF Groups
  <2> QED
    BY <1>1, <1>2, <2>1, <2>2, EnterRows
<1> QED
  BY <1>3, <1>4, <1>5

(* Every step keeps the invariant.                                         *)
LEMMA NextRows ==
  ASSUME FreeInv, LifecycleAssumption, Houses # {}, Punctual,
         Members = {}, Overrides = {}, Extensions = {},
         [Next /\ Unhurried /\ Undoubled]_vars
  PROVE  FreeInv'
<1>1. EndInv'
  BY NextEnds DEF FreeInv
<1>2. Members \cup Admins = {}
  BY DEF Admins
<1>3. CASE Arrive
  <2>1. \E r \in Requests, h \in Houses : \E op : Load(r, h, op)
    BY <1>3 DEF Arrive, PayLoad, HouseEditLoad, Requests
  <2> QED
    BY <1>1, <2>1, LoadRows
<1>4. ASSUME NEW r \in Requests, Advance(r), Undoubled
      PROVE  FreeInv'
  <2>1. CASE r \in Payers /\ PayCommit(r)
    <3>1. TypeOK
      BY DEF FreeInv, EndInv, TypeInv
    <3> QED
      BY <1>1, <1>4, <2>1, <3>1, PaysCurrent, PayRows
  <2>2. CASE PayRefused(r) \/ PaySync(r) \/ HouseEditCommit(r)
    <3>1. Finish(r) /\ UNCHANGED <<sub, bought>>
      BY <2>2 DEF PayRefused, PaySync, HouseEditCommit, tables
    <3> QED
      BY <1>1, <3>1, QuietRows, CalmKeepsRows
  <2> QED
    BY <1>2, <1>4, <2>1, <2>2 DEF Advance
<1>5. ASSUME NEW h \in Houses, RenewRequest(h)
      PROVE  FreeInv'
  <2>1. CalmRows
    BY <1>5 DEF RenewRequest, CalmRows, OnList, Late, Sweeping, Ahead, world
  <2> QED
    BY <1>1, <2>1, CalmKeepsRows
<1>6. CASE StartCycle \/ NextGroup
  BY <1>1, <1>6, NextGroupRows
<1>7. ASSUME NEW h \in Houses, LookForPaidPeriod(h)
      PROVE  FreeInv'
  BY <1>1, <1>7, RollRows, TurnRows, CalmKeepsRows
<1>8. ASSUME NEW h \in Houses, \/ IssueRenewal(h) \/ SyncRolled
                               \/ JudgeHouses \/ ReadHouses
      PROVE  FreeInv'
  BY <1>1, <1>8, TurnRows, CalmKeepsRows
<1>9. ASSUME NEW h \in Houses, Remind(h) \/ Expire(h) \/ Resume(h) \/ MarkPastDue
      PROVE  FreeInv'
  <2>1. ~Resume(h)
    BY DEF Resume, FreeInv, NoneResumed
  <2> QED
    BY <1>1, <1>9, <2>1, RemindRows, ExpireRows, MarkRows
<1>10. CASE CommitCycle
  BY <1>1, <1>10, CommitRows
<1>11. CASE SyncHouses \/ Crash
  BY <1>1, <1>11, IdleRows
<1>12. CASE Tick
  BY <1>1, <1>12, TickRows
<1>13. CASE UNCHANGED vars
  <2>1. CalmRows
    BY <1>13 DEF vars, CalmRows, OnList, Late, Sweeping, Ahead
  <2> QED
    BY <1>1, <2>1, CalmKeepsRows
<1>14. CASE Cycle
  BY <1>6, <1>7, <1>8, <1>9, <1>10, <1>11, <1>14 DEF Cycle
<1> QED
  BY <1>3, <1>4, <1>5, <1>11, <1>12, <1>13, <1>14 DEF Next, Proceed

(* The invariant bounds free time: an active subscription is usable for    *)
(* the grace after its end by the clock, a past due one to the end of its  *)
(* grace, which the invariant ties to the end of its period, and a trial   *)
(* to its own.                                                             *)
LEMMA BoundedTime ==
  ASSUME FreeInv, LifecycleAssumption
  PROVE  FreeTimeBounded
<1> SUFFICES ASSUME NEW h \in Houses, Entitled(h)
             PROVE  now <= sub[h].end + Grace
  BY DEF FreeTimeBounded
<1>1. /\ sub[h].end \in Nat /\ sub[h].grace \in Nat /\ sub[h].trial \in Nat
      /\ now \in Nat /\ Grace \in Nat /\ Grace > 0
  BY RowsTyped DEF LifecycleAssumption
<1>2. RowOK(sub[h])
  BY DEF FreeInv, RowsOK
<1>3. EffectiveStatus(sub[h], now) \in {"active", "trialing", "past_due"}
  BY DEF Entitled, IsEntitled
<1>4. CASE sub[h].status = "trialing"
  BY <1>1, <1>2, <1>3, <1>4 DEF RowOK, EffectiveStatus
<1>5. CASE sub[h].status = "active"
  BY <1>1, <1>2, <1>3, <1>5 DEF RowOK, EffectiveStatus
<1>6. CASE sub[h].status = "past_due"
  BY <1>1, <1>2, <1>3, <1>6 DEF RowOK, EffectiveStatus
<1>7. CASE sub[h].status = "expired"
  BY <1>3, <1>7 DEF EffectiveStatus
<1> QED
  BY <1>2, <1>4, <1>5, <1>6, <1>7 DEF RowOK

(* A subscription that has been paid for is usable for at most the grace   *)
(* after its end, counted from the cycle that notices it, however          *)
(* payments, edits of the house, cycles and crashes interleave. Members,   *)
(* overrides and extensions are left out because resuming a paused         *)
(* subscription and set_status start a grace anew. Punctual is assumed     *)
(* because a runner that is down for days notices that many days late.     *)
THEOREM FreeTimeAlwaysBounded ==
  ASSUME Houses # {}, Members = {}, Overrides = {}, Extensions = {}, Punctual
  PROVE  Spec /\ [][Unhurried]_vars /\ [][Undoubled]_vars => []FreeTimeBounded
<1>1. Init => FreeInv
  BY InitRows, LifecycleAssumption, KindsAssumption
<1>2. FreeInv /\ [Next]_vars /\ [Unhurried]_vars /\ [Undoubled]_vars => FreeInv'
  BY NextRows, LifecycleAssumption
<1>3. FreeInv => FreeTimeBounded
  BY BoundedTime, LifecycleAssumption
<1> QED
  BY <1>1, <1>2, <1>3, PTL DEF Spec

(* A row that has expired today has expired tomorrow.                      *)
LEMMA RowBlocked ==
  ASSUME NEW row \in SubRow, NEW t \in Nat, LifecycleAssumption,
         EffectiveStatus(row, t) = "expired"
  PROVE  ~IsEntitled(row, t) /\ ~IsEntitled(row, t + 1)
<1>1. row.end \in Nat /\ row.grace \in Nat /\ row.trial \in Nat /\ row.status \in Statuses
      /\ Grace \in Nat
  BY DEF SubRow, LifecycleAssumption
<1>2. ~IsEntitled(row, t)
  BY DEF IsEntitled
<1>3. EffectiveStatus(row, t + 1) = "expired"
  <2>1. CASE row.status = "trialing"
    BY <1>1, <2>1 DEF EffectiveStatus
  <2>2. CASE row.status = "active"
    BY <1>1, <2>2 DEF EffectiveStatus
  <2>3. CASE row.status = "past_due"
    BY <1>1, <2>3 DEF EffectiveStatus
  <2>4. CASE row.status \notin {"trialing", "active", "past_due"}
    BY <2>4 DEF EffectiveStatus
  <2> QED
    BY <2>1, <2>2, <2>3, <2>4
<1> QED
  BY <1>2, <1>3 DEF IsEntitled

(* A row stored as active is usable today.                                 *)
LEMMA ActiveUsable ==
  ASSUME FreeInv, LifecycleAssumption, Grace >= 2, NEW h \in Houses, sub[h].status = "active"
  PROVE  EffectiveStatus(sub[h], now) # "expired"
<1>1. sub[h].end >= swept /\ now <= swept + 1
  BY DEF FreeInv, RowsOK, RowOK, Daily
<1>2. sub[h].end \in Nat /\ now \in Nat /\ swept \in Nat /\ Grace \in Nat
  BY RowsTyped DEF LifecycleAssumption
<1> QED
  BY <1>1, <1>2 DEF EffectiveStatus

(* What the runner has uncommitted for an expired row is not usable        *)
(* either.                                                                 *)
LEMMA SeesBlocked ==
  ASSUME FreeInv, LifecycleAssumption, Grace >= 2, NEW h \in Houses,
         EffectiveStatus(sub[h], now) = "expired"
  PROVE  ~IsEntitled(RunnerSees(h), now)
<1>1. sub[h] \in SubRow /\ RunnerSees(h) \in SubRow /\ RunnerSees(h).end = sub[h].end /\ now \in Nat
  BY RowsTyped
<1>2. CASE runner.draft[h] = Absent
  BY <1>1, <1>2, RowBlocked DEF RunnerSees
<1>3. CASE runner.draft[h] # Absent
  <2>1. sub[h].status # "active"
    BY ActiveUsable
  <2>2. /\ RunnerSees(h).status \in {sub[h].status, "expired"}
        /\ RunnerSees(h).grace = sub[h].grace /\ RunnerSees(h).trial = sub[h].trial
    BY <1>3, <2>1 DEF FreeInv, DraftOK, RunnerSees
  <2>3. EffectiveStatus(RunnerSees(h), now) \in {EffectiveStatus(sub[h], now), "expired"}
    BY <1>1, <2>2 DEF EffectiveStatus
  <2> QED
    BY <2>3 DEF IsEntitled
<1> QED
  BY <1>2, <1>3

(* No step makes an expired subscription usable but a payment.             *)
LEMMA StaysBlocked ==
  ASSUME FreeInv, LifecycleAssumption, Houses # {}, Punctual, Grace >= 2,
         Members = {}, Overrides = {}, Extensions = {},
         [Next /\ Unhurried /\ Undoubled]_vars,
         NEW h \in Houses, EffectiveStatus(sub[h], now) = "expired", IsEntitled(sub'[h], now')
  PROVE  bought'[h] # bought[h]
<1>1. sub[h] \in SubRow /\ now \in Nat
  BY RowsTyped
<1>2. ~IsEntitled(sub[h], now) /\ ~IsEntitled(sub[h], now + 1)
  BY <1>1, RowBlocked
<1>3. ASSUME sub' = sub, now' \in {now, now + 1}
      PROVE  FALSE
  BY <1>2, <1>3
<1>4. ASSUME sub'[h] = RunnerSees(h), now' = now
      PROVE  FALSE
  BY <1>4, SeesBlocked
<1>5. Members \cup Admins = {}
  BY DEF Admins
<1>6. CASE Arrive
  <2>1. sub' = sub /\ now' = now
    BY <1>6 DEF Arrive, PayLoad, MemberLoad, OverrideLoad, ExtendLoad, HouseEditLoad, Load,
         Continue, tables, world
  <2> QED
    BY <1>3, <2>1
<1>7. ASSUME NEW r \in Requests, Advance(r), Undoubled
      PROVE  bought'[h] # bought[h]
  <2>1. CASE r \in Payers /\ PayCommit(r)
    <3>0. Current(r)
      BY <1>7, <2>1, PaysCurrent DEF FreeInv, EndInv, TypeInv
    <3>1. h # txn[r].h => sub'[h] = sub[h] /\ now' = now
      BY <2>1, <3>0, PaidRow
    <3>2. bought'[txn[r].h] # bought[txn[r].h]
      BY <2>1, <3>0, PaidRow
    <3> QED
      BY <1>2, <3>1, <3>2
  <2>2. CASE PayRefused(r) \/ PaySync(r) \/ HouseEditCommit(r)
    <3>1. Finish(r) /\ sub' = sub
      BY <2>2 DEF PayRefused, PaySync, HouseEditCommit, tables
    <3> QED
      BY <1>3, <3>1 DEF Finish, Continue, world
  <2> QED
    BY <1>5, <1>7, <2>1, <2>2 DEF Advance
<1>8. CASE \E g \in Houses : LookForPaidPeriod(g) /\ PaidNext(g) # {}
  <2>1. PICK g \in Houses : LookForPaidPeriod(g) /\ PaidNext(g) # {}
    BY <1>8
  <2>2. now' = now
    BY <2>1 DEF LookForPaidPeriod, world
  <2>3. CASE g = h
    <3>1. sub[h].status = "active"
      BY <2>1, <2>3, RolledRow DEF FreeInv, ListActive
    <3> QED
      BY <3>1, ActiveUsable
  <2>4. CASE g # h
    <3>1. sub'[h] = RunnerSees(h)
      BY <2>1, <2>4, RolledRow
    <3> QED
      BY <1>4, <2>2, <3>1
  <2> QED
    BY <2>3, <2>4
<1>9. CASE CommitCycle
  <2>1. sub'[h] = RunnerSees(h) /\ now' = now
    BY <1>9 DEF CommitCycle, world
  <2> QED
    BY <1>4, <2>1
<1>10. CASE Tick
  BY <1>3, <1>10 DEF Tick, tables
<1>11. CASE \E g \in Houses : LookForPaidPeriod(g) /\ PaidNext(g) = {}
  BY <1>3, <1>11 DEF LookForPaidPeriod, world
<1>12. CASE \/ \E g \in Houses : \/ RenewRequest(g) \/ IssueRenewal(g) \/ Remind(g)
                                 \/ Expire(g) \/ Resume(g)
            \/ StartCycle \/ NextGroup \/ SyncRolled \/ MarkPastDue \/ JudgeHouses \/ ReadHouses
            \/ SyncHouses \/ Crash \/ UNCHANGED vars
  <2>1. sub' = sub /\ now' = now
    BY <1>12 DEF RenewRequest, IssueRenewal, Remind, Expire, Resume, StartCycle, NextGroup,
         SyncRolled, MarkPastDue, JudgeHouses, ReadHouses, SyncHouses, Crash, tables, world,
         vars
  <2> QED
    BY <1>3, <2>1
<1> QED
  BY <1>6, <1>7, <1>8, <1>9, <1>10, <1>11, <1>12 DEF Next, Proceed, Cycle

(* An expired subscription becomes usable by a payment only: no cycle      *)
(* starts a grace period that has run out again, although it writes        *)
(* objects it loaded before. The grace must be two days at least: with one *)
(* day a subscription that the cycle notices a day late has expired by the *)
(* clock when it is marked past due, and the mark makes it usable again.   *)
THEOREM ExpiredAlwaysStaysBlocked ==
  ASSUME Houses # {}, Members = {}, Overrides = {}, Extensions = {}, Punctual, Grace >= 2
  PROVE  Spec /\ [][Unhurried]_vars /\ [][Undoubled]_vars => ExpiredStaysBlocked
<1>1. Init => FreeInv
  BY InitRows, LifecycleAssumption, KindsAssumption
<1>2. FreeInv /\ [Next]_vars /\ [Unhurried]_vars /\ [Undoubled]_vars => FreeInv'
  BY NextRows, LifecycleAssumption
<1>3. FreeInv /\ [Next]_vars /\ [Unhurried]_vars /\ [Undoubled]_vars =>
        [\A h \in Houses :
           EffectiveStatus(sub[h], now) = "expired" /\ IsEntitled(sub'[h], now')
             => bought'[h] # bought[h]]_vars
  BY StaysBlocked, LifecycleAssumption
<1> QED
  BY <1>1, <1>2, <1>3, PTL DEF Spec, ExpiredStaysBlocked
=============================================================================
