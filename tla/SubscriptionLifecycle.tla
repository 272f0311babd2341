----------------------- MODULE SubscriptionLifecycle -----------------------
(***************************************************************************)
(* The life of a subscription: the billing runner moves it through past    *)
(* due, grace, expiry and resumption and locks or unlocks its house, while *)
(* payments, pauses, cancellations and administrators change it too.       *)
(* Code: backend/app/services/billing_runner.py, subscription_service.py,  *)
(* house_lifecycle.py and entitlement.py, with the routers that call them. *)
(*                                                                         *)
(* Every request, and every cycle of the runner, has a database session of *)
(* its own.  The session keeps the objects it has loaded: a later query    *)
(* finds rows by their current columns but hands out the old object, and   *)
(* an UPDATE names only the columns in which the object differs from what  *)
(* was loaded (OrmUpdate).  A request writes and commits in one action;    *)
(* the runner's updates stay uncommitted, and lock their rows, until the   *)
(* cycle commits.  Who may pay an invoice, and how often, is the subject   *)
(* of PaymentReview; here a house has at most one open invoice.  Its       *)
(* invoices are numbered in the order in which they are first paid.  An    *)
(* approval reads its invoice again before it pays it; a cash entry goes   *)
(* by what it loaded, and pays an invoice again that was approved since.   *)
(***************************************************************************)
EXTENDS Naturals, FiniteSets

CONSTANTS
  Houses,      \* the tenants; each with its latest subscription
  AutoRenew,   \* the houses whose subscription is renewed automatically
  Approvals,   \* requests that approve a payment
  CashEntries, \* requests that record a cash payment
  Members,     \* requests to pause, resume or cancel
  Overrides,   \* administrators' status overrides
  Extensions,  \* administrators' extensions of a period
  HouseEdits,  \* PUT /houses/{id}
  Interval,    \* length of a billing period
  Grace,       \* BILLING_GRACE_DAYS
  Reminder,    \* BILLING_RENEWAL_REMINDER_DAYS
  TrialNotice, \* BILLING_TRIAL_END_REMINDER_DAYS
  PauseLength, \* resume_days of a pause
  FreeTier,    \* trial_days of the plan
  Punctual,    \* whether a cycle completes between any two ticks
  MaxCrashes,  \* bound on restarts of the runner
  MaxTime      \* bound on the clock

Payers == Approvals \cup CashEntries
Admins == Overrides \cup Extensions
Requests == Payers \cup Members \cup Admins \cup HouseEdits

ASSUME LifecycleAssumption ==
  /\ AutoRenew \subseteq Houses
  /\ {Interval, Grace, PauseLength} \subseteq Nat \ {0}
  /\ {Reminder, TrialNotice, FreeTier, MaxCrashes, MaxTime} \subseteq Nat
  /\ Punctual \in BOOLEAN

(* A payer may stand for either kind of payment, and an administrator's    *)
(* request for either change of a subscription; the rest is apart.         *)
ASSUME KindsAssumption ==
  /\ Payers \cap (Members \cup Admins \cup HouseEdits) = {}
  /\ Members \cap (Admins \cup HouseEdits) = {}
  /\ Admins \cap HouseEdits = {}

VARIABLES
  sub,      \* table house_subscriptions, the latest row of each house
  house,    \* table houses: is_active and deactivated_for_billing
  open,     \* whether the house has an outstanding invoice
  bought,   \* the periods of the house's paid invoices
  closed,   \* whether an administrator has switched the house off by hand
  runner,   \* the billing runner's cycle and its session
  pc,       \* where each request is
  txn,      \* what each request has read into its session
  now,      \* the clock (now_naive)
  swept,    \* start of the latest completed cycle
  crashes   \* restarts so far

vars == <<sub, house, open, bought, closed, runner, pc, txn, now, swept, crashes>>
tables == <<sub, house, open, bought, closed>>
world == <<now, swept, crashes>>

(* The clock starts at 1, and 0 stands for NULL.                           *)
Null == 0
Statuses == {"trialing", "active", "past_due", "expired", "paused", "cancelled"}
SubRow == [status : Statuses, end : Nat, grace : Nat, resume : Nat, trial : Nat, told : BOOLEAN]
HouseRow == [active : BOOLEAN, locked : BOOLEAN]
Ops == {"none", "pay", "pause", "resume", "cancel", "extend", "on", "off"} \cup Statuses
(* What a paid invoice bought, and whether a cash payment is recorded for  *)
(* it.                                                                     *)
Period == [start : Nat, end : Nat, no : Nat, cash : BOOLEAN]

NoRow == [status |-> "expired", end |-> Null, grace |-> Null, resume |-> Null, trial |-> Null,
          told |-> FALSE]
Absent == [NoRow EXCEPT !.status = "none"]
NoHouse == [active |-> FALSE, locked |-> FALSE]

-----------------------------------------------------------------------------
(* Who has access.                                                         *)

(* Fault: a past due subscription is usable until the runner expires it.   *)
EffectiveStatusAsStored(row, t) ==
  CASE row.status = "trialing" /\ t >= row.trial -> "expired"
    [] row.status = "active" /\ t >= row.end + Grace -> "expired"
    [] OTHER -> row.status

(* effective_status.                                                       *)
EffectiveStatus(row, t) ==
  CASE row.status = "trialing" ->
         IF t >= (IF row.trial # Null THEN row.trial ELSE row.end) THEN "expired" ELSE "trialing"
    [] row.status = "active" ->
         IF t < row.end THEN "active" ELSE IF t < row.end + Grace THEN "past_due" ELSE "expired"
    [] row.status = "past_due" ->
         IF row.grace # Null /\ t < row.grace THEN "past_due" ELSE "expired"
    [] OTHER -> row.status

(* is_entitled.                                                            *)
IsEntitled(row, t) == EffectiveStatus(row, t) \in {"active", "trialing", "past_due"}

Entitled(h) == IsEntitled(sub[h], now)

-----------------------------------------------------------------------------
(* Sessions.                                                               *)

(* A flushed object: the columns that were changed since it was loaded are *)
(* written, the others keep what the row has by now.                       *)
OrmUpdate(row, seen, object) ==
  [c \in DOMAIN row |-> IF object[c] = seen[c] THEN row[c] ELSE object[c]]

(* Fault: locking a house does not record that billing did it.             *)
SyncedHouseUnmarked(seen, entitled) ==
  IF entitled
    THEN IF seen.locked THEN [active |-> TRUE, locked |-> FALSE] ELSE seen
    ELSE [seen EXCEPT !.active = FALSE]

(* sync_house_billing_state for one house: lock it when its subscription   *)
(* lost entitlement, unlock it when billing had locked it.                 *)
SyncedHouse(seen, entitled) ==
  IF entitled
    THEN IF seen.locked THEN [active |-> TRUE, locked |-> FALSE] ELSE seen
    ELSE IF seen.active THEN [active |-> FALSE, locked |-> TRUE] ELSE seen

(* The runner's updates are uncommitted, so their rows are locked.         *)
RowFree(h) == runner.draft[h] = Absent

(* What the runner's own transaction sees.                                 *)
RunnerSees(h) == IF runner.draft[h] = Absent THEN sub[h] ELSE runner.draft[h]

Continue(r, stage, session) ==
  /\ pc' = [pc EXCEPT ![r] = stage]
  /\ txn' = [txn EXCEPT ![r] = session]
  /\ UNCHANGED <<runner, world>>

Blank == [h |-> CHOOSE h \in Houses : TRUE, op |-> "none", seen |-> NoRow, house |-> NoHouse,
          paid |-> 0]

Finish(r) == Continue(r, "done", Blank)

Load(r, h, op) ==
  /\ pc[r] = "new"
  /\ Continue(r, "loaded", [h |-> h, op |-> op, seen |-> sub[h], house |-> house[h],
                            paid |-> Cardinality(bought[h])])
  /\ UNCHANGED tables

(* After its commit a request brings the house in line with subscription   *)
(* row, as far as its session knows it.                                    *)
SyncHouse(h, seen, row) ==
  house' = [house EXCEPT ![h] = OrmUpdate(@, seen, SyncedHouse(seen, IsEntitled(row, now)))]

-----------------------------------------------------------------------------
(* Payments.                                                               *)

(* Somebody has paid the invoice since session t loaded it.                *)
PaidSince(t) == Cardinality(bought[t.h]) # t.paid

(* The paid invoices of the house, without the one that session t pays.    *)
OtherPaid(t) == {q \in bought[t.h] : q.no # t.paid + 1}

(* An approval finds the invoice paid when it reads it under its lock; a   *)
(* cash entry is stopped by the unique number of another cash payment only.*)
Refused(t, cash) ==
  IF cash THEN \E q \in bought[t.h] \ OtherPaid(t) : q.cash ELSE PaidSince(t)

(* What mark_invoice_paid decides: a renewal is added to what is left of   *)
(* the current period, anything else starts now.                           *)
PaidPeriod(t, cash) ==
  LET renewal == OtherPaid(t) # {} \/ t.seen.status \in {"active", "past_due"}
      start == IF renewal /\ t.seen.end > now THEN t.seen.end ELSE now
  IN  [start |-> start, end |-> start + Interval, no |-> t.paid + 1, cash |-> cash]

(* The invoice as it is stored: a date that equals the provisional one the *)
(* session loaded is not written, so that of an earlier payment remains.   *)
Stored(t, period) ==
  LET same == bought[t.h] \ OtherPaid(t) IN
  [start : {period.start} \cup {q.start : q \in same},
   end : {period.end} \cup {q.end : q \in same}, no : {period.no}, cash : {period.cash}]

(* Fault: a payment leaves the end of the grace period behind.             *)
ActivatedKeepingGrace(seen, period) == [seen EXCEPT !.status = "active", !.end = period.end]

Activated(seen, period) ==
  [seen EXCEPT !.status = "active", !.end = period.end, !.grace = Null]

PayLoad(p, h) == open[h] /\ Load(p, h, "pay")

(* A request that may stand for either kind of payment is one of them.     *)
PaysBy(p, cash) == p \in IF cash THEN CashEntries ELSE Approvals

PayRefused(p) ==
  /\ pc[p] = "loaded"
  /\ \E cash \in BOOLEAN : PaysBy(p, cash) /\ Refused(txn[p], cash)
  /\ Finish(p)
  /\ UNCHANGED tables

(* Invoice, subscription and change log in one commit.  The next invoice   *)
(* of the house, which may be open by now, stays as it is.                 *)
PayCommit(p) ==
  LET t == txn[p] IN
  /\ pc[p] = "loaded" /\ RowFree(t.h)
  /\ \E cash \in BOOLEAN :
       LET period == PaidPeriod(t, cash)
           object == Activated(t.seen, period)
       IN
       /\ PaysBy(p, cash) /\ ~Refused(t, cash)
       /\ sub' = [sub EXCEPT ![t.h] = OrmUpdate(@, t.seen, object)]
       /\ \E stored \in Stored(t, period) :
            bought' = [bought EXCEPT ![t.h] = OtherPaid(t) \cup {stored}]
       /\ Continue(p, "committed", [t EXCEPT !.seen = object])
  /\ open' = [open EXCEPT ![t.h] = @ /\ PaidSince(t)]
  /\ UNCHANGED <<house, closed>>

(* The house is brought in line in a second transaction.  The house object *)
(* came with the payment; the subscription is read again for a cash entry  *)
(* only.                                                                   *)
PaySync(p) ==
  LET t == txn[p] IN
  /\ pc[p] = "committed"
  /\ \/ p \in Approvals /\ SyncHouse(t.h, t.house, t.seen)
     \/ p \in CashEntries /\ SyncHouse(t.h, t.house, sub[t.h])
  /\ Finish(p)
  /\ UNCHANGED <<sub, open, bought, closed>>

(* The tenant asks for the next invoice: renew_subscription.               *)
RenewRequest(h) ==
  /\ sub[h].status # "paused"
  /\ ~open[h]
  /\ open' = [open EXCEPT ![h] = TRUE]
  /\ UNCHANGED <<sub, house, bought, closed, runner, pc, txn, world>>

-----------------------------------------------------------------------------
(* Members: pause, resume, cancel at once.  Administrators: set_status,    *)
(* extend_period_days.                                                     *)

MemberAllowed(op, status) ==
  CASE op = "pause" -> status = "active"
    [] op = "resume" -> status = "paused"
    [] op = "cancel" -> status \notin {"cancelled", "expired"}

MemberLoad(m, h, op) == MemberAllowed(op, sub[h].status) /\ Load(m, h, op)

(* The object as the operation leaves it.                                  *)
Edited(seen, op) ==
  CASE op = "pause" -> [seen EXCEPT !.status = "paused", !.resume = now + PauseLength]
    [] op = "resume" -> [seen EXCEPT !.status = "active", !.resume = Null]
    [] op = "cancel" -> [seen EXCEPT !.status = "cancelled"]
    [] op = "extend" -> [seen EXCEPT !.end = @ + 1]
    [] OTHER -> [seen EXCEPT !.status = op]

OverrideLoad(o, h, status) == Load(o, h, status)
ExtendLoad(e, h) == Load(e, h, "extend")

(* The change is committed.  pause, resume and cancel then read the row    *)
(* again; an override goes on with its object; an extension ends here.     *)
EditCommit(r) ==
  LET t == txn[r]
      object == Edited(t.seen, t.op)
      row == OrmUpdate(sub[t.h], t.seen, object)
  IN
  /\ pc[r] = "loaded"
  /\ RowFree(t.h)
  /\ sub' = [sub EXCEPT ![t.h] = row]
  /\ IF t.op = "extend"
       THEN Finish(r)
       ELSE Continue(r, "committed", [t EXCEPT !.seen = IF r \in Members THEN row ELSE object])
  /\ UNCHANGED <<house, open, bought, closed>>

(* The house is brought in line, from the object that came with the user   *)
(* or from the row.                                                        *)
EditSync(r) ==
  LET t == txn[r] IN
  /\ pc[r] = "committed"
  /\ \E seen \in {t.house, house[t.h]} : SyncHouse(t.h, seen, t.seen)
  /\ Finish(r)
  /\ UNCHANGED <<sub, open, bought, closed>>

-----------------------------------------------------------------------------
(* update_house: is_active is one of the fields the form sends.            *)

HouseEditLoad(e, h, active) == Load(e, h, IF active THEN "on" ELSE "off")

HouseEditCommit(e) ==
  LET t == txn[e]
      row == OrmUpdate(house[t.h], t.house, [t.house EXCEPT !.active = (t.op = "on")])
  IN
  /\ pc[e] = "loaded"
  /\ house' = [house EXCEPT ![t.h] = row]
  /\ closed' = [closed EXCEPT ![t.h] = IF row.active = house[t.h].active THEN @ ELSE ~row.active]
  /\ Finish(e)
  /\ UNCHANGED <<sub, open, bought>>

-----------------------------------------------------------------------------
(* The billing runner.  A cycle selects and treats one group of            *)
(* subscriptions after the other, commits, and brings the houses in line.  *)
(*   step     what it does next                                            *)
(*   clock    the time it took at its start                                *)
(*   todo     houses of the group still to treat                           *)
(*   at       the one it is treating                                       *)
(*   object   the subscriptions its session holds                          *)
(*   draft    its uncommitted rows                                         *)
(*   houses   the houses it read for the sync                              *)
(*   judged   which of them it found entitled                              *)

Groups == {"renew", "remind", "past_due", "trial", "grace", "resume"}
RunnerSteps == Groups \cup {"idle", "mark", "rolled", "commit", "judge", "read", "write"}

Idle == [step |-> "idle", clock |-> Null, todo |-> {}, at |-> CHOOSE h \in Houses : TRUE,
         object |-> [h \in Houses |-> Absent], draft |-> [h \in Houses |-> Absent],
         houses |-> [h \in Houses |-> NoHouse], judged |-> {}]

(* Fault: trials that have run out become past due as well.                *)
DueTrialsToo(group, h, row, clock) ==
  CASE group = "past_due" ->
         row.status \in {"active", "trialing"} /\ row.end < clock /\ row.grace = Null
    [] group = "grace" -> row.status = "past_due" /\ row.grace # Null /\ row.grace < clock
    [] OTHER -> FALSE

(* The WHERE clauses.                                                      *)
Due(group, h, row, clock) ==
  CASE group = "renew" -> /\ h \in AutoRenew /\ row.status \in {"active", "trialing"}
                          /\ row.end <= clock + Reminder
    [] group = "remind" -> /\ row.status = "trialing" /\ ~row.told
                           /\ row.trial # Null /\ row.trial <= clock + TrialNotice
    [] group = "past_due" -> row.status = "active" /\ row.end < clock /\ row.grace = Null
    [] group = "trial" -> /\ row.status = "trialing"
                          /\ (IF row.trial # Null THEN row.trial ELSE row.end) < clock
    [] group = "grace" -> row.status = "past_due" /\ row.grace # Null /\ row.grace < clock
    [] group = "resume" -> row.status = "paused" /\ row.resume # Null /\ row.resume < clock

(* Select a group.  A row the session holds already keeps its object.      *)
Enter(group, clock) ==
  LET due == {h \in Houses : Due(group, h, RunnerSees(h), clock)} IN
  runner' = [runner EXCEPT !.step = group, !.clock = clock, !.todo = due,
               !.object = [h \in Houses |-> IF h \in due /\ @[h] = Absent
                                              THEN RunnerSees(h) ELSE @[h]]]

StartCycle ==
  /\ runner.step = "idle"
  /\ Enter("renew", now)
  /\ UNCHANGED <<tables, pc, txn, world>>

NextGroup ==
  /\ runner.todo = {}
  /\ \/ runner.step = "renew" /\ Enter("remind", runner.clock)
     \/ runner.step = "remind" /\ Enter("past_due", runner.clock)
     \/ runner.step = "past_due" /\ Enter("trial", runner.clock)
     \/ runner.step = "trial" /\ Enter("grace", runner.clock)
     \/ runner.step = "grace" /\ Enter("resume", runner.clock)
     \/ runner.step = "resume" /\ runner' = [runner EXCEPT !.step = "commit"]
  /\ UNCHANGED <<tables, pc, txn, world>>

(* The renewal invoice is committed at once.                               *)
IssueRenewal(h) ==
  /\ runner.step = "renew" /\ h \in runner.todo
  /\ open' = [open EXCEPT ![h] = TRUE]
  /\ runner' = [runner EXCEPT !.todo = @ \ {h}]
  /\ UNCHANGED <<sub, house, bought, closed, pc, txn, world>>

(* The change of one object, flushed.                                      *)
Flush(h, object, group) ==
  runner' = [runner EXCEPT !.step = group, !.todo = @ \ {h}, !.object[h] = object,
               !.draft[h] = OrmUpdate(RunnerSees(h), runner.object[h], object)]

Remind(h) ==
  /\ runner.step = "remind" /\ h \in runner.todo
  /\ Flush(h, [runner.object[h] EXCEPT !.told = TRUE], "remind")
  /\ UNCHANGED <<tables, pc, txn, world>>

(* Fault: any paid period will do.                                         *)
PaidNextAny(h) == bought[h]

(* A paid period that starts at or after the end the session knows: the    *)
(* cycle rolls forward to the first one; otherwise the row will be marked. *)
PaidNext(h) == {q \in bought[h] : q.start >= runner.object[h].end}

LookForPaidPeriod(h) ==
  /\ runner.step = "past_due" /\ h \in runner.todo
  /\ IF PaidNext(h) = {}
       THEN /\ runner' = [runner EXCEPT !.step = "mark", !.at = h]
            /\ UNCHANGED sub
       ELSE \E q \in PaidNext(h) :
              LET object == Activated(runner.object[h], q) IN
              /\ \A other \in PaidNext(h) : q.start <= other.start
              /\ sub' = [g \in Houses |->
                           IF g = h THEN OrmUpdate(RunnerSees(h), runner.object[h], object)
                                    ELSE RunnerSees(g)]
              /\ runner' = [runner EXCEPT !.step = "rolled", !.at = h, !.todo = @ \ {h},
                              !.object[h] = sub'[h], !.draft = Idle.draft]
  /\ UNCHANGED <<house, open, bought, closed, pc, txn, world>>

(* renew_period ends with the house of the subscription it renewed.        *)
SyncRolled ==
  /\ runner.step = "rolled"
  /\ SyncHouse(runner.at, house[runner.at], runner.object[runner.at])
  /\ runner' = [runner EXCEPT !.step = "past_due"]
  /\ UNCHANGED <<sub, open, bought, closed, pc, txn, world>>

(* Fault: the subscription gets the status of its invoice.                 *)
MarkUnpaid ==
  LET h == runner.at IN
  /\ runner.step = "mark"
  /\ Flush(h, [runner.object[h] EXCEPT !.status = "unpaid", !.grace = runner.clock + Grace],
           "past_due")
  /\ UNCHANGED <<tables, pc, txn, world>>

MarkPastDue ==
  LET h == runner.at IN
  /\ runner.step = "mark"
  /\ Flush(h, [runner.object[h] EXCEPT !.status = "past_due", !.grace = runner.clock + Grace],
           "past_due")
  /\ UNCHANGED <<tables, pc, txn, world>>

Expire(h) ==
  /\ runner.step \in {"trial", "grace"} /\ h \in runner.todo
  /\ Flush(h, [runner.object[h] EXCEPT !.status = "expired"], runner.step)
  /\ UNCHANGED <<tables, pc, txn, world>>

Resume(h) ==
  /\ runner.step = "resume" /\ h \in runner.todo
  /\ Flush(h, [runner.object[h] EXCEPT !.status = "active", !.resume = Null], "resume")
  /\ UNCHANGED <<tables, pc, txn, world>>

(* Fault: houses are brought in line only after a cycle that changed one   *)
(* of their subscriptions.                                                 *)
CommitCycleQuietly ==
  /\ runner.step = "commit"
  /\ sub' = [h \in Houses |-> RunnerSees(h)]
  /\ IF runner.draft = Idle.draft
       THEN runner' = Idle /\ swept' = runner.clock
       ELSE runner' = [runner EXCEPT !.step = "judge", !.draft = Idle.draft] /\ UNCHANGED swept
  /\ UNCHANGED <<house, open, bought, closed, pc, txn, now, crashes>>

CommitCycle ==
  /\ runner.step = "commit"
  /\ sub' = [h \in Houses |-> RunnerSees(h)]
  /\ runner' = [runner EXCEPT !.step = "judge", !.draft = Idle.draft]
  /\ UNCHANGED <<house, open, bought, closed, pc, txn, world>>

(* The sync judges a subscription by the object the session holds, or by   *)
(* the row if nothing refers to that object any more.                      *)
JudgeHouses ==
  /\ runner.step = "judge"
  /\ \E held \in SUBSET {h \in Houses : runner.object[h] # Absent} :
       runner' = [runner EXCEPT !.step = "read",
                    !.judged = {h \in Houses : IsEntitled(IF h \in held THEN runner.object[h]
                                                          ELSE sub[h], now)}]
  /\ UNCHANGED <<tables, pc, txn, world>>

ReadHouses ==
  /\ runner.step = "read"
  /\ runner' = [runner EXCEPT !.step = "write", !.houses = house]
  /\ UNCHANGED <<tables, pc, txn, world>>

SyncHouses ==
  LET seen == runner.houses IN
  /\ runner.step = "write"
  /\ house' = [h \in Houses |->
                 OrmUpdate(house[h], seen[h], SyncedHouse(seen[h], h \in runner.judged))]
  /\ runner' = Idle
  /\ swept' = runner.clock
  /\ UNCHANGED <<sub, open, bought, closed, pc, txn, now, crashes>>

(* The process restarts: what the cycle has not committed is gone.         *)
Crash ==
  /\ runner.step # "idle" /\ crashes < MaxCrashes
  /\ runner' = Idle
  /\ crashes' = crashes + 1
  /\ UNCHANGED <<tables, pc, txn, now, swept>>

Cycle ==
  \/ StartCycle
  \/ NextGroup
  \/ \E h \in Houses : \/ IssueRenewal(h) \/ Remind(h)
                        \/ LookForPaidPeriod(h) \/ Expire(h) \/ Resume(h)
  \/ SyncRolled
  \/ MarkPastDue
  \/ CommitCycle
  \/ JudgeHouses
  \/ ReadHouses
  \/ SyncHouses

-----------------------------------------------------------------------------
(* A house that has just selected a plan, with its first payment order     *)
(* open, and a house in its first paid period.                             *)
Selected == [status |-> IF FreeTier > 0 THEN "trialing" ELSE "expired", end |-> 1 + FreeTier,
             grace |-> Null, resume |-> Null, trial |-> IF FreeTier > 0 THEN 1 + FreeTier ELSE Null,
             told |-> FALSE]
Paid == [Selected EXCEPT !.status = "active", !.end = 1 + Interval]

Init ==
  /\ \E new \in SUBSET Houses :
       /\ sub = [h \in Houses |-> IF h \in new THEN Selected ELSE Paid]
       /\ open = [h \in Houses |-> h \in new]
       /\ bought = [h \in Houses |-> IF h \in new THEN {}
                                     ELSE {[start |-> 1, end |-> 1 + Interval, no |-> 1,
                                            cash |-> FALSE]}]
       /\ house = [h \in Houses |-> [active |-> h \notin new \/ FreeTier > 0,
                                     locked |-> h \in new /\ FreeTier = 0]]
  /\ closed = [h \in Houses |-> FALSE]
  /\ runner = Idle
  /\ pc = [r \in Requests |-> "new"]
  /\ txn = [r \in Requests |-> Blank]
  /\ now = 1 /\ swept = Null /\ crashes = 0

Arrive ==
  \/ \E p \in Payers, h \in Houses : PayLoad(p, h)
  \/ \E m \in Members, h \in Houses, op \in {"pause", "resume", "cancel"} : MemberLoad(m, h, op)
  \/ \E o \in Overrides, h \in Houses, status \in Statuses : OverrideLoad(o, h, status)
  \/ \E e \in Extensions, h \in Houses : ExtendLoad(e, h)
  \/ \E e \in HouseEdits, h \in Houses, active \in BOOLEAN : HouseEditLoad(e, h, active)

Advance(r) ==
  \/ r \in Payers /\ (PayRefused(r) \/ PayCommit(r))
  \/ r \in Payers /\ PaySync(r)
  \/ r \in Members \cup Admins /\ EditCommit(r)
  \/ r \in Members \cup Admins /\ EditSync(r)
  \/ r \in HouseEdits /\ HouseEditCommit(r)

(* The runner wakes every five minutes, the periods count days: while it   *)
(* is running, a cycle completes before the day changes.                   *)
Tick ==
  /\ now < MaxTime
  /\ Punctual => swept = now
  /\ now' = now + 1
  /\ UNCHANGED <<tables, runner, pc, txn, swept, crashes>>

(* What goes on with the requests that have come.                          *)
Proceed ==
  \/ \E r \in Requests : Advance(r)
  \/ \E h \in Houses : RenewRequest(h)
  \/ Cycle
  \/ Crash
  \/ Tick

Next == Arrive \/ Proceed

(* The loop starts the next cycle when one has ended, and the event loop   *)
(* resumes every request.                                                  *)
Fairness == WF_vars(Cycle) /\ \A r \in Requests : WF_vars(Advance(r))

Spec == Init /\ [][Next]_vars /\ Fairness

-----------------------------------------------------------------------------
(* Properties.                                                             *)

(* Every row, object and session has the columns and values it may have.   *)
TypeOK ==
  /\ sub \in [Houses -> SubRow]
  /\ house \in [Houses -> HouseRow]
  /\ open \in [Houses -> BOOLEAN]
  /\ bought \in [Houses -> SUBSET Period]
  /\ closed \in [Houses -> BOOLEAN]
  /\ runner \in [step : RunnerSteps, clock : Nat, todo : SUBSET Houses, at : Houses,
                 object : [Houses -> SubRow \cup {Absent}],
                 draft : [Houses -> SubRow \cup {Absent}],
                 houses : [Houses -> HouseRow], judged : SUBSET Houses]
  /\ pc \in [Requests -> {"new", "loaded", "committed", "done"}]
  /\ txn \in [Requests -> [h : Houses, op : Ops, seen : SubRow, house : HouseRow,
                         paid : Nat]]
  /\ now \in Nat /\ swept \in Nat /\ crashes \in Nat

(* The premise of the next properties: a house that waits on the runner's  *)
(* list of the past due is not paid for a second time before its turn.     *)
(* The runner rolls a listed subscription forward to the first paid period *)
(* ahead of it and writes that period's end over the row's, so the second  *)
(* of two periods bought meanwhile would be lost.                          *)
InTurn == {"past_due", "mark", "rolled"}
OnList(h) == runner.step \in InTurn /\ h \in runner.todo
Unhurried ==
  \A h \in Houses :
    bought'[h] # bought[h] /\ OnList(h) =>
      \A q \in bought[h] : q.start < runner.object[h].end

(* The other premise: no cash entry pays an invoice that was paid after it *)
(* had loaded it.  Such an entry starts from the end it knows, and writes  *)
(* its own end over that of any renewal since; PaymentReview shows that it *)
(* does go through.                                                        *)
Undoubled ==
  \A p \in Payers : pc[p] = "loaded" /\ pc'[p] = "committed" => ~PaidSince(txn[p])

(* Paid time is never lost: the subscription runs at least to the end of   *)
(* the last period paid for, whatever the runner writes meanwhile, if the  *)
(* payments are Unhurried and Undoubled.                                   *)
PaidEndKept == \A h \in Houses : \A q \in bought[h] : sub[h].end >= q.end

(* Nor is it unusable: neither the runner's past due nor its expiry stands *)
(* on a subscription with paid time left.                                  *)
PaidTimeUsable ==
  \A h \in Houses : \A q \in bought[h] :
    now < q.end => sub[h].status \notin {"past_due", "expired"}

(* Time that is not paid for is bounded: a paid subscription is usable for *)
(* the grace after its end, counted from the cycle that notices it.        *)
FreeTimeBounded ==
  \A h \in Houses : bought[h] # {} /\ Entitled(h) => now <= sub[h].end + Grace

(* An expired subscription becomes usable by a payment only, never by the  *)
(* runner: a grace period that has run out does not start again.           *)
ExpiredStaysBlocked ==
  [][\A h \in Houses :
       EffectiveStatus(sub[h], now) = "expired" /\ IsEntitled(sub'[h], now')
         => bought'[h] # bought[h]]_vars

(* What an administrator has switched off stays off.  No run checks it: it *)
(* fails where a sync loaded the house before the edit, or where the edit  *)
(* left the mark of an earlier lock standing.                              *)
ManualOffKept == \A h \in Houses : closed[h] => ~house[h].active

(* A payment that is answered leaves the house usable, unless it has been  *)
(* switched off by hand: the tenant need not wait for the next sweep.  No  *)
(* run checks it: it fails where a sweep locks the house after the payment *)
(* has loaded it.                                                          *)
PaymentUnlocks ==
  [][\A p \in Payers :
       pc[p] = "committed" /\ pc'[p] = "done" =>
         LET h == txn[p].h IN Entitled(h) => house'[h].active \/ closed[h]]_vars

(* In the end a house whose subscription is not usable is off, although    *)
(* every sync may have judged by old objects, and whoever switched it on.  *)
HousesLock == <>[](\A h \in Houses : house[h].active => Entitled(h))

(* In the end a house whose subscription is usable is on: no lock outlives *)
(* its reason, as long as no administrator edits the house by hand (an     *)
(* edit can mix with a lock column by column and leave the house off).     *)
HousesUnlock ==
  <>[](\A h \in Houses :
         Entitled(h) /\ (\A e \in HouseEdits : pc[e] = "new") => house[h].active)

(* In the end every stored status says what the access gate says, but for  *)
(* the moment of expiry itself, on which they differ.                      *)
StatusesSettle ==
  <>[](\A h \in Houses : sub[h].status \in {EffectiveStatus(sub[h], now),
                                            EffectiveStatus(sub[h], now - 1)})
=============================================================================
