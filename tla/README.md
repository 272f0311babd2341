# Verification of Orange Flow

TLA+ models of the parts of Orange Flow whose correctness depends on the order
in which concurrent requests, background loops and administrators act, the TLC
runs that check them on small instances, and TLAPS proofs about them.

Orange Flow is a multi-tenant distribution system: a FastAPI backend
(`backend/app`), a Next.js frontend (`frontend`), a deployment service
(`deploy-service`) and WhatsApp bridges (`whatsapp-service`, `wa-gateway`). A
tenant is a *house*. A house buys a subscription, pays for it offline (cash,
bKash, bank), and an administrator approves the payment; whether a house may
use the system follows from its subscription. Paths below are relative to
`backend/app`, except those that begin with `frontend/` or `deploy-service/`,
which are relative to the repository.

## Inventory

### Payment review

*Code*: `services/payment_requests.py`, `services/manual_payment.py`,
`services/subscription_service.py:619-690`, `routers/billing.py`,
`routers/admin_billing.py`, `models/payment.py`.

- **State**: tables `payments` (status, invoice, claimed transaction
  reference), `invoices` (status, period), `house_subscriptions` (status,
  `current_period_end`) and the subscription change log.
- **Operations**: a tenant submits a payment request for an open invoice (or
  resubmits one that was questioned); an administrator approves it, rejects it,
  asks for more information, or enters a cash payment; the runner, the tenant
  (`renew`) and administrators issue invoices.
- **Interaction**: requests meet only in the database. Approval locks the
  payment row, then the invoice row (`SELECT ... FOR UPDATE`); everything else
  relies on conditional look-ups, a partial unique index on the reference, and
  a unique key per cash entry.
- **Hard**: every handler reads rows, awaits, and writes later; the identity
  map of a session keeps old objects across queries; look-up and insertion of
  a reference are two steps; a handler may be cut off between two commits.
- **Correct when**: an invoice is paid once; one real transaction funds one
  invoice; an approved payment stays approved; invoice, change log and
  subscription agree; a renewal adds a whole period; a house has one open
  invoice; no circle of lock waits.

### Subscription lifecycle

*Code*: `services/subscription_service.py`, `services/billing_runner.py`,
`services/house_lifecycle.py`, `services/entitlement.py`,
`routers/subscriptions.py`, `routers/admin_billing.py`, `routers/houses.py`.

- **State**: `house_subscriptions` (status, period end, grace date, resume
  date, trial end), `houses` (`is_active`, `deactivated_for_billing`).
- **Operations**: select, renew, pause, resume, cancel, an administrator's
  override and extension, payments; the billing runner's cycle (renewal
  invoices, reminders, past due, ended trials, ended grace, resumptions, and
  the sweep that locks and unlocks houses); an administrator's edit of a house.
- **Interaction**: the runner is one loop with one long transaction per cycle;
  it loads rows, sends mails and messages while they are loaded, and flushes
  later. Requests and the runner both call `sync_house_billing_state`.
- **Hard**: the long transaction over old objects races with payments; two
  computations of the house flag mix column by column; four places decide who
  has access; a cycle may be missed or lost in a crash.
- **Correct when**: paid time is never lost and can be used; free time is
  bounded; what has expired stays blocked until somebody pays; houses are in
  the end locked and unlocked as their subscription says; what an
  administrator switched off stays off.

### Refunds

*Code*: `routers/admin_billing.py:1046-1280`, `models/payment.py`.

- **State**: `refunds` (amount, status), the status of the payment.
- **Operations**: record, complete, reject.
- **Hard**: what is still refundable is computed without a lock; a refund's
  status is read before the payment is locked.
- **Correct when**: refunds recorded never exceed the payment; the payment's
  status says what was given back; every completion is answered.

### Serial stock and field sales

*Code*: `services/inventory_service.py`, `services/field_sales_service.py`.

- **State**: serial numbers (status, current employee), stock ledger rows per
  place, receipts, issues, return documents, sales.
- **Operations**: post a receipt, issue to an employee, return, verify a
  return, create / update / submit / approve / reject a sale.
- **Hard**: the protocol between documents (a serial in a return, in a sale,
  issued again), not the interleaving inside a handler, which locks the rows.
- **Correct when**: the ledger says where the serials are; a serial is sold
  once; a serial in a pending return has a document that can still decide it;
  a rejected return goes back to whoever returned it.

### Finance and iTopUp

*Code*: `services/finance_service.py`, `services/itopup_service.py`,
`routers/finance.py`, `routers/itopup_balance.py`, `models/itopup_balance.py`.

- **State**: expenses (status), cash entries (unique by their source), daily
  closings; a balance row per holder of top-up money (an employee, or the mother
  SIM of the house) and the ledger rows written with each change.
- **Operations**: record, approve, reject and pay an expense, reverse a
  payment; submit, approve and reopen the closing of a date; transfer top-up
  money, book an entry, return it.
- **Interaction**: an expense is read without a lock and written later; what keeps
  two payments apart is the unique source of a cash entry. A balance is changed
  under `SELECT ... FOR UPDATE`, one holder after the other.
- **Hard**: two clerks at one expense, each with a status that is no longer true;
  two first deposits that both find no row; transfers in opposite directions; a
  transfer whose second half fails.
- **Correct when**: an expense is booked once and a paid one is booked; a
  balance is the sum of its ledger; a request is settled in full or not at all.

### Deployment

*Code*: `deploy-service/server.js`, `deploy-service/deploy.sh`,
`frontend/src/app/deploy/page.tsx`, `frontend/src/app/restore-points/page.tsx`.

- **State**: in the service's memory the state of the last deploy and of the last
  restore point operation, and which process is held for each; the scripts with
  their pipes; a lock file; the sockets; what each page shows.
- **Operations**: start and reset a deploy, capture and roll back, cancel,
  connect, reconnect, restart the service.
- **Interaction**: scripts talk to the service by lines and an exit code, the
  service to the pages by messages, the pages to the service by messages on a
  socket and by HTTP requests of two steps (headers, body).
- **Hard**: a script is over for the service (its marker line) before its process
  is; a SIGTERM ends the shell while the command it was running goes on; messages
  are lost with a socket; a page shows its own guess first.
- **Correct when**: two deploys are never at work; what shows running ends; a
  script's voice is not taken for another's; the pages agree with the service
  once they have heard everything.

### Lifting pull

*Code*: `routers/lifting_pull.py`, `core/pull_jobs.py`,
`services/Automation/Tasks/lifting_pull.py`,
`frontend/src/app/liftings/_components/PullPreRFModal.tsx`.

- **State**: `pull_status` of a lifting record (database), the reservations and
  jobs (memory of the process), the list of requests at the operator's website,
  the DMS, and the window that follows a job.
- **Operations**: start a pull (really, or as a dry run); the task's way: look at
  the list, fill the form, save, wait for the confirmation, find the new request,
  write, log; poll a job; a person at the DMS decides.
- **Hard**: three memories of the same fact, each of which can be lost by itself;
  a request may be filed although nobody saw the confirmation; a pull that was
  cut off is tried again after half an hour.
- **Correct when**: one task drives a house's DMS session; a house never has two
  undecided requests; a filed request is never forgotten in the status; what
  was reported created stays so; the house is freed, the window ends.

### Report schedules

*Code*: `services/whatsapp_schedule_service.py`,
`services/whatsapp_service_client.py`, `routers/whatsapp_schedules.py`, the loop
in `main.py`.

- **State**: schedules (on or off, time of day or interval, window, last run).
- **Operations**: every half minute the loop reads what is due and passes each
  schedule: it builds the report and sends it to every chat, with attempts and
  token refreshes, then marks the last run; requests create, change, delete, or
  send by hand.
- **Hard**: the only memory of what was sent is written after it was sent; nobody
  knows whether an attempt without an answer arrived; all houses share one loop.
- **Correct when**: a day is not missed; no error makes the loop send again
  at once; copies of a page are bounded; no schedule starves another.

### DMS automation

*Code*: `core/automation_lock.py`, `core/session_manager.py`,
`core/automation_engine.py`, `core/otp_manager.py`, `core/otp_ingest.py`,
`routers/sync.py`. Locks and browser contexts per house, keepalive loops,
one-time passwords. *Hard*: a lock that is replaced while it is held, a loop
registered twice, a one-time password taken by the wrong wait. *Correct when*:
one task drives a house's browser at a time, and a password serves the wait it
was requested for.

### The rest

| Component | Why it is not modelled |
|---|---|
| Backups, restore points, maintenance (`services/database_backup_service.py`, `services/restore_point_service.py`, `services/maintenance_service.py`) | their scripts run in the deployment service and are modelled there as operations; what they do to files and dumps is I/O |
| House purge, start-up migrations | one transaction; nothing interleaves inside |
| Identity and permissions | one read decides a request |
| Reports, imports, notifications, live activity | queries, parsing, presentation |
| Frontend and messaging gateways | presentation and vendored bridges, except the pages named above |

## What is modelled

| Module | Models | Corresponds to |
|---|---|---|
| `PaymentReview` | submissions, approvals, rejections, questions, cash entries, issuing | one process per HTTP request; `txn` is its session, `pc` the await it is at |
| `SubscriptionLifecycle` | the runner's cycle, payments, pause / resume / cancel, overrides, extensions, edits of a house, the access gate | the same, plus one process for the runner, whose `object`, `draft` and `houses` are its identity map and its uncommitted updates |
| `Refunds` | recording, completing, rejecting a refund | one process per request |
| `RefundLedger` | what refunds promise | abstract; `Refunds` implements it |
| `SerialStock` | receipts, issues, returns and their verification, field sales | one action per request; the variables are the tables |
| `TopupAccounts` | what balances of top-up money promise | abstract; `TopupBalances` implements it |
| `TopupBalances` | transfers and entries with row locks, the unique key, and deadlocks | one process per request; `topupHas` is what its session is going to commit |
| `CashBook` | expenses, their cash entries, reversals, the closing as a guard | one process per clerk |
| `DeployService` | the service, its scripts with their pipes and lock file | one action per event of the Node process, or step of a script |
| `DeployConsole` | the deploy page and the restore points page, composed with `DeployService` | one action per handler of a page |
| `LiftingPull` | starting a pull, its job, the DMS list, crashes | one process per request and per task |
| `PullModal` | the window that follows a pull, composed with `LiftingPull` | one action per handler, one process per polling loop |
| `ReportSchedules` | the loop, its passes, attempts and marks, edits, sending by hand | the loop is one process; `pass` is the sending in hand |
| `PaymentReviewProofs`, `SubscriptionLifecycleProofs`, `RefundsProofs`, `DeployProofs`, `LiftingPullProofs`, `ReportSchedulesProofs` | theorems about the modules they are named for | — |
| `HouseBooksProofs` | theorems about `SerialStock`, `TopupBalances` and `CashBook` | — |
| `SumTheorems` | lemmas about sums over finite sets, for `RefundsProofs` and `HouseBooksProofs` | — |
| `MCPaymentReview`, `MCSubscriptionLifecycle`, `MCRefunds`, `MCHouseBooks`, `MCDeploy`, `MCLiftingPull`, `MCReportSchedules` | instances for TLC | — |

Where one run plays several *scenes*, the MC module adds a variable that says
which (or a condition on the requests that arrive, `Scenario`), and keeps the
actors of the others from acting. Those are people, crashes
and the like, on which no fairness is assumed, so that a scene is a set of
behaviours of the whole specification.

### How the code maps to actions

An action is one stretch of a handler between two points at which it can wait
for, or be seen by, another one. Several reads in a row, with nothing in
between that another request could react to, are one action. The assumptions
behind this:

- The database runs READ COMMITTED: a read sees committed rows; an `UPDATE`
  waits for the row lock and then writes over what it finds.
- An ORM flush names only the columns in which the object differs from what was
  loaded (`OrmUpdate`), so two sessions can mix columns of one row.
- A query finds rows by their current columns, but hands out the object that
  the session already holds (the identity map): `txn.seen`, `runner.object`.
  An object that nothing refers to any more may have been dropped, and is then
  loaded again: a nondeterministic choice (`Snapshots`, `JudgeHouses`).
  Sessions keep objects across commits (`expire_on_commit=False`,
  `services/db_service.py:70`).
- Inserting a row with a foreign key takes `FOR KEY SHARE` on the parent row,
  which conflicts with `FOR UPDATE`. A second insertion of a unique key waits
  for the first, and fails if that commits (`Reserves`, `ReferenceFree`).
- Row locks are not variables: which request holds which row follows from the
  program counters (`HoldsPayment`, `HoldsInvoice`, `Inserting`, `RowFree`,
  `PaymentFree`).
- One process runs the billing runner, as the deployment does.

Amounts, currencies, mails, PDFs, uploads and audit entries are left out; a
transaction reference is a model value (its normalisation happens before the
look-up and is a function of the text). Times are days, and 0 is `NULL` in
`SubscriptionLifecycle`. The history variables are `activations` (which
payments marked an invoice paid, in order), `bought` (periods paid for) and
`closed` (an administrator switched the house off); no action reads them for a
decision the code takes, except that `bought` stands for the paid invoices
`billing_runner.py:145` queries.

### PaymentReview

`SubmitLoad`, `SubmitCheckReference`, `SubmitCommit` are `submit_request`;
`ApproveLoad`, `ApproveLockPayment`, `ApproveLockInvoice`, `ApproveCommit` are
`approve_request` with the `mark_invoice_paid` it calls; `ReviewLoad` with
`RejectCommit` or `RequestInfoCommit` are `reject_request` and `request_info`;
`CashLoad`, `CashInsert`, `CashCommit`, `CashFindPending`, `CashSupersede` are
`pay_invoice_manually`, which commits twice; `IssueCheck`, `IssueCommit`
are `issue_invoice` with `ensure_no_open_invoice` before it. `Abort` cuts an
*unreliable* request off: what it committed stays, the rest is rolled back.

The central argument: `ApproveLockInvoice` looks at invoice and reference again
*under* the lock of the invoice, and no other approval can be past that point
for the same invoice.

### SubscriptionLifecycle

The runner's cycle goes through its steps in the code's order (`Groups`):
renewal invoices, reminders, past due, trials, grace, resumption, commit,
then the sweep (`JudgeHouses`, `ReadHouses`, `SyncHouses`). `Due` is the
`WHERE` clause of each step, `LookForPaidPeriod` and `SyncRolled` the safety
net that looks for a paid next period, `MarkPastDue` the rest of that step.
`PayLoad`, `PayCommit`, `PayRefused`, `PaySync` are a payment seen from the lifecycle:
an approval finds its invoice paid when it reads it again under its lock, a cash entry
goes by what it loaded and is stopped only by the unique number of another cash payment
(`Refused`), so a late one pays an invoice again that was approved since (`Stored`).
`MemberLoad`/`OverrideLoad`/`ExtendLoad` with `EditCommit`, `EditSync` the other
changes, `RenewRequest` the tenant's renewal, `HouseEditLoad`, `HouseEditCommit`
an edit of a house. `EffectiveStatus` and `IsEntitled` translate the access gate.
Init has every mixture of houses that have just selected a plan and houses in
their first paid period.

### Refunds

`CreateLoad`, `CreateCommit` are `admin_create_refund`; `Load`, `CompleteLock`,
`CompleteSum`, `CompleteCommit` are `admin_complete_refund`; `Load`, `RejectCommit` are
`admin_reject_refund`. `RefundLedger` promises that money is given back one refund at
a time, within the payment, and that the status tells how much;
`OneClerkImplementsLedger` (in `MCRefunds`) maps its `returned` to the sum of the
completed refunds, in the scene where refunds are recorded one after the other, as
one clerk would, and nobody rejects (`OneAtATime`): two that are recorded at once do
not implement it (`finding_over_refunded`).

### SerialStock

Each operation of `inventory_service.py` and `field_sales_service.py` is one
action of its name. It locks its document and the serial units
(`lock_serial_units`) before it looks at them and commits at its end; whatever
it refuses is rolled back as a whole. Two requests about the same unit or the
same document therefore follow one another, and a refused one is a step that
changes nothing. `Sellable` is `validate_sale_items`, `Decided` and
`VerifiedLedger` the three decisions of `verify_return`.

`ledger` holds, per unit and place, the sum of the quantities of the
append-only table `inventory_ledger`. `receipt`, `return` and `sale` hold the
units that a document's lines name; lines stay when a unit moves on, which is
what makes old vouchers about new journeys possible. Issue vouchers are
written once and decide nothing later, so they are not kept. Ids are used once,
except that a deleted draft leaves its id free, which saves the run a third one.

Left out: quantities and products, batches, idempotency keys, the creation of
locations on first use, the cash entry of an approved sale, and the deadlocks
PostgreSQL resolves by refusing one of two requests that lock several units in
different orders.

### TopupBalances and TopupAccounts

A request is one transaction with up to two parts, taking from a holder and giving
to one; each is `apply_itopup_change`. `TopupLook` is the moment the
`SELECT ... FOR UPDATE` fixes which rows it is going to lock, `TopupLockRow` the
lock with the new balance, `TopupNoRow`, `TopupInsert` and `TopupInsertFails` the
first row of a holder against the unique key, `TopupCommit` what becomes
visible. `Awaits` says whom a request waits for; `TopupVictim` is the database that
refuses one request of a circle of waits, `TopupCutOff` a lost connection. The
mother SIM has `NULL` where employees have their id, so the key does not keep its
rows apart; the model has the second row and what becomes of it.
`TopupAccounts` promises requests settled at once, in full or not at all;
`ImplementsAccounts` maps its balances to the sums of the committed rows.

### CashBook

`AskFor` reads an expense and decides; `CheckDate` is `assert_date_open`,
`FindEntry` looks for the cash entry of the source, `InsertEntry` inserts it
(waiting for an uncommitted one of the same source), `WriteExpense` writes the
status over whatever it is and commits. `CloseDay` is the closing as a guard only.

### DeployService and DeployConsole

The service handles one event at a time; each handler is one action
(`TriggerDeploy`, `RunOpScript` through `SocketOp` and `OpRequestBody`,
`DeployStep`, `DeployMarker`, `DeployExit`, `OpStep`, `OpMarker`, `OpExit`,
`ResetDeploy`, `CancelOp`, `Connect`, `Restart`). A script goes on by itself:
`TakeLock`, `WorkEnds`, `Exits` put lines into its pipe, and the service takes
them one by one, its exit last. `Killed` is a SIGTERM: bash runs its exit trap
and ends, and the command it was running goes on as an *orphan* that holds the
pipe, so that Node reports `close` when the orphan is gone. `since` is the
number of the reset a script was started after; `heard` in `deploy` is a history of
the scripts whose lines went into the state. `DeployConsole` adds the pages:
`Click`, `StartSent`, `StartRead` are a start with its ticket, its way and its
reading, `PageReceives` and `OpPageReceives` the handlers of messages, `guess` says
that the page shows what it assumed itself.

### LiftingPull and PullModal

`StartLoad`, `StartCheck`, `StartCommit`, `StartLog` are `start_lifting_pull` with the
awaits at which another request can pass it; `StartRefused`, `StartCommitFails`,
`StartLogFails`, `StartRestore` its ways out. A commit can fail in its flush or at its
end. In the flush it leaves the record expired and the session waiting for a rollback:
the handler raises when it asks the record for its id, and releases nothing
(`StartFlushFails`, `StartLogFlushFails`). The task goes `JobChecks` (list),
`JobFills`, `JobSaves`, `JobConfirmed`, `JobCaptures`, `JobWrites`, `JobLogs`, each
of which may fail into `JobExcepts`. `Decided` and `FiledByHand` are people at the DMS,
`HalfHour` what makes a running record stale and an ended job purged, `Crash` the
loss of reservations, jobs and requests. `Unloaded` is an assumption about time:
half an hour does not pass within one request. `PullModal` adds the window and the
loops that poll; there can be several loops, and one flag that stops them.

### ReportSchedules

`Wake` begins a cycle with the rows it has read, `Begin` or `NotReady` takes the next
due schedule, `PageSent`, `AttemptLost`, `TokenExpired`, `TargetRefused`,
`TelegramFails` are what can come of sending a page, `Mark` writes the last run,
`Logged` ends the schedule. `Raises` is an error that nothing in the cycle catches,
`Crash` and `Restart` the process. Moments are slots of a day; `IsDue` translates the
test of what is due. `SendNow` and `SendNowEnds` are a report sent by hand, which
runs beside the loop.

## What each run checks

| Run | Question | Bounds |
|---|---|---|
| `review_approvals` | Do overlapping approvals, cut off anywhere, pay an invoice twice, leave books that disagree, or shorten a renewal? | 2 houses, 4 invoices (first payment and renewal of each), 1 reference, 3 submissions, 3 approvals, all unreliable, 1 issuer, 3 days; 263,104 states |
| `review_desk` | Do approvals, cash, a rejection or a question, and submissions for the same invoices keep references apart, and does every request get its locks? | 2 houses, 1 reference, 2 submissions, 1 approval, 1 cash entry, two scenes: with a rejection or with a question; 63,825 states |
| `lifecycle_payments` | Do payments that race with the runner keep their periods; is free time bounded, across a crash? | 2 houses (one not renewed automatically), 2 payments, the first an approval or a cash entry, the second an approval (one for either house, or both for one while the other runs out), under `Unhurried` and `Undoubled`; 1 crash, before a second payment, 5 days, interval 1, grace 2; 469,722 states |
| `lifecycle_follow` | Are houses in the end locked and unlocked as their subscription says? | 1 house, 5 days, two scenes: a payment (approved or in cash) with a pause, resumption or cancellation; an override or extension with an edit of the house; 636,467 states |
| `refunds` | Is a payment ever understated, does every request end, and where refunds are recorded one after the other and nobody rejects, do the tables implement the ledger? | price 3, 4 rows; scenes: 2 records one after the other and 3 completions, or 2 records, 2 completions and 1 rejection; 213,917 states |
| `house_books` | Stock: whatever documents are written about the same units, does the ledger add up, is a unit sold once, can what waits be decided? Money: do overlapping requests implement the accounts? Expenses: are they booked once, and the paid ones booked? | 2 units, 2 employees, 2 receipts, 2 returns, 2 sales; 2 holders and the mother SIM, scenes of three of seven requests, amounts up to 2; 1 expense, 2 clerks; 135,312 states |
| `deployment` | Are two deploys ever at work since a reset; does what runs end, in its own voice; do the pages agree? | 3 scripts, 1 reset, 1 restart, 1 HTTP request, 2 messages on a wire, 1 lost socket, five scenes; 256,337 states |
| `lifting_pull` | Can a house be driven or asked for twice, a filed request be forgotten, a house or window be stuck? | 2 records of one house, 2 requests, 2 jobs, 2 listed requests, 1 half hour, 1 crash, two scenes (without and with the window); 323,733 states |
| `report_schedules` | Is who is due passed and not starved, no day missed, nothing retried at once, nothing sent too often? | 2 days of 3 slots; a daily schedule with 2 chats beside one with an interval, or beside one on Telegram whose report cannot be built; 1 fault, change or manual send; 240,585 states |
| `finding_*` | see *Disagreements* | the least that shows them |

Why the bounds suffice: the races here are between two requests, or a request
and a loop; a third request of the decisive kind (three approvals, three
submissions, three completions, three scripts) lets one go through each window
left open by two others. Five days with an interval of one pass through trial,
first period, past due, grace and expiry. `Invoices` of a house exceed the issuers,
so issuing never fails for want of a row. In `house_books` the three books share
no table, so a behaviour is about one of them, which is no restriction; two
vouchers and two sales that share a unit give every overlap of a document with
a later one of its kind. Two scripts after a reset, with the orphan of the one that was
reset, are what the lock of `deploy.sh` meets. A pull, the crash that forgets it
and the second pull after half an hour are the story the DMS check is for. Two
midnights bound every day of a schedule, and one fault is what separates the
days with a promise from those without. Symmetry is used only in runs without
liveness properties.

`house_books`, `deployment` and `lifting_pull` do not check for deadlock, since
ids, scripts and requests may be used up; that nothing hangs is `RunsEnd`,
`HousesFreed` and `ModalEnds` where the code goes on by itself. `TopupBalances`
has no liveness property: that a circle of waits is noticed is up to the
database. That nobody waits for a request that has ended is proved (`WaitsEnd`).

**Fairness.** Every request that has arrived goes on when it can
(`WF_vars(Advance(r))`, `WF_vars(StartSteps(q))`): the event loop resumes every
coroutine, and the database grants a lock in turn. Nothing obliges a request to
arrive, an administrator to decide, or a request to be cut off. The runner is a loop
that starts again when a cycle has ended (`WF_vars(Cycle)`). With `Punctual`, the
day does not change before a cycle has completed on it: the runner wakes every
five minutes, and periods are counted in days. Crashes are bounded by
`MaxCrashes`, and with one crash the grace (2 days) is longer than the time
without a runner; with a grace as short as the outage, `ExpiredStaysBlocked`
fails, because the past due step hands the grace out after it would have ended
(`services/billing_runner.py:157`).

The last ticks leave the clock at `MaxTime` for ever, so the eventual
properties (`HousesLock`, `HousesUnlock`, `StatusesSettle`) speak of the
situation after the last change: the runner must then bring every house and
status in line.

`HousesFreed` leaves one case out, in which the code does not free the house: a
start whose update or log entry fails in the flush of its commit (`HeldBack`, see *A
house stays reserved*).

A script of the deployment goes on and its lines are read
(`WF_vars(ScriptRuns(s))`, `WF_vars(LineTaken(s))`): its commands end, and Node
reads the pipe. A task that pulls has a timeout at every wait
(`WF_vars(JobSteps(j))`); a window's timer fires after two seconds, and a request
of the browser ends within the minute the client gives it, whether it was answered
or not (`ModalFairness`). The loop over the schedules wakes every half minute and
every message of it has a timeout (`WF_vars(LoopStep)`); a slot is longer than
half a minute, so time passes only once the loop has looked at a slot, or while a
cycle or an outage lasts, for at most `MaxSpan` slots.

## What is proved

`PaymentReviewProofs` proves, for every set of houses, invoices, references and
requests, every interval and every bound of the clock:

| Theorem | Says |
|---|---|
| `TypeCorrect` | `Spec => []TypeOK` |
| `ApprovalsPayOpenInvoices` | `Spec => []ApprovalPaysOpenInvoice`: an approval is always the first activation of its invoice, whatever else is going on |
| `ApprovalsPayOnce` | where there are no cash entries, `Spec => []PaidOnce` |
| `BooksAlwaysAgree` | `Spec => []BooksAgree`: invoice, change log and subscription agree |
| `LiveReferencesAlwaysUnique` | `Spec => []LiveReferencesUnique`: no two live payments have one reference |
| `RenewalsExtend` | with one issuer and no cash entries, `Spec => RenewalExtends` |

The assumptions are those of `PaymentReview` (`ConstantsAssumption`,
`RequestsAssumption`): intervals are positive, requests of different kinds are
different. TLC evaluates them in every run.

`ApprovalPaysOpenInvoice` is not inductive: an approval about to commit would
break it if its invoice had been paid since it looked. The strengthening
`Serial` adds what the locks achieve: two approvals at `ready`, past the lock of
the invoice, are at different invoices; an approval at `ready` and a cash entry
at `inserted` are at different invoices; the invoice of an approval at `ready`
is not paid; and an invoice that is not paid has no activations. The first two
parts say that nobody else can pay between check and commit, the third that the
check was made under the lock.

The proof goes action by action. Most steps are `Quiet`: no request comes to
hold or keeps changing a decisive lock, and no invoice is paid (`QuietKeeps`,
`BystandersQuiet`). A cash entry that enters `inserted` shares the invoice's
row with its foreign key, so no approval holds that invoice (`CashKeeps`); an
approval that enters `ready` waits for both and reads the invoice again
(`ApprovalKeeps`). The lock of the *payment* plays no part. `ApprovalsPayOnce`
follows since only approvals and cash entries mark invoices paid
(`OnlyDeskPays`). With cash entries `PaidOnce` is false (see
`finding_cash_after_approval`), so the hypothesis is needed.

`LiveReferencesUnique` is strengthened to `IndexOK`. What a cash entry or an
approval commits was looked up earlier; it is still right because a payment row is
locked by one request (`OneHolder`), the payment an approval has locked stays live
(`HeldIsLive`), and the unique index already counts the reference of an
insertion that has not committed (`ClaimsApart`). The action lemmas each say who
may make a row live, or give it a reference, and show that row alone with it.

`RenewalsExtend` needs that nobody changes a subscription between the moment an
approval reads it and its commit. With one issuer a house has one open invoice at
a time (`Renewable`), so the lock of that invoice guards the subscription too. Two
issuers can leave two open invoices (see *Disagreements*), whose approvals both
extend the same end; a cash entry extends without a lock. Both hypotheses are
those of the run.

`SubscriptionLifecycleProofs`, for any houses, requests, crashes and days, and any
lengths of period, grace, notice and pause:

| Theorem | Says |
|---|---|
| `LifecycleTyped` | `Spec => []TypeOK` |
| `PaidTimeNeverLost` | without extensions, `Spec /\ [][Unhurried]_vars /\ [][Undoubled]_vars => []PaidEndKept` |
| `FreeTimeAlwaysBounded` | without members, overrides and extensions, and `Punctual`, `Spec /\ [][Unhurried]_vars /\ [][Undoubled]_vars => []FreeTimeBounded` |
| `ExpiredAlwaysStaysBlocked` | in addition with a grace of at least two days, `Spec /\ [][Unhurried]_vars /\ [][Undoubled]_vars => ExpiredStaysBlocked` |

Each hypothesis excludes something the code does, and TLC or the code shows what
would happen:

- There is a house: the session of a request that has none names an arbitrary one.
- `Unhurried`: a house that waits on the runner's list of the past due is paid for
  at most once before its turn. The runner spends mails and messages on each house
  of the list, and rolls a listed one forward to the *first* paid period ahead
  (`services/billing_runner.py:145`): of two payments in that window the second is
  lost. TLC shows it with two approvals of one house. The run makes the same
  assumption.
- `Undoubled`: no cash entry pays an invoice that was paid after it had loaded it. The
  code lets it pass (`finding_cash_after_approval`): it starts from the end it knows and
  writes its own end over that of any renewal since. TLC shows it with an approval of
  the same invoice, an approval of the next one and the cash entry last. Approvals
  satisfy it by their lock, and cash entries alone by their unique number. The run makes
  the same assumption.
- No extensions: `extend_period_days` adds to the end its request has loaded and
  writes over a payment made since.
- No members and overrides, for the bound of free time: a resumption and
  `set_status` start a period's grace anew. The lifecycle of a paying house remains:
  payments, cash entries, edits of the house, cycles and crashes.
- `Punctual`: a cycle completes every day. A runner that is down for a week notices
  a week late, and its grace counts from then.
- A grace of two days: a subscription noticed a day late with a grace of one has
  expired by the gate when it is marked past due, and the mark makes it usable again
  (`Grace starts again` below). The default is longer.

The difficulty is that the runner and the payments work on objects they loaded
earlier. `EndInv` says why this does no harm to the ends. A payment goes through only if its
house has as many paid periods as when it was loaded (`PaysCurrent`), so the end it
knows is not before any paid period (`SeenEnd`, `SeenFirst`, `Counted`), and it pays an
invoice that was not paid before (`Numbered`). An object on
the list of the past due has an end behind the cycle's clock, so whatever was
bought since lies wholly ahead, is one period, and is found by the query before
the row is marked (`ListEnd`; `HeldEnd` for the groups before). An `UPDATE`
names only what the session changed, so no uncommitted row has another end than the
stored one (`DraftEnd`). Most actions belong to the class `CalmEnds`, which changes no
end, and are done by one lemma; selection, roll, payment and load are the rest.

`FreeInv` adds that no active subscription past its end escapes a cycle: it is
on the list from the selection on (`OldListed`), there is none after the commit
(`SweptRows`), and the last completed cycle was at most a day ago (`Daily`). So a
grace starts at most a day after the end, which `RowOK` keeps for the stored and
the uncommitted rows alike. For the payments that are under way `SeenOK` says how a
row may have moved on since they read it (`Follows`). TLC checked both invariants, before they
were proved, for one house with three payments and for two with two.

`RefundsProofs`, for any payments, rows, price and requests:

| Theorem | Says |
|---|---|
| `RefundsTyped` | `Spec => []TypeOK` |
| `StatusNeverUnderstates` | `Spec => []NeverUnderstated`: however recordings, completions and rejections overlap |
| `OneAtATimeImplementsLedger` | `Spec /\ []OneAtATime => Ledger!Spec`: what `RefundLedger` promises |
| `OneClerkKeepsLedger` | `SceneSpec => OneClerkImplementsLedger`: the same, as the run states it |

`RefundsAssumption` says that there is a payment and finitely many, at least one, rows
(a session that has read nothing still names some), that the price is a positive number
and that requests of different kinds are different.

For `NeverUnderstated` the argument is that a completion counts under the lock of the
payment. `LockedAlone`: no two completions hold the row of one payment. `CountsEnough`:
what one has counted is at least what is completed once it commits, since the others of
the same payment wait and all that can still change is a rejection, which lowers the sum.
So the status that is written is never too small. `CountsEnough` is an inequality because of
rejections; that is why the other half, `NeverOverstated`, fails with them.

For the refinement the inequality becomes an equation (`CountsAll`), as nobody rejects
(`OpenNamed`), and `RoomLeft` says that what a recording has measured is still free when
it is inserted. It needs that no second recording is under way: `OneAtATime` allows any
number of recordings one after the other, and any overlap of completions with them and
with each other. Then a completion gives back its refund within the payment, or changes
nothing where another one has completed the same row, and every other step leaves the
ledger as it is. Both halves of `OneAtATime` are needed: with two recordings at once
`finding_over_refunded` breaks the bound, and a rejection after a completion takes money
back.

The theorems about sums are in `SumTheorems`: that an element adds its value to
the sum of the others whatever the order, that functions that agree have the same sum, that
more rows do not sum to less. They need induction over the subsets of a finite set. The
library's induction theorem takes a predicate; `SubsetInduction` states it with the *set*
of subsets that have the property, from the well-foundedness of proper inclusion.

`HouseBooksProofs` has three parts. About `SerialStock`, for any sets of units, employees
and documents:

| Theorem | Says |
|---|---|
| `TypeCorrect` | `Spec => []TypeOK` |
| `LedgerAlwaysBalances` | `Spec => []LedgerBalances` |
| `SoldAtMostOnce` | `Spec => []SoldOnce` |
| `WaitingUnitsDecidable` | `Spec => []ReturnedUnitsPending` |
| `UnitsHaveReceipts` | `Spec => []ReceiptsOwnUnits` |

The only assumption is that the places are different (`PlacesAssumption`). The
type invariant needs `ReturnsNamed`: a submitted return names an employee, to
whom a rejection gives the unit. `LedgerBalances` is inductive beside it, and
proved unit by unit: a unit that is neither moved nor booked stays in balance
(`BalancedSame`), and each operation books what it moves; `Placed`, the part
about where a unit can be, is what tells an operation which row to take the
unit from. `SoldOnce` rests on the second look an approval takes: the units it
sells are *assigned*, so none is sold, so no approved sale names one
(`ApprovalSellsOnce`). `ReturnedUnitsPending` rests on the query that counts what
still waits before it closes a voucher (`VerificationKeepsPending`).
`ReceiptsOwnUnits` (a unit exists exactly while one receipt names it, and deleting a
draft takes nothing along that another document names) is strengthened by
`UnusedNamesNothing`: an id without a receipt names no unit, so that a new receipt
loses none.

About `TopupBalances`, for any staff and any requests (`TopupAssumption`: there are finitely
many, holders and requests are different things, nobody gives to himself):

| Theorem | Says |
|---|---|
| `TopupTypeCorrect` | `TopupSpec => []TopupTypeOK`; no balance is negative |
| `BooksAlwaysAgree` | `TopupSpec => []BooksAgree`: a balance is the sum of its ledger rows |
| `AlwaysOneRowEach` | `TopupSpec => []OneRowEach`: an employee has one balance row |
| `WaitsAlwaysEnd` | `TopupSpec => []WaitsEnd`: nobody waits for a request that has ended |
| `BalancesImplementAccounts` | `TopupSpec => ImplementsAccounts`: the tables implement `TopupAccounts` |

`TopupInv` says above all what a session may rely on (`HeldRows`): a row it is
going to write is locked by it, and what it is going to write is the row's committed
balance and ledger moved by the same amount. With `FoundRows` (what a `SELECT`
found is of the holder) and `NewRows` (a row inserted by a request that has not
committed is nobody's), a commit cannot overwrite another's. `OneOfAKey` counts
uncommitted insertions, since the key is checked against them.

The refinement maps what a holder has to the sum of his rows, which are several only for
the mother SIM. `HoldsParts` says what of a request is done: its session holds one
row of each holder whose part it is past, and none of another. So when it commits, the sum of every
holder moves by what the request adds to him (`HolderSettled`), the giver and the taker
in one step, and a refusal, a victim of a deadlock or a request that is cut off
leaves the accounts as they were (`OthersRest`). That nobody is overdrawn comes from
the typed balances, that the ledger moves along from `BooksAgree`.

About `CashBook`, for any expenses and clerks, without assumptions:

| Theorem | Says |
|---|---|
| `AlwaysBookedOnce` | `CashSpec => []BookedOnce` |
| `PaidAlwaysBooked` | `CashSpec => []PaidIsBooked` |

`InsertedAlone` says that an uncommitted entry is the only one of its source;
`PaysWithEntry` that a payment about to write has its entry, in the table or in its
own transaction. The status of the expense plays no part: the proof shows that
the clerks may all decide by statuses that are no longer true.

`DeployProofs`, for any number of scripts, resets, restarts, requests, messages and lost sockets:

| Theorem | Says |
|---|---|
| `DeploysExclusive` | `Spec => []OneDeploySinceReset` |
| `RunningIsAwaited` | `Spec => []RunningAwaited` |
| `DeploysSpeakForThemselves` | `Spec => []OwnVoice` |
| `ServiceSafeBesidePages` | the same three of `ConsoleSpec`: the pages add nothing to what can become of the scripts |
| `ConsoleTyped` | `ConsoleSpec => []ConsoleTypeOK` |
| `DeployPageAlwaysAgrees` | `ConsoleSpec => []DeployPageAgrees` |
| `OpPageNeverTooSoon` | `ConsoleSpec => []NeverDoneTooSoon` |

For the first, `LockInv` relates holders to files: no file is held by two scripts, and
whoever was started since the last reset and holds a file holds the one at `LOCK_FILE`,
because a reset is the only thing that takes it away. For the second,
`AwaitInv` says that the last line in the pipe of a script that is no more is its
exit, and that the process held for a deploy is a deploy's; so a line that is
taken and is no exit leaves the exit to come. For the third,
`VoiceInv` says that while nothing was reset and every shell could be started the
only deploy with anything in its pipe is the one the service holds.

The pages see the service through their wires alone. `PageInv` says that what the
deploy page was told last is the state of the deploy, with nothing but steps after
it on the wire (`ToldLast`), or that it shows that state already, unless it guesses;
`OpPageInv` that the last a restore page was told of an operation that runs says
so. Every action of `DeployService` is reduced to what it puts on the wires
(`Broadcasts`, `DeployTold`, `OpTold`), every handler of a page to what it takes off.

`LiftingPullProofs`, for any records, houses, requests, jobs and crashes:

| Theorem | Says |
|---|---|
| `PullTypes` | `ModalSpec => []ModalTypeOK` |
| `HousesHaveOneDriver` | `ModalSpec => []OneDriver` |
| `HousesHaveOnePending` | `~ErrorPages => (ModalSpec => []OnePending)` |
| `CreatedAlwaysKept` | `ModalSpec => []CreatedIsKept` |
| `UndecidedAlwaysMarked` | `~ErrorPages => (ModalSpec => []UndecidedIsMarked)` |

`HoldInv` says that whoever is past the reservation, a request or a task, has its
house in `running`, and that no two of them share one; it is what the check and
the reservation without an await in between are for. `PendingInv` then adds that a task
at the form has seen a list without an undecided request, and that nobody can have
filed one since, except people at the DMS. The hypothesis is needed: an error page
reads as an empty list (see *Disagreements*).

For `CreatedIsKept`, `NotSubmitted` says that a pull is started for records that are
not submitted, and that a status to be put back is not *submitted* either, and
`CreatedAlone` that a job whose success is told is over and was the only one of its
record. `UndecidedIsMarked` rests on `FiledFor`: an undecided request was filed by a
job for a record of its house, and a start about to put a status back has seen the
list of its house without one.

`ReportSchedulesProofs`, for any schedules, windows, intervals and lengths of a day:

| Theorem | Says |
|---|---|
| `TypeCorrect` | `Spec => []TypeOK` |
| `CopiesAlwaysBounded` | `Spec => []CopiesBounded` |
| `NoRetryTooEarly` | `Spec => NoTightRetry` |
| `EveryDayDelivered` | `Spec => DailyDelivered` |

`CopiesInv` counts copies by round and attempt. `RetryInv` is about each WhatsApp
schedule (`Waited`): unless it is the one in hand, its mark is not older than its
last message, and what a cycle has still to do has waited. `DayMonotone` carries
the comparison of moments to days, and `PastFirst` keeps the first run of an interval
from being due again. `ServedInv` follows a daily schedule through the cycles of a day
(`Served`): what the table says was run today is done, whoever a cycle of today has to
pass is on its list, in hand or done, and once a cycle that began in this slot has ended
it is done. Before midnight the loop has looked at the last slot of the day, to which
every time has come (`LastSlot`). A cycle that is at work at midnight makes the next day a
disturbed one; that is where the hypothesis of `DailyDelivered` is needed (see *A pass over
midnight* below).

Every safety and action property that a run checks is a theorem here, some under the
hypotheses named. **Only model-checked**, and why:

- Every liveness property (`StatusesSettle`, `HousesLock`, `HousesUnlock`, the ends of
  requests, deploys, pulls and cycles): the prover treats neither liveness under
  fairness nor `ENABLED`.
- The lifecycle's theorems with `Unhurried` or `Undoubled` dropped, and `PaidTimeUsable`, are false
  and so not proved. `PaidTimeUsable`, `NotOverRefunded` and `PaidOnce` with cash entries
  are what the `finding_*` runs refute.

## Disagreements with what the repository says

Three are checked by runs that are expected to find a violation:

| Run | The code says | The code does |
|---|---|---|
| `finding_cash_after_approval` | `mark_invoice_paid` is "idempotent when already paid" (`services/subscription_service.py:613`) | `pay_invoice_manually` and `mark_invoice_paid` test an invoice that was loaded before an approval committed (`services/manual_payment.py:165`), and the cash entry activates it again: two periods for one invoice |
| `finding_runner_over_approval` | "unused paid time is never lost" (`services/subscription_service.py:601-602`) | the runner selects the trials that ended, sends notices for one after the other, and writes *expired* over a payment approved meanwhile (`services/billing_runner.py:184`; past due and grace, 156 and 202, do the same); the period stays paid and the house blocked |
| `finding_over_refunded` | "The whole amount is reserved, so a second refund is refused." (`tests/test_payment_requests_api.py:379`) | two clerks who record a refund at the same time are both measured against what was reserved before either (`routers/admin_billing.py:1087`) |

Others came up while modelling, are not covered by a run, and are listed with
the shortest story that shows each:

- **A rejection replaces an approval** (`services/payment_requests.py:896`
  against the docstring at 728). A rejection checks the status of the payment as
  the router loaded it; an approval commits; the rejection writes *failed*. The
  invoice stays paid and the payment that paid it is failed.
- **Two open invoices** (`services/subscription_service.py:327`). The runner
  and the tenant both find no open invoice and both issue one.
- **Grace starts again** (`services/billing_runner.py:157` against
  `services/entitlement.py:177`). The gate blocks a period that ended longer
  ago than the grace; the past due step, running late, counts a new grace from
  its own clock.
- **Manual off is overridden** (`services/house_lifecycle.py:80` against 13).
  Billing locks a house, an administrator switches it on, then off by hand; the
  mark of the first lock still stands, and the next payment switches it on.
- **A payment does not unlock at once** (`services/house_lifecycle.py:71`
  against 17). The request of the payment loaded the house before the sweep
  locked it; its sync sees an active house and does nothing. The next sweep
  unlocks it (`HousesUnlock`).
- **A house off with no mark** (`services/house_lifecycle.py:85` against
  9-11). A lock and an unlock that overlap write different columns; the house
  may end up off, and not marked for billing, so that no sweep unlocks it. It
  takes an override or an edit besides the sweep, so `HousesUnlock` is checked
  for payments and members only.
- **A grace date that outlives its use** (`services/billing_runner.py:131`
  against 5). A pause loaded before the runner's past due step and written
  after it leaves the grace date; the step excludes rows that have one, so the
  subscription keeps its stored status after its next end. `StatusesSettle`
  is checked without members.
- **The safety net takes a later renewal back**
  (`services/billing_runner.py:145` against
  `services/subscription_service.py:601-602`). It writes the period of *one*
  paid invoice after the end it has in hand, the first, although a second may have
  been paid while the runner was sending its messages. `PaidEndKept` is checked and
  proved for payments that are `Unhurried`.
- **A late cash entry takes a renewal back** (`services/subscription_service.py:613`
  against 601-602). An invoice is loaded for a cash entry, approved, and the next one
  approved too; the cash entry then activates the first again, and the subscription ends
  one period earlier than what was paid. `PaidEndKept` is checked and proved for
  payments that are `Undoubled`.
- **A house stays reserved** (`routers/lifting_pull.py:251` and 301, whose handlers
  are there to release it). An update or a log entry that fails in the flush of the
  commit expires the record; the handler needs its id for the release, and reading it
  raises in a session that waits for its rollback. The house is refused until the
  process restarts. `HousesFreed` leaves out exactly these starts.
- **A rejected return goes to somebody else**
  (`services/inventory_service.py:1453` against
  `test_rejected_return_goes_back_to_the_employee`,
  `tests/test_inventory.py:527`). A return of two units is verified for one of
  them, which is then issued to a second employee and returned by that one. The
  first voucher is still open, still names the unit and finds it *returned*; a
  rejection through it gives the unit to the first employee. The second voucher
  can then not be verified until the unit has been returned once more.
  `ReturnedToReturner` states the rule; no run checks it.
- **A submitted sale does not reserve its units**
  (`services/field_sales_service.py:397` against lines 7-8). A draft that is
  changed without new items is submitted without validation, so two submitted
  sales may name one unit. The second approval is refused (`SoldOnce`).
- **A refund rejected after its completion** (`routers/admin_billing.py:1233`
  against 1072-1073). The rejection decides on the status it loaded, and the
  payment stays *refunded* with no completed refund. `NeverUnderstated` is the
  half that holds with rejections.
- **Other losses of the billing code.** Selecting a plan commits the subscription before
  its first invoice (`routers/subscriptions.py:328`), and selecting it while paused makes
  a second subscription (322). Cancellation at period end sets a flag that the past due
  step does not read (`services/subscription_service.py:501`). A proration invoice covers
  the rest of a period and paying it may buy a whole one (405). An extension adds to the
  end its request has loaded (`routers/admin_billing.py:192`), and a retried cash payment
  looks for the first before it inserts (`services/manual_payment.py:352`).
- **A rejection over a payment of an expense** (`services/finance_service.py:163`). It
  decides on the status it has read: the expense is rejected and its money gone.
- **A closed date** (`services/finance_service.py:82` and 340-377 against lines 3-5: "A
  date whose daily closing is approved refuses new entries until a manager reopens it").
  An entry may commit after a closing approved since its check, and a reversal asks about
  the date of the original while it is booked on today's. A closing keeps the figures of
  its submission (545), and a resubmission may be written over an approval (553).
- **Two rows of the mother SIM** (`models/itopup_balance.py:8` against the key in line
  12; `services/itopup_service.py:25` and 47-52). Its employee is `NULL`, which is equal to
  nothing, so two first deposits leave two rows, and every later operation on them fails.
- **Two deploys across a reset** (`deploy-service/server.js:290` against "Single-instance
  lock", `deploy-service/deploy.sh:79`). A reset removes the lock file while the command
  of the old deploy goes on as an orphan; a new deploy takes a new file and runs beside
  it, and the orphan's last lines and exit end up in the new deploy's state.
- **An operation ended by another one's script** (`deploy-service/server.js:500`). The
  handlers know nothing that tells one operation from the next. A capture is checked when
  its headers come and started when its body has (953), so that a deploy may have been
  started in between. `cancel_op` marks the last operation failed when nothing runs (1203).
- **A page that goes on showing running** (`frontend/src/app/deploy/page.tsx:292`,
  `frontend/src/app/restore-points/page.tsx:455`), after a start that was refused, or when
  the answer of the request comes after the operation's last message.
- **An error page is an empty list** (`services/Automation/dms_scraper.py:126-134`: "No
  table is a valid "no previous PreRF" state, but a login redirect or an error page is
  not", and the code answers an empty list to both). `OnePending` is checked and proved
  for a DMS that answers no error page.
- **The newest request is taken for the new one**
  (`services/Automation/Tasks/lifting_pull.py:504`, which is to "identify the newly created
  request"): when none is new, an old one makes the record submitted.
- **A submitted record becomes failed** (`routers/lifting_pull.py:416`), when only the
  activity could not be logged; it may be pulled again once the DMS has granted the first
  request. A start that cannot be logged frees the record before it restores its status
  (302). The check of the funds drives the session of a house without reserving it (179).
- **A window shows another record's pull** (`PullPreRFModal.tsx:240`), when it was closed
  while its request was on the way.
- **Telegram and unready reports are retried at once**
  (`services/whatsapp_schedule_service.py:887` against the comment at 481-482): they do
  not move the last run, so the schedule is passed every half minute and the pages before
  the failing one are sent again. `NoTightRetry` is about WhatsApp.
- **A pass over midnight skips a day** (`services/whatsapp_schedule_service.py:1046`): its
  mark has the date of the new day. A pass that is cut off comes again as a whole (1051);
  an error of another kind than the client's leaves the schedules behind it waiting
  (1007); a schedule deleted during a cycle is still passed (1202).
- **A lost answer is tried again** (`services/whatsapp_service_client.py:48-53`: "plain
  timeouts fail fast instead", while the loop below goes on), so that a page may arrive
  up to five times (`CopiesBounded`).
- **DMS sessions.** A browser recovery forgets the locks of all houses while tasks hold
  them (`core/session_manager.py:131`); a keepalive is looked for, set up and then
  registered (191); a one-time password goes to the first wait that polls
  (`core/otp_manager.py:27`).
- **The browser's own state.** Answers to polls are not numbered
  (`frontend/src/context/NotificationsContext.tsx:82`, `MaintenanceContext.tsx:134`), and
  the proxy keeps a maintenance phase that has ended (`frontend/src/proxy.ts:26`).

## Not modelled

- Cancellation at period end, `auto_renew` changes, plan changes and proration,
  and reactivation; a second subscription row of one house.
- The cash short cut that finds or issues the invoice by itself
  (`services/manual_payment.py:319-398`).
- More than one worker process running the billing runner.
- Receipts and manual cash entries (each inserts one row of its own), the cash of an
  approved sale, the figures of a closing, overlapping requests about one closing, and
  the verification of a top-up entry.
- Tickets, `status.json`, the list of snapshots, the maintenance page, what the scripts
  do, and the restart of `deploy.sh` by itself after a pull.
- The check of the funds before a pull, amounts and the deposit slip.
- Rendering and captions of reports, the delivery history, direct sends without a
  schedule, and edits of anything but the time and the switch.
- Locks, browser contexts, keepalive loops and one-time passwords of the DMS
  automation; records of backups; contexts of the browser.
- `whatsapp-service/server.js`: the compose files do not start it, and the gateway in
  use is vendored.
- The components of the inventory without a module. The share of the repository's
  code that is modelled is small: most of it is tables, forms, translations, report
  queries and import parsing, in which nothing interleaves.

## Plan

What is left, in order of what the system depends on most:

1. **`AutomationLocks`** (locks of a house, recovery, keepalive loops) and
   **`OneTimePasswords`**: one holder per house; a password serves the wait it
   was requested for.
2. **`HouseAccess`**, an abstract specification of the lifecycle (paid, free,
   blocked, with the time that is paid for), refined by
   `SubscriptionLifecycle` without the runner's races; and
   `PaymentLedger` for `PaymentReview` (an invoice is open, then paid by one
   payment with one reference), refined where there are no cash entries, from
   `ApprovalsPayOnce`.
3. `CashBook`: the figures of a closing, overlapping requests about it, and the cash
   entry of an approved sale, which joins it to `SerialStock`.
4. Extensions of the billing models: `record_cash_payment`, plan changes and
   cancellation at period end in `SubscriptionLifecycle`.
5. *Theorems*: the refinement of `PaymentLedger` with item 2, for which `ApprovalsPayOnce`
   and `BooksAlwaysAgree` are the lemmas.
