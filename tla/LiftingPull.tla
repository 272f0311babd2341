------------------------------ MODULE LiftingPull ------------------------------
(***************************************************************************)
(* Pulling a lifting record: routers/lifting_pull.py reserves the record   *)
(* and its house, core/pull_jobs.py keeps the job, and                     *)
(* Automation/Tasks/lifting_pull.py files a PreRF request for it on the    *)
(* website of the operator (the DMS), which a person there decides.  A     *)
(* request moves money, so a record must not be filed twice.               *)
(*                                                                         *)
(* Three memories have to agree although each can be lost by itself: the   *)
(* record's pull_status in the database, the reservations and jobs in the  *)
(* memory of the process, and the list of requests in the DMS.             *)
(*                                                                         *)
(* Amounts, balances, deposit slips and the steps reported on the way are  *)
(* left out.                                                               *)
(***************************************************************************)
EXTENDS Naturals, FiniteSets

CONSTANTS
  Records,       \* lifting records that may be pulled
  Houses,        \* distribution houses
  HouseOf,       \* the house of each record
  Starts,        \* requests to start a pull
  MaxJobs,       \* bound: jobs ever started
  MaxRows,       \* bound: requests ever listed in the DMS
  MaxHalfHours,  \* bound: times that half an hour passes
  MaxCrashes,    \* bound: crashes of the backend
  ErrorPages     \* whether the DMS may answer with an error page for the list

ASSUME PullAssumption ==
  /\ ErrorPages \in BOOLEAN
  /\ HouseOf \in [Records -> Houses]
  /\ MaxJobs \in Nat /\ MaxRows \in Nat /\ MaxHalfHours \in Nat /\ MaxCrashes \in Nat

Jobs == 1 .. MaxJobs
Rows == 1 .. MaxRows

VARIABLES
  pull,       \* pull_status of each record, "none" for null
  recent,     \* whether its pull was requested in the last half hour
  start,      \* where each request to start stands, and what it has read
  running,    \* _running_records and _running_houses
  job,        \* the background tasks
  jobs,       \* how many there were
  store,      \* _jobs: what a poll is told of each job
  row,        \* the requests listed in the DMS, newest last
  rows,       \* how many there are
  halfHours, crashes

database == <<pull, recent>>
backend == <<start, running, job, jobs, store>>
dms == <<row, rows>>
vars == <<database, backend, dms, halfHours, crashes>>

-----------------------------------------------------------------------------
PullStates == {"none", "running", "submitted", "blocked", "failed"}
JobStages == {"none", "starting", "checking", "filling", "saving", "confirming", "capturing",
              "writing", "logging", "excepting", "over"}
(* The stages in which a task holds its reservation *)
Driving == JobStages \ {"none", "over"}
Outcomes == {"none", "created", "blocked", "dry_run_ok", "failed"}

(* A request that has its answer, or was not made.  One that is "held" has *)
(* its answer too, but its reservation lasts as long as the process.       *)
Rest == {"new", "refused", "restored", "started"}

NoStart == [stage |-> "new", record |-> 0, dry |-> FALSE, read |-> "none", recent |-> FALSE,
            job |-> 0]
NoJob == [stage |-> "none", record |-> 0, dry |-> FALSE, previous |-> "none",
          outcome |-> "none"]
NoRow == [house |-> 0, by |-> 0, status |-> "none"]

(* What is left of a request that is answered and of a job that is over *)
Answered(q, stage) ==
  start' = [start EXCEPT ![q] = [NoStart EXCEPT !.stage = stage, !.job = start[q].job,
              !.record = IF stage \in {"restored", "held"} THEN start[q].record ELSE 0]]
Ended(j) == [NoJob EXCEPT !.stage = "over", !.record = job[j].record]
Over(j) == job' = [job EXCEPT ![j] = Ended(j)]

Init ==
  /\ pull = [r \in Records |-> "none"] /\ recent = [r \in Records |-> FALSE]
  /\ start = [q \in Starts |-> NoStart]
  /\ running = [records |-> {}, houses |-> {}]
  /\ job = [j \in Jobs |-> NoJob] /\ jobs = 0
  /\ store = [j \in Jobs |-> "none"]
  /\ row = [i \in Rows |-> NoRow] /\ rows = 0
  /\ halfHours = 0 /\ crashes = 0

-----------------------------------------------------------------------------
(* start_lifting_pull, one step for each stretch between two awaits *)

StartLoad(q, r, dry) ==
  /\ start[q].stage = "new"
  /\ start' = [start EXCEPT ![q] = [@ EXCEPT !.stage = "loaded", !.record = r, !.dry = dry,
                                             !.read = pull[r], !.recent = recent[r]]]
  /\ UNCHANGED <<database, running, job, jobs, store, dms, halfHours, crashes>>

(* Fault: only the record is looked at, not its house. *)
StartRefusedRecordOnly(q) ==
  \/ start[q].read = "submitted"
  \/ start[q].read = "running" /\ start[q].recent
  \/ start[q].record \in running.records

StartRefused(q) ==
  \/ start[q].read = "submitted"
  \/ start[q].read = "running" /\ start[q].recent
  \/ start[q].record \in running.records
  \/ HouseOf[start[q].record] \in running.houses

StartCheck(q) ==
  /\ start[q].stage = "loaded"
  /\ IF StartRefused(q)
     THEN /\ Answered(q, "refused")
          /\ UNCHANGED running
     ELSE /\ start' = [start EXCEPT ![q].stage = "marked"]
          /\ running' = [records |-> running.records \cup {start[q].record},
                         houses |-> running.houses \cup {HouseOf[start[q].record]}]
  /\ UNCHANGED <<database, job, jobs, store, dms, halfHours, crashes>>

Release(r) ==
  running' = [records |-> running.records \ {r}, houses |-> running.houses \ {HouseOf[r]}]

(* The commit that says "running", and start_job. *)
StartCommit(q) ==
  /\ start[q].stage = "marked" /\ jobs < MaxJobs
  /\ jobs' = jobs + 1
  /\ pull' = [pull EXCEPT ![start[q].record] = "running"]
  /\ recent' = [recent EXCEPT ![start[q].record] = TRUE]
  /\ job' = [job EXCEPT ![jobs'] = [NoJob EXCEPT !.stage = "starting", !.dry = start[q].dry,
                !.record = start[q].record, !.previous = start[q].read]]
  /\ store' = [store EXCEPT ![jobs'] = "running"]
  /\ start' = [start EXCEPT ![q].stage = "committed", ![q].job = jobs']
  /\ UNCHANGED <<running, dms, halfHours, crashes>>

(* The COMMIT fails: the reservation is given back. *)
StartCommitFails(q) ==
  /\ start[q].stage = "marked"
  /\ Answered(q, "refused")
  /\ Release(start[q].record)
  /\ UNCHANGED <<database, job, jobs, store, dms, halfHours, crashes>>

(* The UPDATE before it fails in the flush: that expires the session's     *)
(* objects, so record.id, an argument of the release, raises.              *)
StartFlushFails(q) ==
  /\ start[q].stage = "marked"
  /\ Answered(q, "held")
  /\ UNCHANGED <<database, running, job, jobs, store, dms, halfHours, crashes>>

(* The activity is logged and the task starts. *)
StartLog(q) ==
  /\ start[q].stage = "committed"
  /\ Answered(q, "started")
  /\ job' = [job EXCEPT ![start[q].job].stage = "checking"]
  /\ UNCHANGED <<database, running, jobs, store, dms, halfHours, crashes>>

(* The COMMIT of the log fails: the reservation is given back, and the job *)
(* stays in the store, where nobody asks for it.                           *)
StartLogFails(q) ==
  /\ start[q].stage = "committed"
  /\ start' = [start EXCEPT ![q].stage = "restoring"]
  /\ Over(start[q].job)
  /\ Release(start[q].record)
  /\ UNCHANGED <<database, jobs, store, dms, halfHours, crashes>>

(* The INSERT of the log fails in the flush: record.id raises in the call  *)
(* that reports it, before the release and before the record is restored.  *)
StartLogFlushFails(q) ==
  /\ start[q].stage = "committed"
  /\ Answered(q, "held")
  /\ Over(start[q].job)
  /\ UNCHANGED <<database, running, jobs, store, dms, halfHours, crashes>>

(* The record goes back to what it was, if the database lets it. *)
StartRestore(q) ==
  /\ start[q].stage = "restoring"
  /\ Answered(q, "restored")
  /\ pull' \in {pull, [pull EXCEPT ![start[q].record] = start[q].read]}
  /\ UNCHANGED <<recent, running, job, jobs, store, dms, halfHours, crashes>>

-----------------------------------------------------------------------------
(* run_lifting_pre_rf_pull, on the website *)

RowsOf(h) == {i \in Rows : i <= rows /\ row[i].house = h}
Newest(h) == CHOOSE i \in RowsOf(h) : \A k \in RowsOf(h) : k <= i

(* Fault: what is undecided does not count. *)
EvaluatedRejected(h) == RowsOf(h) # {} /\ row[Newest(h)].status = "Rejected"

(* evaluate_pre_rf_rows: blocked by any pending request, or by the newest  *)
(* if it was rejected                                                      *)
Evaluated(h) ==
  \/ \E i \in RowsOf(h) : row[i].status = "Pending"
  \/ RowsOf(h) # {} /\ row[Newest(h)].status = "Rejected"

(* get_pre_rf_rows: a page without a table, which an error page is, too,   *)
(* reads as an empty list.                                                 *)
MayBeFree(h) == ErrorPages \/ ~Evaluated(h)

Came(j, stage, outcome) == [job EXCEPT ![j].stage = stage, ![j].outcome = outcome]
Unloaded == \A q \in Starts : start[q].stage \notin {"loaded", "restoring"}

(* Fault: a dry run, which files nothing, does not read the list. *)
JobChecksDryAtOnce(j) ==
  /\ job[j].stage = "checking" /\ Unloaded
  /\ LET h == HouseOf[job[j].record] IN
       \/ job' = Came(j, "writing", "failed")
       \/ ~job[j].dry /\ Evaluated(h) /\ job' = Came(j, "writing", "blocked")
       \/ (job[j].dry \/ MayBeFree(h)) /\ job' = [job EXCEPT ![j].stage = "filling"]
  /\ UNCHANGED <<database, start, running, jobs, store, dms, halfHours, crashes>>

(* The session is got and the list is read, or one of them fails.  It is   *)
(* minutes since any request read its record (Unloaded).                   *)
JobChecks(j) ==
  /\ job[j].stage = "checking" /\ Unloaded
  /\ LET h == HouseOf[job[j].record] IN
       \/ job' = Came(j, "writing", "failed")
       \/ Evaluated(h) /\ job' = Came(j, "writing", "blocked")
       \/ MayBeFree(h) /\ job' = [job EXCEPT ![j].stage = "filling"]
  /\ UNCHANGED <<database, start, running, jobs, store, dms, halfHours, crashes>>

(* Warehouse, bank, balance, deposit, product and sum; a dry run ends here. *)
JobFills(j) ==
  /\ job[j].stage = "filling"
  /\ \/ job' = Came(j, "writing", "failed")
     \/ job' = IF job[j].dry THEN Came(j, "writing", "dry_run_ok")
               ELSE [job EXCEPT ![j].stage = "saving"]
  /\ UNCHANGED <<database, start, running, jobs, store, dms, halfHours, crashes>>

Listed(h, by) ==
  /\ rows < MaxRows
  /\ rows' = rows + 1
  /\ row' = [row EXCEPT ![rows'] = [house |-> h, by |-> by, status |-> "Pending"]]

(* Save: the DMS files the request or not, and its answer is seen, or not, *)
(* or the page is lost.                                                    *)
JobSaves(j) ==
  /\ job[j].stage = "saving"
  /\ \/ /\ Listed(HouseOf[job[j].record], j)
        /\ \/ job' = [job EXCEPT ![j].stage = "confirming"]
           \/ job' = [job EXCEPT ![j].stage = "capturing"]
           \/ job' = Came(j, "writing", "failed")
     \/ /\ UNCHANGED dms
        /\ \/ job' = [job EXCEPT ![j].stage = "capturing"]
           \/ job' = Came(j, "writing", "failed")
  /\ UNCHANGED <<database, start, running, jobs, store, halfHours, crashes>>

(* Confirmed: the RF code is read if it can be, and the slip looked at.    *)
JobConfirmed(j) ==
  /\ job[j].stage = "confirming"
  /\ job' \in {Came(j, "writing", "created"), Came(j, "writing", "failed")}
  /\ UNCHANGED <<database, start, running, jobs, store, dms, halfHours, crashes>>

(* No answer: _capture_rf_code reads the list again and takes a request    *)
(* that was not there before or else the newest; none is found in an empty *)
(* list or where the list cannot be read.                                  *)
JobCaptures(j) ==
  /\ job[j].stage = "capturing"
  /\ \/ job' = Came(j, "writing", "failed")
     \/ RowsOf(HouseOf[job[j].record]) # {} /\ job' = Came(j, "writing", "created")
  /\ UNCHANGED <<database, start, running, jobs, store, dms, halfHours, crashes>>

-----------------------------------------------------------------------------
(* The end of _run_lifting_pull_job *)

Written(j) ==
  CASE job[j].outcome = "created" -> "submitted"
    [] job[j].outcome = "blocked" -> "blocked"
    [] job[j].outcome = "dry_run_ok" ->
         IF job[j].previous = "running" THEN "none" ELSE job[j].previous
    [] OTHER -> "failed"

(* Fault: the job is told complete before the record is written. *)
JobWritesTold(j) ==
  /\ job[j].stage = "writing"
  /\ store' = [store EXCEPT ![j] = IF @ = "purged" THEN @ ELSE job[j].outcome]
  /\ \/ /\ pull' = [pull EXCEPT ![job[j].record] = Written(j)]
        /\ job' = [job EXCEPT ![j].stage = "logging"]
     \/ /\ job' = [job EXCEPT ![j].stage = "excepting"]
        /\ UNCHANGED pull
  /\ UNCHANGED <<recent, start, running, jobs, dms, halfHours, crashes>>

JobWrites(j) ==
  /\ job[j].stage = "writing" /\ Unloaded
  /\ \/ /\ pull' = [pull EXCEPT ![job[j].record] = Written(j)]
        /\ job' = [job EXCEPT ![j].stage = "logging"]
     \/ /\ job' = [job EXCEPT ![j].stage = "excepting"]
        /\ UNCHANGED pull
  /\ UNCHANGED <<recent, start, running, jobs, store, dms, halfHours, crashes>>

(* complete_job and fail_job, for a job that is still in the store *)
Reported(j, outcome) == [store EXCEPT ![j] = IF @ = "purged" THEN @ ELSE outcome]

JobLogs(j) ==
  /\ job[j].stage = "logging"
  /\ \/ /\ Over(j)
        /\ store' = Reported(j, job[j].outcome)
        /\ Release(job[j].record)
     \/ /\ job' = [job EXCEPT ![j].stage = "excepting"]
        /\ UNCHANGED <<store, running>>
  /\ UNCHANGED <<database, start, jobs, dms, halfHours, crashes>>

(* Fault: there is no finally. *)
JobExceptsHeld(j) ==
  /\ job[j].stage = "excepting"
  /\ pull' \in {pull, [pull EXCEPT ![job[j].record] = "failed"]}
  /\ Over(j)
  /\ store' = Reported(j, "failed")
  /\ UNCHANGED <<recent, start, running, jobs, dms, halfHours, crashes>>

(* except and finally: whatever was written before, the record failed.     *)
JobExcepts(j) ==
  /\ job[j].stage = "excepting"
  /\ pull' \in {pull, [pull EXCEPT ![job[j].record] = "failed"]}
  /\ Over(j)
  /\ store' = Reported(j, "failed")
  /\ Release(job[j].record)
  /\ UNCHANGED <<recent, start, jobs, dms, halfHours, crashes>>

-----------------------------------------------------------------------------
(* People at the DMS, time, and the process *)

(* A request for a house that somebody files by hand *)
FiledByHand(h) ==
  /\ Listed(h, 0)
  /\ UNCHANGED <<database, backend, halfHours, crashes>>

Decided(i, status) ==
  /\ row[i].status = "Pending"
  /\ row' = [row EXCEPT ![i].status = status]
  /\ UNCHANGED <<database, backend, rows, halfHours, crashes>>

(* Half an hour: a request to start takes no such time. *)
HalfHour ==
  /\ halfHours < MaxHalfHours
  /\ halfHours' = halfHours + 1
  /\ \A q \in Starts : start[q].stage \in Rest \cup {"held"}
  /\ recent' = [r \in Records |-> FALSE]
  /\ store' = [j \in Jobs |-> IF store[j] = "none" THEN "none" ELSE "purged"]
  /\ UNCHANGED <<pull, start, running, job, jobs, dms, crashes>>

(* The process starts again: what it kept in memory is gone, and its       *)
(* browser with it.                                                        *)
Crash ==
  /\ crashes < MaxCrashes
  /\ crashes' = crashes + 1
  /\ start' = [q \in Starts |-> IF start[q].stage \in Rest
                                THEN start[q]
                                ELSE [NoStart EXCEPT !.stage = "refused"]]
  /\ running' = [records |-> {}, houses |-> {}]
  /\ job' = [j \in Jobs |-> IF job[j].stage = "none" THEN job[j] ELSE Ended(j)]
  /\ store' = [j \in Jobs |-> IF store[j] = "none" THEN "none" ELSE "purged"]
  /\ UNCHANGED <<database, jobs, dms, halfHours>>

-----------------------------------------------------------------------------
StartSteps(q) ==
  \/ StartCheck(q)
  \/ StartCommit(q) \/ StartCommitFails(q) \/ StartFlushFails(q)
  \/ StartLog(q) \/ StartLogFails(q) \/ StartLogFlushFails(q)
  \/ StartRestore(q)

JobSteps(j) ==
  \/ JobChecks(j) \/ JobFills(j) \/ JobSaves(j) \/ JobConfirmed(j) \/ JobCaptures(j)
  \/ JobWrites(j) \/ JobLogs(j) \/ JobExcepts(j)

Next ==
  \/ \E q \in Starts :
       StartSteps(q) \/ \E r \in Records, dry \in BOOLEAN : StartLoad(q, r, dry)
  \/ \E j \in Jobs : JobSteps(j)
  \/ \E h \in Houses : FiledByHand(h)
  \/ \E i \in Rows, status \in {"Approved", "Rejected"} : Decided(i, status)
  \/ HalfHour \/ Crash

(* Every handler goes on, and every wait of a task has a timeout. *)
Fairness ==
  /\ \A q \in Starts : WF_vars(StartSteps(q))
  /\ \A j \in Jobs : WF_vars(JobSteps(j))

Spec == Init /\ [][Next]_vars /\ Fairness

-----------------------------------------------------------------------------
StartRows ==
  [stage : {"new", "loaded", "marked", "committed", "restoring", "restored", "held", "refused",
            "started"},
   record : Records \cup {0}, dry : BOOLEAN, read : PullStates, recent : BOOLEAN,
   job : 0 .. MaxJobs]
JobRows ==
  [stage : JobStages, record : Records \cup {0}, dry : BOOLEAN, previous : PullStates,
   outcome : Outcomes]
DmsRows ==
  [house : Houses \cup {0}, by : 0 .. MaxJobs, status : {"none", "Pending", "Approved", "Rejected"}]

(* The tables, the memory of the process and the DMS list keep their types. *)
TypeOK ==
  /\ pull \in [Records -> PullStates] /\ recent \in [Records -> BOOLEAN]
  /\ start \in [Starts -> StartRows]
  /\ running \in [records : SUBSET Records, houses : SUBSET Houses]
  /\ job \in [Jobs -> JobRows] /\ jobs \in 0 .. MaxJobs
  /\ store \in [Jobs -> Outcomes \cup {"running", "purged"}]
  /\ row \in [Rows -> DmsRows] /\ rows \in 0 .. MaxRows
  /\ halfHours \in 0 .. MaxHalfHours /\ crashes \in 0 .. MaxCrashes

(* No two tasks drive the DMS session of one house at the same time: what  *)
(* mark_record_running is for, whatever fails or crashes in between.       *)
OneDriver ==
  \A j, k \in Jobs :
    /\ job[j].stage \in Driving /\ job[k].stage \in Driving
    /\ HouseOf[job[j].record] = HouseOf[job[k].record]
    => j = k

(* Of the requests this system files for a house at most one is undecided: *)
(* a retry after a crash, a missing answer or a failed write never files   *)
(* the same money a second time while the first may still be granted.      *)
OnePending ==
  \A i, k \in Rows :
    /\ row[i].by # 0 /\ row[i].status = "Pending"
    /\ row[k].by # 0 /\ row[k].status = "Pending"
    /\ row[i].house = row[k].house
    => i = k

(* While a request made for a record is undecided, the record does not     *)
(* look as if it had never been pulled; a dry run that puts the earlier    *)
(* status back must not hide it.  The exception is a start that could not  *)
(* be logged: it frees the record before it puts its status back, and may  *)
(* put it over the status of a pull that got in between.                   *)
UndecidedIsMarked ==
  \A i \in Rows :
    /\ row[i].by # 0 /\ row[i].status = "Pending"
    /\ \A q \in Starts : start[q].record = job[row[i].by].record => start[q].stage # "restored"
    => pull[job[row[i].by].record] # "none"

(* A house that is reserved is free again at last, so that it can be       *)
(* pulled without a restart, however its job fails: only a start whose     *)
(* UPDATE or INSERT failed in the flush of its commit keeps it, and such a *)
(* start was answered with an error.                                       *)
HeldBack(h) == \E q \in Starts : start[q].stage = "held" /\ HouseOf[start[q].record] = h
HousesFreed ==
  \A h \in Houses : (h \in running.houses) ~> (h \notin running.houses \/ HeldBack(h))
=============================================================================
