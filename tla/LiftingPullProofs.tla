--------------------------- MODULE LiftingPullProofs ---------------------------
(***************************************************************************)
(* Proofs about LiftingPull and PullModal, for any records, houses and     *)
(* requests and any number of pulls, half hours and crashes.               *)
(***************************************************************************)
EXTENDS PullModal, TLAPS

-----------------------------------------------------------------------------
(* Types                                                                   *)

(* The initial values have the types of the rows.                          *)
LEMMA FreshRows == NoStart \in StartRows /\ NoJob \in JobRows /\ NoRow \in DmsRows
BY PullAssumption
   DEF NoStart, NoJob, NoRow, StartRows, JobRows, DmsRows, PullStates, JobStages, Outcomes

(* A job that is left in another stage, or with an outcome, is a job.      *)
LEMMA JobRowsKept ==
  ASSUME NEW r \in JobRows, NEW stage \in JobStages, NEW outcome \in Outcomes
  PROVE  /\ [r EXCEPT !.stage = stage] \in JobRows
         /\ [r EXCEPT !.stage = stage, !.outcome = outcome] \in JobRows
         /\ [NoJob EXCEPT !.stage = "over", !.record = r.record] \in JobRows
BY FreshRows DEF JobRows, JobStages

-----------------------------------------------------------------------------
(* What each kind of step does to the requests, the jobs and the reservations *)

(* A request or a job that is under way has a record.                      *)
Named ==
  /\ \A q \in Starts :
       start[q].stage \in {"loaded", "marked", "committed", "restoring"}
         => start[q].record \in Records
  /\ \A j \in Jobs : job[j].stage \in Driving => job[j].record \in Records

(* One new row for request q, or for job j, and the others as they were    *)
OneStart(q, new) ==
  /\ start' \in [Starts -> StartRows]
  /\ start'[q] = new
  /\ \A p \in Starts : p # q => start'[p] = start[p]
OneJob(j, new) ==
  /\ job' \in [Jobs -> JobRows]
  /\ job'[j] = new
  /\ \A k \in Jobs : k # j => job'[k] = job[k]

(* A new row for one request changes nothing else among the requests.      *)
LEMMA OneStartChanges ==
  ASSUME TypeOK, NEW q \in Starts, NEW new \in StartRows, start' = [start EXCEPT ![q] = new]
  PROVE  OneStart(q, new)
BY DEF OneStart, TypeOK

(* And one for a job nothing else among the jobs.                          *)
LEMMA OneJobChanges ==
  ASSUME TypeOK, NEW j \in Jobs, NEW new \in JobRows, job' = [job EXCEPT ![j] = new]
  PROVE  OneJob(j, new)
BY DEF OneJob, TypeOK

(* A request that neither has nor takes a reservation *)
Passes(q) ==
  /\ start[q].stage \notin {"marked", "committed"}
  /\ \E new \in StartRows :
       /\ OneStart(q, new)
       /\ new.stage \notin {"marked", "committed"}
       /\ new.stage \in {"loaded", "restoring"} => new.record \in Records
  /\ job' = job /\ jobs' = jobs /\ running' = running

(* A request that takes one *)
Reserves(q) ==
  /\ start[q].stage = "loaded" /\ ~StartRefused(q)
  /\ \E new \in StartRows :
       OneStart(q, new) /\ new.stage = "marked" /\ new.record = start[q].record
  /\ running' = [records |-> running.records \cup {start[q].record},
                 houses |-> running.houses \cup {HouseOf[start[q].record]}]
  /\ job' = job /\ jobs' = jobs

(* A request that hands it to a new job *)
Hands(q) ==
  /\ start[q].stage = "marked" /\ jobs + 1 \in Jobs /\ jobs' = jobs + 1
  /\ \E new \in StartRows :
       /\ OneStart(q, new) /\ new.stage = "committed"
       /\ new.record = start[q].record /\ new.job = jobs + 1
  /\ \E new \in JobRows :
       OneJob(jobs + 1, new) /\ new.stage = "starting" /\ new.record = start[q].record
  /\ running' = running

(* A request that gives it back *)
GivesBack(q) ==
  /\ start[q].stage = "marked"
  /\ \E new \in StartRows : OneStart(q, new) /\ new.stage = "refused"
  /\ Release(start[q].record)
  /\ job' = job /\ jobs' = jobs

(* A request whose job goes on, or is given up *)
LetsGo(q) ==
  /\ start[q].stage = "committed"
  /\ \E new \in StartRows : OneStart(q, new) /\ new.stage = "started"
  /\ start[q].job \in Jobs =>
       \E new \in JobRows :
         /\ OneJob(start[q].job, new) /\ new.stage = "checking"
         /\ new.record = job[start[q].job].record
  /\ jobs' = jobs /\ running' = running
GivesUp(q) ==
  /\ start[q].stage = "committed"
  /\ \E new \in StartRows :
       OneStart(q, new) /\ new.stage = "restoring" /\ new.record = start[q].record
  /\ start[q].job \in Jobs =>
       \E new \in JobRows : OneJob(start[q].job, new) /\ new.stage = "over"
  /\ Release(start[q].record) /\ jobs' = jobs

(* A request that ends with it, its job given up if there is one *)
Keeps(q) ==
  /\ start[q].stage \in {"marked", "committed"}
  /\ \E new \in StartRows : OneStart(q, new) /\ new.stage = "held"
  /\ \/ job' = job
     \/ /\ start[q].stage = "committed"
        /\ start[q].job \in Jobs =>
             \E new \in JobRows : OneJob(start[q].job, new) /\ new.stage = "over"
  /\ jobs' = jobs /\ running' = running

(* A job that goes on, or is over *)
GoesOn(j) ==
  /\ job[j].stage \in Driving \ {"starting"}
  /\ \E new \in JobRows :
       /\ OneJob(j, new) /\ new.stage \in Driving \ {"starting"}
       /\ new.stage = "saving" => job[j].stage = "filling"
       /\ new.stage = "filling" => job[j].stage = "checking" /\ MayBeFree(HouseOf[job[j].record])
       /\ new.record = job[j].record
  /\ start' = start /\ jobs' = jobs /\ running' = running
IsOver(j) ==
  /\ job[j].stage \in Driving \ {"starting"}
  /\ \E new \in JobRows : OneJob(j, new) /\ new.stage = "over"
  /\ Release(job[j].record)
  /\ start' = start /\ jobs' = jobs

AllGone ==
  /\ start' \in [Starts -> StartRows] /\ job' \in [Jobs -> JobRows]
  /\ running' = [records |-> {}, houses |-> {}] /\ jobs' = jobs
  /\ \A q \in Starts : start'[q].stage \in Rest
  /\ \A j \in Jobs : job'[j].stage \in {"none", "over"}
                     /\ (job'[j].stage = "none" => job[j].stage = "none")
                     /\ (job[j].stage = "none" => job'[j].stage = "none")

AllStays == start' = start /\ job' = job /\ running' = running /\ jobs' = jobs

(* The steps of a request to start are of the first kinds.                 *)
LEMMA StartKinds ==
  ASSUME TypeOK, Named, NEW q \in Starts,
         StartSteps(q) \/ \E r \in Records, dry \in BOOLEAN : StartLoad(q, r, dry)
  PROVE  \/ Passes(q) \/ Reserves(q) \/ Hands(q)
         \/ GivesBack(q) \/ LetsGo(q) \/ GivesUp(q) \/ Keeps(q)
<1>1. start[q] \in StartRows /\ start \in [Starts -> StartRows]
  BY DEF TypeOK
<1>2. ASSUME NEW stage \in {"refused", "restored", "held", "started"}, Answered(q, stage)
      PROVE  \E new \in StartRows : OneStart(q, new) /\ new.stage = stage
  <2> DEFINE new == [NoStart EXCEPT !.stage = stage, !.job = start[q].job,
                       !.record = IF stage \in {"restored", "held"} THEN start[q].record ELSE 0]
  <2>1. new \in StartRows /\ new.stage = stage
    BY <1>1, FreshRows DEF StartRows, NoStart
  <2>2. start' = [start EXCEPT ![q] = new]
    BY <1>2 DEF Answered
  <2> HIDE DEF new
  <2> QED  BY <2>1, <2>2, OneStartChanges
<1>3. ASSUME NEW stage \in {"marked", "restoring"}, start' = [start EXCEPT ![q].stage = stage]
      PROVE  \E new \in StartRows :
               OneStart(q, new) /\ new.stage = stage /\ new.record = start[q].record
  <2> DEFINE new == [start[q] EXCEPT !.stage = stage]
  <2>1. new \in StartRows /\ start' = [start EXCEPT ![q] = new]
        /\ new.stage = stage /\ new.record = start[q].record
    BY <1>1, <1>3 DEF StartRows
  <2> HIDE DEF new
  <2> QED  BY <2>1, OneStartChanges
<1>4. ASSUME NEW r \in Records, NEW dry \in BOOLEAN, StartLoad(q, r, dry)
      PROVE  Passes(q)
  <2> DEFINE new == [start[q] EXCEPT !.stage = "loaded", !.record = r, !.dry = dry,
                                     !.read = pull[r], !.recent = recent[r]]
  <2>1. pull[r] \in PullStates /\ recent[r] \in BOOLEAN
    BY DEF TypeOK
  <2>2. new \in StartRows /\ new.stage = "loaded" /\ new.record = r
    BY <1>1, <2>1 DEF StartRows
  <2>3. start' = [start EXCEPT ![q] = new]
    BY <1>1, <1>4 DEF StartLoad, StartRows
  <2> HIDE DEF new
  <2> QED  BY <1>4, <2>2, <2>3, OneStartChanges DEF StartLoad, Passes
<1>5. ASSUME StartCheck(q)
      PROVE  Passes(q) \/ Reserves(q)
  <2>1. CASE StartRefused(q)
    <3>1. \E new \in StartRows : OneStart(q, new) /\ new.stage = "refused"
      BY <1>2, <1>5, <2>1 DEF StartCheck
    <3> QED  BY <1>5, <2>1, <3>1 DEF StartCheck, Passes
  <2>2. CASE ~StartRefused(q)
    BY <1>3, <1>5, <2>2 DEF StartCheck, Reserves
  <2> QED  BY <2>1, <2>2
<1>6. ASSUME StartCommit(q)
      PROVE  Hands(q)
  <2>1. jobs + 1 \in Jobs /\ jobs + 1 \in 0 .. MaxJobs /\ jobs' = jobs + 1
        /\ start[q].stage = "marked" /\ start[q].record \in Records
    BY <1>6, PullAssumption DEF StartCommit, TypeOK, Jobs, Named
  <2> DEFINE new == [start[q] EXCEPT !.stage = "committed", !.job = jobs + 1]
             born == [NoJob EXCEPT !.stage = "starting", !.dry = start[q].dry,
                        !.record = start[q].record, !.previous = start[q].read]
  <2>2. /\ new \in StartRows /\ new.stage = "committed" /\ new.record = start[q].record
        /\ new.job = jobs + 1
    BY <1>1, <2>1 DEF StartRows
  <2>3. /\ born \in JobRows /\ born.stage = "starting" /\ born.record = start[q].record
    BY <1>1, FreshRows DEF StartRows, JobRows, JobStages, NoJob
  <2>4. start' = [start EXCEPT ![q] = new] /\ job' = [job EXCEPT ![jobs + 1] = born]
    BY <1>1, <1>6, <2>1 DEF StartCommit, StartRows
  <2>5. running' = running
    BY <1>6 DEF StartCommit
  <2> HIDE DEF new, born
  <2> QED  BY <2>1, <2>2, <2>3, <2>4, <2>5, OneStartChanges, OneJobChanges DEF Hands
<1>7. ASSUME StartCommitFails(q)
      PROVE  GivesBack(q)
  BY <1>2, <1>7 DEF StartCommitFails, GivesBack
<1>8. ASSUME StartLog(q)
      PROVE  LetsGo(q)
  <2>1. \E new \in StartRows : OneStart(q, new) /\ new.stage = "started"
    BY <1>2, <1>8 DEF StartLog
  <2>2. ASSUME start[q].job \in Jobs
        PROVE  \E new \in JobRows :
                 /\ OneJob(start[q].job, new) /\ new.stage = "checking"
                 /\ new.record = job[start[q].job].record
    <3> DEFINE new == [job[start[q].job] EXCEPT !.stage = "checking"]
    <3>1. job[start[q].job] \in JobRows
      BY <2>2 DEF TypeOK
    <3>2. /\ new \in JobRows /\ new.stage = "checking"
          /\ new.record = job[start[q].job].record
      BY <3>1 DEF JobRows, JobStages
    <3>3. job' = [job EXCEPT ![start[q].job] = new]
      BY <1>8, <2>2 DEF StartLog, TypeOK
    <3> HIDE DEF new
    <3> QED  BY <2>2, <3>2, <3>3, OneJobChanges
  <2> QED  BY <1>8, <2>1, <2>2 DEF StartLog, LetsGo
<1>9. ASSUME Over(start[q].job), start[q].job \in Jobs
      PROVE  \E new \in JobRows : OneJob(start[q].job, new) /\ new.stage = "over"
  <2>1. Ended(start[q].job) \in JobRows /\ Ended(start[q].job).stage = "over"
    BY <1>9, FreshRows DEF TypeOK, Ended, JobRows, JobStages, NoJob
  <2>2. job' = [job EXCEPT ![start[q].job] = Ended(start[q].job)]
    BY <1>9 DEF Over
  <2> HIDE DEF Ended
  <2> QED  BY <1>9, <2>1, <2>2, OneJobChanges
<1>11. ASSUME StartLogFails(q)
       PROVE  GivesUp(q)
  <2>1. \E new \in StartRows :
          OneStart(q, new) /\ new.stage = "restoring" /\ new.record = start[q].record
    BY <1>3, <1>11 DEF StartLogFails
  <2> QED  BY <1>9, <1>11, <2>1 DEF StartLogFails, GivesUp
<1>12. ASSUME StartFlushFails(q) \/ StartLogFlushFails(q)
       PROVE  Keeps(q)
  <2>1. \E new \in StartRows : OneStart(q, new) /\ new.stage = "held"
    BY <1>2, <1>12 DEF StartFlushFails, StartLogFlushFails
  <2> QED  BY <1>9, <1>12, <2>1 DEF StartFlushFails, StartLogFlushFails, Keeps
<1>10. ASSUME StartRestore(q)
       PROVE  Passes(q)
  <2>1. \E new \in StartRows : OneStart(q, new) /\ new.stage = "restored"
    BY <1>2, <1>10 DEF StartRestore
  <2> QED  BY <1>10, <2>1 DEF StartRestore, Passes
<1> QED  BY <1>4, <1>5, <1>6, <1>7, <1>8, <1>10, <1>11, <1>12 DEF StartSteps
(* The steps of a job are of the last ones.                                *)
LEMMA JobKinds ==
  ASSUME TypeOK, Named, NEW j \in Jobs, JobSteps(j)
  PROVE  GoesOn(j) \/ IsOver(j)
<1>1. job[j] \in JobRows /\ job \in [Jobs -> JobRows]
  BY DEF TypeOK
<1>2. ASSUME NEW stage \in {"writing", "saving", "confirming", "capturing", "logging", "excepting"},
             NEW outcome \in Outcomes,
             job' = Came(j, stage, outcome) \/ job' = [job EXCEPT ![j].stage = stage],
             stage = "saving" => job[j].stage = "filling",
             job[j].stage \in Driving \ {"starting"},
             UNCHANGED <<start, jobs, running>>
      PROVE  GoesOn(j)
  <2> DEFINE came == [job[j] EXCEPT !.stage = stage, !.outcome = outcome]
             at == [job[j] EXCEPT !.stage = stage]
  <2>1. /\ came \in JobRows /\ came.stage = stage /\ came.record = job[j].record
        /\ at \in JobRows /\ at.stage = stage /\ at.record = job[j].record
    BY <1>1 DEF JobRows, JobStages
  <2>2. job' = [job EXCEPT ![j] = came] \/ job' = [job EXCEPT ![j] = at]
    BY <1>1, <1>2 DEF Came, JobRows
  <2> HIDE DEF came, at
  <2>3. stage \in Driving \ {"starting"} /\ stage # "filling"
    BY DEF Driving, JobStages
  <2> QED  BY <1>2, <2>1, <2>2, <2>3, OneJobChanges DEF GoesOn
<1>3. ASSUME Over(j), Release(job[j].record), job[j].stage \in Driving \ {"starting"},
             UNCHANGED <<start, jobs>>
      PROVE  IsOver(j)
  <2>1. Ended(j) \in JobRows /\ Ended(j).stage = "over"
    BY <1>1, FreshRows DEF Ended, JobRows, JobStages, NoJob
  <2>2. job' = [job EXCEPT ![j] = Ended(j)]
    BY <1>3 DEF Over
  <2> HIDE DEF Ended
  <2> QED  BY <1>3, <2>1, <2>2, OneJobChanges DEF IsOver
<1>4. {"failed", "blocked", "dry_run_ok", "created"} \subseteq Outcomes
  BY DEF Outcomes
<1>5. {"checking", "filling", "saving", "confirming", "capturing", "writing", "logging",
       "excepting"} \subseteq Driving \ {"starting"}
  BY DEF Driving, JobStages
<1>6. CASE JobChecks(j) /\ job[j].stage = "checking" /\ UNCHANGED <<start, jobs, running>>
  <2>1. CASE \E outcome \in Outcomes : job' = Came(j, "writing", outcome)
    BY <1>2, <1>5, <1>6, <2>1
  <2>2. CASE /\ MayBeFree(HouseOf[job[j].record])
             /\ job' = [job EXCEPT ![j].stage = "filling"]
    <3> DEFINE at == [job[j] EXCEPT !.stage = "filling"]
    <3>1. at \in JobRows /\ at.stage = "filling" /\ at.record = job[j].record
          /\ job' = [job EXCEPT ![j] = at]
      BY <1>1, <2>2 DEF JobRows, JobStages
    <3> HIDE DEF at
    <3> QED  BY <1>5, <1>6, <2>2, <3>1, OneJobChanges DEF GoesOn
  <2> QED  BY <1>4, <1>6, <2>1, <2>2 DEF JobChecks
<1>7. CASE JobFills(j)
  <2>1. \/ \E outcome \in Outcomes : job' = Came(j, "writing", outcome)
        \/ job' = [job EXCEPT ![j].stage = "saving"]
    BY <1>4, <1>7 DEF JobFills
  <2>2. job[j].stage = "filling" /\ UNCHANGED <<start, jobs, running>>
    BY <1>7 DEF JobFills
  <2> QED  BY <1>2, <1>4, <1>5, <2>1, <2>2
<1>8. CASE JobSaves(j)
  <2>1. \/ job' = Came(j, "writing", "failed")
        \/ job' = [job EXCEPT ![j].stage = "confirming"]
        \/ job' = [job EXCEPT ![j].stage = "capturing"]
    BY <1>8 DEF JobSaves
  <2>2. job[j].stage = "saving" /\ UNCHANGED <<start, jobs, running>>
    BY <1>8 DEF JobSaves
  <2> QED  BY <1>2, <1>4, <1>5, <2>1, <2>2
<1>9. CASE JobConfirmed(j) \/ JobCaptures(j)
  <2>1. job' = Came(j, "writing", "failed") \/ job' = Came(j, "writing", "created")
    BY <1>9 DEF JobConfirmed, JobCaptures
  <2>2. job[j].stage \in {"confirming", "capturing"} /\ UNCHANGED <<start, jobs, running>>
    BY <1>9 DEF JobConfirmed, JobCaptures
  <2> QED  BY <1>2, <1>4, <1>5, <2>1, <2>2
<1>10. CASE JobWrites(j)
  <2>1. \/ job' = [job EXCEPT ![j].stage = "logging"]
        \/ job' = [job EXCEPT ![j].stage = "excepting"]
    BY <1>10 DEF JobWrites
  <2>2. job[j].stage = "writing" /\ UNCHANGED <<start, jobs, running>>
    BY <1>10 DEF JobWrites
  <2> QED  BY <1>2, <1>4, <1>5, <2>1, <2>2
<1>11. CASE JobLogs(j)
  <2>1. \/ Over(j) /\ Release(job[j].record)
        \/ job' = [job EXCEPT ![j].stage = "excepting"] /\ running' = running
    BY <1>11 DEF JobLogs
  <2>2. job[j].stage = "logging" /\ UNCHANGED <<start, jobs>>
    BY <1>11 DEF JobLogs
  <2> QED  BY <1>2, <1>3, <1>4, <1>5, <2>1, <2>2
<1>12. CASE JobExcepts(j)
  BY <1>3, <1>5, <1>12 DEF JobExcepts
<1>13. JobChecks(j) => job[j].stage = "checking" /\ UNCHANGED <<start, jobs, running>>
  BY DEF JobChecks
<1> QED  BY <1>6, <1>7, <1>8, <1>9, <1>10, <1>11, <1>12, <1>13 DEF JobSteps

(* Every step is of one of the kinds.                                      *)
LEMMA StepKinds ==
  ASSUME TypeOK, Named, [Next]_vars
  PROVE  \/ \E q \in Starts : \/ Passes(q) \/ Reserves(q) \/ Hands(q)
                             \/ GivesBack(q) \/ LetsGo(q) \/ GivesUp(q) \/ Keeps(q)
         \/ \E j \in Jobs : GoesOn(j) \/ IsOver(j)
         \/ AllGone \/ AllStays
<1>1. CASE \E q \in Starts :
             StartSteps(q) \/ \E r \in Records, dry \in BOOLEAN : StartLoad(q, r, dry)
  BY <1>1, StartKinds
<1>2. CASE \E j \in Jobs : JobSteps(j)
  BY <1>2, JobKinds
<1>3. CASE \/ \E h \in Houses : FiledByHand(h)
           \/ \E i \in Rows, status \in {"Approved", "Rejected"} : Decided(i, status)
           \/ HalfHour \/ UNCHANGED vars
  BY <1>3 DEF FiledByHand, Decided, HalfHour, vars, backend, AllStays
<1>4. CASE Crash
  <2>1. \A q \in Starts :
          start'[q] = IF start[q].stage \in Rest THEN start[q]
                      ELSE [NoStart EXCEPT !.stage = "refused"]
    BY <1>4 DEF Crash
  <2>2. /\ [NoStart EXCEPT !.stage = "refused"] \in StartRows
        /\ [NoStart EXCEPT !.stage = "refused"].stage = "refused"
    BY FreshRows DEF StartRows, NoStart
  <2>3. start' \in [Starts -> StartRows] /\ \A q \in Starts : start'[q].stage \in Rest
    <3>1. start' = [q \in Starts |-> start'[q]]
      BY <1>4 DEF Crash
    <3> DEFINE refused == [NoStart EXCEPT !.stage = "refused"]
    <3>2. /\ refused \in StartRows /\ refused.stage \in Rest
          /\ \A q \in Starts : start[q] \in StartRows
          /\ \A q \in Starts : start'[q] = IF start[q].stage \in Rest THEN start[q] ELSE refused
      BY <2>1, <2>2 DEF TypeOK, Rest
    <3> HIDE DEF refused
    <3>3. \A q \in Starts : start'[q] \in StartRows /\ start'[q].stage \in Rest
      BY <3>2
    <3> QED  BY <3>1, <3>3
  <2>4. \A j \in Jobs : job'[j] = IF job[j].stage = "none" THEN job[j] ELSE Ended(j)
    BY <1>4 DEF Crash
  <2>5. \A j \in Jobs : Ended(j) \in JobRows /\ Ended(j).stage = "over"
    BY FreshRows DEF TypeOK, Ended, JobRows, JobStages, NoJob
  <2>6. /\ job' \in [Jobs -> JobRows]
        /\ \A j \in Jobs : /\ job'[j].stage \in {"none", "over"}
                          /\ (job'[j].stage = "none" => job[j].stage = "none")
                          /\ (job[j].stage = "none" => job'[j].stage = "none")
    <3>1. job' = [j \in Jobs |-> job'[j]]
      BY <1>4 DEF Crash
    <3> HIDE DEF Ended
    <3> QED  BY <2>4, <2>5, <3>1 DEF TypeOK
  <2>7. running' = [records |-> {}, houses |-> {}] /\ jobs' = jobs
    BY <1>4 DEF Crash
  <2> QED  BY <2>3, <2>6, <2>7 DEF AllGone
<1> QED  BY <1>1, <1>2, <1>3, <1>4 DEF Next
-----------------------------------------------------------------------------
(* A house has one driver                                                  *)

(* Who holds a reservation: a request that is about to start its job, or   *)
(* the job.  Their houses are reserved, and are all different; a request   *)
(* that has made its job knows the one.                                    *)
Reserved ==
  /\ \A q \in Starts :
       start[q].stage = "marked" => HouseOf[start[q].record] \in running.houses
  /\ \A j \in Jobs : job[j].stage \in Driving => HouseOf[job[j].record] \in running.houses
Apart ==
  /\ OneDriver
  /\ \A q \in Starts, j \in Jobs :
       start[q].stage = "marked" /\ job[j].stage \in Driving
         => HouseOf[start[q].record] # HouseOf[job[j].record]
  /\ \A p, q \in Starts :
       /\ start[p].stage = "marked" /\ start[q].stage = "marked"
       /\ HouseOf[start[p].record] = HouseOf[start[q].record]
       => p = q
Handed ==
  /\ \A q \in Starts : start[q].stage = "committed" =>
       /\ start[q].job \in Jobs
       /\ job[start[q].job].stage = "starting"
       /\ job[start[q].job].record = start[q].record
  /\ \A p, q \in Starts :
       /\ start[p].stage = "committed" /\ start[q].stage = "committed"
       /\ start[p].job = start[q].job
       => p = q
NotYet == \A j \in Jobs : jobs < j => job[j].stage = "none"

HoldInv == Named /\ Reserved /\ Apart /\ Handed /\ NotYet

(* The stages are what they say they are.                                  *)
LEMMA Stages ==
  /\ "starting" \in Driving /\ "checking" \in Driving
  /\ "none" \notin Driving /\ "over" \notin Driving
  /\ "marked" \notin Rest /\ "committed" \notin Rest
  /\ "loaded" \notin Rest /\ "restoring" \notin Rest
BY DEF Driving, JobStages, Rest

(* No step lets a second driver into a house.                              *)
LEMMA HoldKept ==
  ASSUME TypeOK, HoldInv, [Next]_vars
  PROVE  HoldInv'
<1> USE DEF HoldInv, Named, Reserved, Apart, Handed, NotYet, OneDriver, OneStart, OneJob
<1> USE Stages
<1> HIDE DEF Driving, Rest, StartRows, JobRows
<1>0. /\ \A j \in Jobs : j \in Nat /\ jobs \in Nat
      /\ running.records \subseteq Records
  BY PullAssumption DEF Jobs, TypeOK
<1>1. ASSUME NEW q \in Starts, Passes(q)
      PROVE  HoldInv'
  BY <1>1 DEF Passes
<1>2. ASSUME NEW q \in Starts, Reserves(q)
      PROVE  HoldInv'
  <2>1. /\ HouseOf[start[q].record] \notin running.houses
        /\ running'.houses = running.houses \cup {HouseOf[start[q].record]}
    BY <1>2 DEF Reserves, StartRefused
  <2> QED  BY <1>2, <2>1 DEF Reserves
<1>3. ASSUME NEW q \in Starts, Hands(q)
      PROVE  HoldInv'
  BY <1>0, <1>3 DEF Hands
<1>4. ASSUME NEW q \in Starts, GivesBack(q)
      PROVE  HoldInv'
  <2>1. running'.houses = running.houses \ {HouseOf[start[q].record]}
    BY <1>4 DEF GivesBack, Release
  <2> QED  BY <1>4, <2>1 DEF GivesBack
<1>5. ASSUME NEW q \in Starts, LetsGo(q)
      PROVE  HoldInv'
  BY <1>0, <1>5 DEF LetsGo
<1>6. ASSUME NEW q \in Starts, GivesUp(q)
      PROVE  HoldInv'
  <2>1. running'.houses = running.houses \ {HouseOf[start[q].record]}
    BY <1>6 DEF GivesUp, Release
  <2> QED  BY <1>0, <1>6, <2>1 DEF GivesUp
<1>7. ASSUME NEW j \in Jobs, GoesOn(j)
      PROVE  HoldInv'
  BY <1>0, <1>7 DEF GoesOn
<1>8. ASSUME NEW j \in Jobs, IsOver(j)
      PROVE  HoldInv'
  <2>1. running'.houses = running.houses \ {HouseOf[job[j].record]}
    BY <1>8 DEF IsOver, Release
  <2> QED  BY <1>0, <1>8, <2>1 DEF IsOver
<1>9. CASE AllGone
  BY <1>0, <1>9 DEF AllGone
<1>10. CASE AllStays
  BY <1>10 DEF AllStays
<1>11. ASSUME NEW q \in Starts, Keeps(q)
       PROVE  HoldInv'
  BY <1>0, <1>11 DEF Keeps
<1> QED
  BY <1>1, <1>2, <1>3, <1>4, <1>5, <1>6, <1>7, <1>8, <1>9, <1>10, <1>11, StepKinds
-----------------------------------------------------------------------------
(* The rest of the types                                                   *)

(* A request that is listed, by whomever, is a row of the list.            *)
LEMMA ListedTypes ==
  ASSUME TypeOK, NEW h \in Houses, NEW by \in 0 .. MaxJobs, Listed(h, by)
  PROVE  /\ rows + 1 \in Rows /\ rows' = rows + 1 /\ rows' \in 0 .. MaxRows
         /\ row' \in [Rows -> DmsRows]
         /\ row'[rows + 1] = [house |-> h, by |-> by, status |-> "Pending"]
         /\ \A i \in Rows : i # rows + 1 => row'[i] = row[i]
<1>1. rows + 1 \in Rows /\ rows' = rows + 1 /\ rows' \in 0 .. MaxRows
  BY PullAssumption DEF Listed, TypeOK, Rows
<1>2. [house |-> h, by |-> by, status |-> "Pending"] \in DmsRows
  BY DEF DmsRows
<1>3. row' = [row EXCEPT ![rows + 1] = [house |-> h, by |-> by, status |-> "Pending"]]
  BY <1>1 DEF Listed
<1> HIDE DEF DmsRows
<1> QED  BY <1>1, <1>2, <1>3 DEF TypeOK

(* What is in the database, told of the jobs and listed in the DMS keeps   *)
(* its type, whoever writes it.                                            *)
LEMMA DataTypes ==
  ASSUME TypeOK, Named, [Next]_vars
  PROVE  /\ pull' \in [Records -> PullStates] /\ recent' \in [Records -> BOOLEAN]
         /\ store' \in [Jobs -> Outcomes \cup {"running", "purged"}]
         /\ row' \in [Rows -> DmsRows] /\ rows' \in 0 .. MaxRows
         /\ halfHours' \in 0 .. MaxHalfHours /\ crashes' \in 0 .. MaxCrashes
<1> DEFINE
      Kept == UNCHANGED <<pull, recent, store, row, rows, halfHours, crashes>>
      Told == store' \in [Jobs -> Outcomes \cup {"running", "purged"}]
      Written_ == pull' \in [Records -> PullStates] /\ recent' \in [Records -> BOOLEAN]
<1> USE DEF TypeOK
<1>1. ASSUME NEW q \in Starts,
             StartSteps(q) \/ \E r \in Records, dry \in BOOLEAN : StartLoad(q, r, dry)
      PROVE  Written_ /\ Told /\ UNCHANGED <<row, rows, halfHours, crashes>>
  <2>1. CASE (\E r \in Records, dry \in BOOLEAN : StartLoad(q, r, dry)) \/ StartCheck(q)
             \/ StartCommitFails(q) \/ StartFlushFails(q) \/ StartLog(q)
             \/ StartLogFails(q) \/ StartLogFlushFails(q)
    BY <2>1 DEF StartLoad, StartCheck, StartCommitFails, StartFlushFails, StartLog,
                StartLogFails, StartLogFlushFails, database, dms
  <2>2. CASE StartCommit(q)
    BY <2>2 DEF StartCommit, PullStates, dms
  <2>3. CASE StartRestore(q)
    <3>1. start[q].read \in PullStates
      BY DEF StartRows
    <3> QED  BY <2>3, <3>1 DEF StartRestore, dms
  <2> QED  BY <1>1, <2>1, <2>2, <2>3 DEF StartSteps
<1>2. ASSUME NEW j \in Jobs, JobSteps(j)
      PROVE  /\ Written_ /\ Told /\ UNCHANGED <<halfHours, crashes>>
             /\ row' \in [Rows -> DmsRows] /\ rows' \in 0 .. MaxRows
  <2>0. job[j] \in JobRows /\ job[j].outcome \in Outcomes
    BY DEF JobRows
  <2>1. CASE JobChecks(j) \/ JobFills(j) \/ JobConfirmed(j) \/ JobCaptures(j)
    BY <2>1 DEF JobChecks, JobFills, JobConfirmed, JobCaptures, database, dms
  <2>2. CASE JobSaves(j)
    <3>1. Written_ /\ Told /\ UNCHANGED <<halfHours, crashes>>
      BY <2>2 DEF JobSaves, database
    <3>2. CASE Listed(HouseOf[job[j].record], j)
      <4>1. HouseOf[job[j].record] \in Houses
        BY <2>2, PullAssumption DEF JobSaves, Named, Driving, JobStages
      <4>2. j \in 0 .. MaxJobs
        BY PullAssumption DEF Jobs
      <4>3. row' \in [Rows -> DmsRows] /\ rows' \in 0 .. MaxRows
        BY <3>2, <4>1, <4>2, ListedTypes
      <4> QED  BY <3>1, <4>3
    <3>3. CASE UNCHANGED dms
      BY <3>1, <3>3 DEF dms
    <3> QED  BY <2>2, <3>2, <3>3 DEF JobSaves
  <2>3. CASE JobWrites(j)
    <3>1. Written(j) \in PullStates
      BY <2>0 DEF Written, PullStates, JobRows
    <3> HIDE DEF Written
    <3> QED  BY <2>3, <3>1 DEF JobWrites, dms
  <2>4. CASE JobLogs(j) \/ JobExcepts(j)
    <3>1. /\ Written_ /\ UNCHANGED <<row, rows, halfHours, crashes>>
          /\ \/ store' = store \/ store' = Reported(j, "failed")
             \/ store' = Reported(j, job[j].outcome)
      BY <2>4 DEF JobLogs, JobExcepts, database, dms, PullStates
    <3>2. \A outcome \in Outcomes :
            Reported(j, outcome) \in [Jobs -> Outcomes \cup {"running", "purged"}]
      BY DEF Reported
    <3>3. "failed" \in Outcomes
      BY DEF Outcomes
    <3> HIDE DEF Reported, Outcomes
    <3> QED  BY <2>0, <3>1, <3>2, <3>3
  <2> QED  BY <1>2, <2>1, <2>2, <2>3, <2>4 DEF JobSteps
<1>3. ASSUME NEW h \in Houses, FiledByHand(h)
      PROVE  /\ row' \in [Rows -> DmsRows] /\ rows' \in 0 .. MaxRows
             /\ UNCHANGED <<pull, recent, store, halfHours, crashes>>
  <2>1. 0 \in 0 .. MaxJobs /\ Listed(h, 0)
    BY <1>3, PullAssumption DEF FiledByHand
  <2>2. row' \in [Rows -> DmsRows] /\ rows' \in 0 .. MaxRows
    BY <2>1, ListedTypes
  <2> QED  BY <1>3, <2>2 DEF FiledByHand, database, backend
<1>4. ASSUME NEW i \in Rows, NEW status \in {"Approved", "Rejected"}, Decided(i, status)
      PROVE  row' \in [Rows -> DmsRows]
             /\ UNCHANGED <<pull, recent, store, rows, halfHours, crashes>>
  <2> DEFINE decided == [row[i] EXCEPT !.status = status]
  <2>1. decided \in DmsRows /\ row' = [row EXCEPT ![i] = decided]
    BY <1>4 DEF Decided, DmsRows
  <2> HIDE DEF decided
  <2> QED  BY <1>4, <2>1 DEF Decided, database, backend
<1>5. CASE HalfHour \/ Crash
  <2>1. Told
    <3>1. store' = [j \in Jobs |-> IF store[j] = "none" THEN "none" ELSE "purged"]
      BY <1>5 DEF HalfHour, Crash
    <3>2. "none" \in Outcomes
      BY DEF Outcomes
    <3> QED  BY <3>1, <3>2
  <2>2. halfHours' \in 0 .. MaxHalfHours /\ crashes' \in 0 .. MaxCrashes
    BY <1>5, PullAssumption DEF HalfHour, Crash
  <2>3. pull' = pull /\ row' = row /\ rows' = rows
    BY <1>5 DEF HalfHour, Crash, database, dms
  <2>4. recent' = recent \/ recent' = [r \in Records |-> FALSE]
    BY <1>5 DEF HalfHour, Crash, database
  <2> QED  BY <2>1, <2>2, <2>3, <2>4
<1>6. CASE UNCHANGED vars
  BY <1>6 DEF vars, database, backend, dms
<1> QED  BY <1>1, <1>2, <1>3, <1>4, <1>5, <1>6 DEF Next

(* So the types are kept.                                                  *)
LEMMA TypesKept ==
  ASSUME TypeOK, HoldInv, [Next]_vars
  PROVE  TypeOK'
<1> DEFINE
      Tables == /\ start' \in [Starts -> StartRows] /\ job' \in [Jobs -> JobRows]
                /\ jobs' \in 0 .. MaxJobs
                /\ running' \in [records : SUBSET Records, houses : SUBSET Houses]
<1>0. /\ start \in [Starts -> StartRows] /\ job \in [Jobs -> JobRows] /\ jobs \in 0 .. MaxJobs
      /\ running \in [records : SUBSET Records, houses : SUBSET Houses]
  BY DEF TypeOK
<1>1. ASSUME NEW r, Release(r)
      PROVE  running' \in [records : SUBSET Records, houses : SUBSET Houses]
  BY <1>0, <1>1 DEF Release
<1> HIDE DEF StartRows, JobRows, Release
<1>2. ASSUME NEW q \in Starts, Reserves(q)
      PROVE  running' \in [records : SUBSET Records, houses : SUBSET Houses]
  <2>1. start[q].record \in Records /\ HouseOf[start[q].record] \in Houses
    BY <1>2, PullAssumption DEF Reserves, HoldInv, Named
  <2> QED  BY <1>0, <1>2, <2>1 DEF Reserves
<1>3. ASSUME NEW q \in Starts, Passes(q) \/ Reserves(q) \/ GivesBack(q)
      PROVE  Tables
  BY <1>0, <1>1, <1>2, <1>3 DEF Passes, Reserves, GivesBack, OneStart
<1>4. ASSUME NEW q \in Starts, Hands(q) \/ LetsGo(q) \/ GivesUp(q) \/ Keeps(q)
      PROVE  Tables
  <2>1. start[q].stage = "committed" => start[q].job \in Jobs
    BY DEF HoldInv, Handed
  <2>2. jobs + 1 \in Jobs => jobs + 1 \in 0 .. MaxJobs
    BY <1>0, PullAssumption DEF Jobs
  <2> QED  BY <1>0, <1>1, <1>4, <2>1, <2>2
    DEF Hands, LetsGo, GivesUp, Keeps, OneStart, OneJob
<1>5. ASSUME NEW j \in Jobs, GoesOn(j) \/ IsOver(j)
      PROVE  Tables
  BY <1>0, <1>1, <1>5 DEF GoesOn, IsOver, OneJob
<1>6. ASSUME AllGone
      PROVE  Tables
  <2>1. [records |-> {}, houses |-> {}] \in [records : SUBSET Records, houses : SUBSET Houses]
    OBVIOUS
  <2> QED  BY <1>0, <1>6, <2>1 DEF AllGone
<1>7. ASSUME AllStays
      PROVE  Tables
  BY <1>0, <1>7 DEF AllStays
<1> HIDE DEF Tables
<1>8. Tables
  BY <1>3, <1>4, <1>5, <1>6, <1>7, StepKinds DEF HoldInv
<1>9. Named
  BY DEF HoldInv
<1> QED  BY <1>8, <1>9, DataTypes DEF TypeOK, Tables

-----------------------------------------------------------------------------
(* A house has one undecided request                                       *)

Undecided(i) == row[i].by # 0 /\ row[i].status = "Pending"

(* While a job fills the form, or is about to save it, its house has no    *)
(* undecided request of this system.                                       *)
ListEnds == \A i \in Rows : rows < i => row[i].by = 0
NoneAtSave ==
  \A j \in Jobs : job[j].stage \in {"filling", "saving"} =>
    \A i \in Rows : Undecided(i) => row[i].house # HouseOf[job[j].record]

PendingInv == ListEnds /\ NoneAtSave /\ OnePending

(* What a step does to the list *)
Files(j) ==
  /\ job[j].stage = "saving" /\ job'[j].stage \notin {"filling", "saving"}
  /\ Listed(HouseOf[job[j].record], j)
  /\ \A k \in Jobs : k # j => job'[k] = job[k]
Lists == \E h \in Houses : Listed(h, 0) /\ job' = job
Decides == \E i \in Rows :
  /\ row'[i].status # "Pending" /\ rows' = rows /\ job' = job
  /\ row'[i].by = row[i].by
  /\ \A k \in Rows : k # i => row'[k] = row[k]

(* Every step does one of these, or leaves the list alone.                 *)
LEMMA ListKinds ==
  ASSUME TypeOK, Named, [Next]_vars
  PROVE  (\E j \in Jobs : Files(j)) \/ Lists \/ Decides \/ UNCHANGED dms
<1>1. ASSUME NEW q \in Starts,
             StartSteps(q) \/ \E r \in Records, dry \in BOOLEAN : StartLoad(q, r, dry)
      PROVE  UNCHANGED dms
  BY <1>1 DEF StartSteps, StartLoad, StartCheck, StartCommit, StartCommitFails, StartLog,
              StartFlushFails, StartLogFlushFails, StartLogFails, StartRestore
<1>2. ASSUME NEW j \in Jobs, JobSteps(j)
      PROVE  Files(j) \/ UNCHANGED dms
  <2>1. CASE JobSaves(j)
    <3>1. CASE Listed(HouseOf[job[j].record], j)
      <4>1. /\ job[j].stage = "saving"
            /\ \/ job' = Came(j, "writing", "failed")
               \/ job' = [job EXCEPT ![j].stage = "confirming"]
               \/ job' = [job EXCEPT ![j].stage = "capturing"]
        BY <2>1 DEF JobSaves
      <4>2. job \in [Jobs -> JobRows] /\ job[j] \in JobRows
        BY DEF TypeOK
      <4>3. job'[j].stage \notin {"filling", "saving"}
        BY <4>1, <4>2 DEF Came, JobRows
      <4>4. \A k \in Jobs : k # j => job'[k] = job[k]
        BY <4>1, <4>2 DEF Came
      <4> QED  BY <3>1, <4>1, <4>3, <4>4 DEF Files
    <3> QED  BY <2>1, <3>1 DEF JobSaves
  <2>2. CASE \/ JobChecks(j) \/ JobFills(j) \/ JobConfirmed(j) \/ JobCaptures(j)
             \/ JobWrites(j) \/ JobLogs(j) \/ JobExcepts(j)
    BY <2>2 DEF JobChecks, JobFills, JobConfirmed, JobCaptures, JobWrites, JobLogs, JobExcepts
  <2> QED  BY <1>2, <2>1, <2>2 DEF JobSteps
<1>3. ASSUME NEW h \in Houses, FiledByHand(h)
      PROVE  Lists
  BY <1>3 DEF FiledByHand, Lists, backend
<1>4. ASSUME NEW i \in Rows, NEW status \in {"Approved", "Rejected"}, Decided(i, status)
      PROVE  Decides
  <2>1. row[i] \in DmsRows /\ row \in [Rows -> DmsRows]
    BY DEF TypeOK
  <2>2. row'[i].status # "Pending" /\ row'[i].by = row[i].by
    BY <1>4, <2>1 DEF Decided, DmsRows
  <2>3. rows' = rows /\ job' = job /\ \A k \in Rows : k # i => row'[k] = row[k]
    BY <1>4, <2>1 DEF Decided, backend
  <2> QED  BY <2>2, <2>3 DEF Decides
<1>5. CASE HalfHour \/ Crash \/ UNCHANGED vars
  BY <1>5 DEF HalfHour, Crash, vars
<1> QED  BY <1>1, <1>2, <1>3, <1>4, <1>5 DEF Next

(* A job at the form was there before, or has just seen a list without     *)
(* anything pending.                                                       *)
LEMMA FillsAfterCheck ==
  ASSUME TypeOK, HoldInv, [Next]_vars, NEW j \in Jobs, job'[j].stage \in {"filling", "saving"}
  PROVE  /\ job[j].stage \in Driving /\ job'[j].record = job[j].record
         /\ \/ job[j].stage \in {"filling", "saving"}
            \/ MayBeFree(HouseOf[job[j].record])
<1> USE DEF HoldInv, Handed, OneJob
<1>1. {"filling", "saving"} \subseteq Driving
  BY DEF Driving, JobStages
<1> HIDE DEF Driving, JobRows, StartRows
<1>2. ASSUME NEW q \in Starts,
             \/ Passes(q) \/ Reserves(q) \/ Hands(q)
             \/ GivesBack(q) \/ LetsGo(q) \/ GivesUp(q) \/ Keeps(q)
      PROVE  job'[j] = job[j]
  BY <1>2 DEF Passes, Reserves, Hands, GivesBack, LetsGo, GivesUp, Keeps
<1>3. ASSUME NEW k \in Jobs, GoesOn(k) \/ IsOver(k), k # j
      PROVE  job'[j] = job[j]
  BY <1>3 DEF GoesOn, IsOver
<1>4. ASSUME GoesOn(j)
      PROVE  /\ job[j].stage \in Driving /\ job'[j].record = job[j].record
             /\ \/ job[j].stage = "filling"
                \/ MayBeFree(HouseOf[job[j].record])
  BY <1>4 DEF GoesOn
<1>5. ~IsOver(j)
  BY DEF IsOver
<1>6. ~AllGone
  BY DEF AllGone
<1>7. AllStays => job'[j] = job[j]
  BY DEF AllStays
<1> QED  BY <1>1, <1>2, <1>3, <1>4, <1>5, <1>6, <1>7, StepKinds

(* Without error pages, a list that reads as free has nothing undecided.   *)
LEMMA NothingPending ==
  ASSUME ~ErrorPages, TypeOK, ListEnds, NEW h, MayBeFree(h), NEW i \in Rows, Undecided(i)
  PROVE  row[i].house # h
BY PullAssumption DEF TypeOK, ListEnds, MayBeFree, Evaluated, Undecided, RowsOf, Rows

(* No step lets a second undecided request into a house.                   *)
LEMMA PendingKept ==
  ASSUME ~ErrorPages, TypeOK, HoldInv, PendingInv, [Next]_vars
  PROVE  PendingInv'
<1> USE DEF PendingInv, ListEnds, NoneAtSave, OnePending
<1>0. \A j \in Jobs : job'[j].stage \in {"filling", "saving"} =>
        /\ job[j].stage \in Driving /\ job'[j].record = job[j].record
        /\ \A i \in Rows : Undecided(i) => row[i].house # HouseOf[job[j].record]
  BY FillsAfterCheck, NothingPending
<1>1. ASSUME NEW j \in Jobs, Files(j)
      PROVE  PendingInv'
  <2>1. /\ HouseOf[job[j].record] \in Houses /\ j \in 0 .. MaxJobs
        /\ job[j].stage \in Driving
    BY <1>1, PullAssumption DEF Files, HoldInv, Named, Driving, JobStages, Jobs
  <2>2. /\ rows' = rows + 1 /\ rows + 1 \in Rows
        /\ row'[rows + 1] = [house |-> HouseOf[job[j].record], by |-> j, status |-> "Pending"]
        /\ \A i \in Rows : i # rows + 1 => row'[i] = row[i]
    BY <1>1, <2>1, ListedTypes DEF Files
  <2>3. \A i \in Rows : Undecided(i) => row[i].house # HouseOf[job[j].record]
    BY <1>1 DEF Files
  <2>4. \A k \in Jobs : job'[k].stage \in {"filling", "saving"} =>
          HouseOf[job[k].record] # HouseOf[job[j].record]
    BY <1>0, <1>1, <2>1 DEF Files, HoldInv, Apart, OneDriver
  <2>5. rows \in Nat /\ \A i \in Rows : i \in Nat
    BY PullAssumption DEF TypeOK, Rows
  <2>6. ListEnds'
    BY <2>2, <2>5
  <2>7. OnePending'
    BY <2>2, <2>3 DEF Undecided
  <2>8. NoneAtSave'
    BY <1>0, <2>2, <2>4 DEF Undecided
  <2> QED  BY <2>6, <2>7, <2>8
<1>2. CASE Lists
  <2>1. PICK h \in Houses : Listed(h, 0) /\ job' = job
    BY <1>2 DEF Lists
  <2>2. /\ rows' = rows + 1 /\ rows + 1 \in Rows /\ row'[rows + 1].by = 0
        /\ \A i \in Rows : i # rows + 1 => row'[i] = row[i]
    <3>1. 0 \in 0 .. MaxJobs
      BY PullAssumption
    <3>2. row'[rows + 1] = [house |-> h, by |-> 0, status |-> "Pending"]
      BY <2>1, <3>1, ListedTypes
    <3> QED  BY <2>1, <3>1, <3>2, ListedTypes
  <2>3. rows \in Nat /\ \A i \in Rows : i \in Nat
    BY PullAssumption DEF TypeOK, Rows
  <2> QED  BY <1>0, <2>1, <2>2, <2>3 DEF Undecided
<1>3. CASE Decides
  BY <1>0, <1>3 DEF Decides, Undecided
<1>4. CASE UNCHANGED dms
  BY <1>0, <1>4 DEF dms, Undecided
<1>5. Named
  BY DEF HoldInv
<1> QED  BY <1>1, <1>2, <1>3, <1>4, <1>5, ListKinds

-----------------------------------------------------------------------------
(* The theorems, of the backend with its windows                           *)

(* The values of what a window shows *)
WindowRows ==
  [target : Records \cup {0}, phase : {"confirm", "running", "result"}, starting : BOOLEAN,
   result : 0 .. MaxJobs]
WindowOK ==
  /\ modal \in WindowRows
  /\ poll \in [Starts -> {"none", "posted", "asking", "asleep", "over"}]
  /\ cancelled \in BOOLEAN

(* A window's steps are steps of the backend, or leave it alone.           *)
LEMMA WindowSteps ==
  ASSUME WindowOK, [ModalNext]_<<vars, modalVars>>
  PROVE  [Next]_vars
<1>1. ASSUME NEW q \in Starts, NEW dry \in BOOLEAN, ModalStarts(q, dry)
      PROVE  Next
  <2>1. modal.target \in Records /\ StartLoad(q, modal.target, dry)
    BY <1>1 DEF ModalStarts, WindowOK, WindowRows
  <2> QED  BY <2>1 DEF Next
<1>2. CASE \/ Next \/ (\E r \in Records : ModalOpens(r)) \/ ModalCloses \/ ModalRechecks
           \/ UNCHANGED <<vars, modalVars>>
  BY <1>2 DEF ModalOpens, ModalCloses, ModalRechecks, pullVars
<1>3. ASSUME NEW q \in Starts,
             \/ ModalStarted(q) \/ ModalRefused(q) \/ PollAnswered(q) \/ PollFails(q)
             \/ PollWakes(q)
      PROVE  UNCHANGED vars
  BY <1>3 DEF ModalStarted, ModalRefused, PollAnswered, PollFails, PollWakes, pullVars
<1> QED  BY <1>1, <1>2, <1>3 DEF ModalNext

(* What a window shows keeps its type.                                     *)
LEMMA WindowKept ==
  ASSUME TypeOK, WindowOK, [ModalNext]_<<vars, modalVars>>
  PROVE  WindowOK'
<1> DEFINE Loops == [Starts -> {"none", "posted", "asking", "asleep", "over"}]
<1>0. modal \in WindowRows /\ poll \in Loops /\ cancelled \in BOOLEAN
  BY DEF WindowOK
<1>1. ASSUME NEW phase \in {"confirm", "running", "result"}, NEW result \in 0 .. MaxJobs,
             Shows(phase, result)
      PROVE  modal' \in WindowRows /\ cancelled' \in BOOLEAN
  <2>1. modal' \in WindowRows
    BY <1>0, <1>1 DEF Shows, WindowRows
  <2>2. cancelled' \in BOOLEAN
    BY <1>1 DEF Shows
  <2> QED  BY <2>1, <2>2
<1>2. modal.result \in 0 .. MaxJobs /\ 0 \in 0 .. MaxJobs
      /\ \A q \in Starts : start[q].job \in 0 .. MaxJobs
  BY <1>0, PullAssumption DEF WindowRows, TypeOK, StartRows
<1>3. CASE \E r \in Records : ModalOpens(r)
  <2>1. modal' \in WindowRows /\ poll' = poll
    BY <1>2, <1>3 DEF ModalOpens, WindowRows, Closed
  <2>2. cancelled' \in BOOLEAN
    BY <1>3 DEF ModalOpens
  <2> QED  BY <1>0, <2>1, <2>2 DEF WindowOK
<1>4. CASE ModalCloses
  BY <1>0, <1>4 DEF ModalCloses, WindowOK, WindowRows
<1>5. CASE ModalRechecks
  BY <1>0, <1>1, <1>2, <1>5 DEF ModalRechecks, WindowOK
<1>6. ASSUME NEW q \in Starts, NEW dry \in BOOLEAN, ModalStarts(q, dry)
      PROVE  WindowOK'
  BY <1>0, <1>6 DEF ModalStarts, WindowOK, WindowRows
<1>7. ASSUME NEW q \in Starts, ModalStarted(q) \/ ModalRefused(q)
      PROVE  WindowOK'
  BY <1>0, <1>2, <1>7 DEF ModalStarted, ModalRefused, WindowOK, WindowRows
<1>8. ASSUME NEW q \in Starts, PollAnswered(q) \/ PollFails(q)
      PROVE  WindowOK'
  <2>1. poll' \in Loops
    BY <1>0, <1>8 DEF PollAnswered, PollFails
  <2>2. \/ UNCHANGED <<modal, cancelled>>
        \/ Shows("confirm", modal.result)
        \/ \E result \in 0 .. MaxJobs : Shows("result", result)
    BY <1>2, <1>8 DEF PollAnswered, PollFails
  <2> HIDE DEF Shows
  <2> QED  BY <1>0, <1>1, <1>2, <2>1, <2>2 DEF WindowOK
<1>9. ASSUME NEW q \in Starts, PollWakes(q)
      PROVE  WindowOK'
  BY <1>0, <1>9 DEF PollWakes, WindowOK
<1>10. CASE UNCHANGED modalVars
  BY <1>0, <1>10 DEF modalVars, WindowOK
<1> QED  BY <1>3, <1>4, <1>5, <1>6, <1>7, <1>8, <1>9, <1>10 DEF ModalNext

PullInv == TypeOK /\ WindowOK /\ HoldInv /\ (~ErrorPages => PendingInv)

(* It all holds to begin with.                                             *)
LEMMA PullStarts == ModalInit => PullInv
<1> SUFFICES ASSUME ModalInit
             PROVE  PullInv
  OBVIOUS
<1>1. TypeOK
  <2>1. /\ \A q \in Starts : start[q] = NoStart
        /\ \A j \in Jobs : job[j] = NoJob
        /\ \A i \in Rows : row[i] = NoRow
        /\ start = [q \in Starts |-> NoStart] /\ job = [j \in Jobs |-> NoJob]
        /\ row = [i \in Rows |-> NoRow]
    BY DEF ModalInit, Init
  <2>2. start \in [Starts -> StartRows] /\ job \in [Jobs -> JobRows] /\ row \in [Rows -> DmsRows]
    <3> HIDE DEF NoStart, NoJob, NoRow, StartRows, JobRows, DmsRows
    <3> QED  BY <2>1, FreshRows
  <2>3. /\ pull \in [Records -> PullStates] /\ recent \in [Records -> BOOLEAN]
        /\ store \in [Jobs -> Outcomes \cup {"running", "purged"}]
        /\ running \in [records : SUBSET Records, houses : SUBSET Houses]
    BY DEF ModalInit, Init, PullStates, Outcomes
  <2>4. /\ jobs \in 0 .. MaxJobs /\ rows \in 0 .. MaxRows
        /\ halfHours \in 0 .. MaxHalfHours /\ crashes \in 0 .. MaxCrashes
    BY PullAssumption DEF ModalInit, Init
  <2> HIDE DEF StartRows, JobRows, DmsRows
  <2> QED  BY <2>2, <2>3, <2>4 DEF TypeOK
<1>2. WindowOK
  <2>1. 0 \in 0 .. MaxJobs
    BY PullAssumption
  <2>2. Closed \in WindowRows
    BY <2>1 DEF Closed, WindowRows
  <2> QED  BY <2>2 DEF ModalInit, WindowOK
<1>3. /\ \A q \in Starts : start[q].stage = "new"
      /\ \A j \in Jobs : job[j].stage = "none"
      /\ \A i \in Rows : row[i].by = 0
  BY DEF ModalInit, Init, NoStart, NoJob, NoRow
<1>4. HoldInv
  BY <1>3 DEF HoldInv, Named, Reserved, Apart, OneDriver, Handed, NotYet, Driving
<1>5. PendingInv
  BY <1>3 DEF PendingInv, ListEnds, NoneAtSave, OnePending, Undecided
<1> QED  BY <1>1, <1>2, <1>4, <1>5 DEF PullInv

(* Every step of the backend or of the window keeps it.                    *)
LEMMA PullKept == PullInv /\ [ModalNext]_<<vars, modalVars>> => PullInv'
BY WindowSteps, WindowKept, TypesKept, HoldKept, PendingKept DEF PullInv, HoldInv

(* Types, of the backend's and the window's state *)
THEOREM PullTypes == ModalSpec => []ModalTypeOK
<1>1. PullInv => ModalTypeOK
  BY DEF PullInv, WindowOK, WindowRows, ModalTypeOK
<1> QED  BY <1>1, PullStarts, PullKept, PTL DEF ModalSpec

(* No two tasks drive the DMS session of one house at the same time.       *)
THEOREM HousesHaveOneDriver == ModalSpec => []OneDriver
<1>1. PullInv => OneDriver
  BY DEF PullInv, HoldInv, Apart
<1> QED  BY <1>1, PullStarts, PullKept, PTL DEF ModalSpec

(* As long as the DMS does not answer with error pages, no house has two   *)
(* undecided requests that this system filed.                              *)
THEOREM HousesHaveOnePending ==
  ASSUME ~ErrorPages
  PROVE  ModalSpec => []OnePending
<1>1. PullInv => OnePending
  BY DEF PullInv, PendingInv
<1> QED  BY <1>1, PullStarts, PullKept, PTL DEF ModalSpec

-----------------------------------------------------------------------------
(* What can become of a request, of a job and of a record                  *)

(* The stages of a request and of a job, and who may leave them *)
SameRequest(q) == start'[q].record = start[q].record /\ start'[q].read = start[q].read
RequestMoves(q) ==
  \/ start'[q] = start[q]
  \/ start[q].stage \notin Rest /\ start'[q].stage \in {"refused", "held", "started"}
  \/ /\ start[q].stage = "new" /\ start'[q].stage = "loaded" /\ start'[q].record \in Records
     /\ start'[q].read = pull[start'[q].record] /\ pull' = pull
  \/ start[q].stage = "loaded" /\ ~StartRefused(q) /\ start'[q].stage = "marked" /\ SameRequest(q)
  \/ start[q].stage = "marked" /\ start'[q].stage = "committed" /\ SameRequest(q)
  \/ start[q].stage = "committed" /\ start'[q].stage = "restoring" /\ SameRequest(q)
  \/ /\ start[q].stage = "restoring" /\ start'[q].stage = "restored"
     /\ start'[q].record = start[q].record

(* Only the stages matter of a request whose row is another.               *)
LEMMA RequestsMove ==
  ASSUME TypeOK, [Next]_vars, NEW q \in Starts
  PROVE  RequestMoves(q)
<1>0. start \in [Starts -> StartRows] /\ start[q] \in StartRows
  BY DEF TypeOK
<1>1. ASSUME NEW r \in Records, NEW dry \in BOOLEAN, StartLoad(q, r, dry)
      PROVE  RequestMoves(q)
  <2> DEFINE new == [start[q] EXCEPT !.stage = "loaded", !.record = r, !.dry = dry,
                                     !.read = pull[r], !.recent = recent[r]]
  <2>1. start'[q] = new /\ pull' = pull /\ start[q].stage = "new"
    BY <1>0, <1>1 DEF StartLoad, database
  <2>2. new.stage = "loaded" /\ new.record = r /\ new.read = pull[r]
    BY <1>0 DEF StartRows
  <2> HIDE DEF new
  <2> QED  BY <2>1, <2>2 DEF RequestMoves
<1>2. ASSUME NEW stage \in {"refused", "restored", "held", "started"}, Answered(q, stage)
      PROVE  /\ start'[q].stage = stage
             /\ stage = "restored" => start'[q].record = start[q].record
  BY <1>0, <1>2 DEF Answered, NoStart
<1>3. ASSUME NEW stage \in {"marked", "restoring"}, start' = [start EXCEPT ![q].stage = stage]
      PROVE  start'[q].stage = stage /\ SameRequest(q)
  BY <1>0, <1>3 DEF SameRequest, StartRows
<1>4. CASE StartCheck(q)
  <2>1. CASE StartRefused(q)
    BY <1>2, <1>4, <2>1, Stages DEF StartCheck, RequestMoves
  <2>2. CASE ~StartRefused(q)
    BY <1>3, <1>4, <2>2 DEF StartCheck, RequestMoves
  <2> QED  BY <2>1, <2>2
<1>5. CASE StartCommit(q)
  <2>1. /\ start'[q].stage = "committed" /\ SameRequest(q) /\ start[q].stage = "marked"
    BY <1>0, <1>5 DEF StartCommit, SameRequest, StartRows
  <2> QED  BY <2>1 DEF RequestMoves
<1>6. CASE StartCommitFails(q) \/ StartFlushFails(q) \/ StartLog(q) \/ StartLogFlushFails(q)
  BY <1>2, <1>6, Stages
     DEF StartCommitFails, StartFlushFails, StartLog, StartLogFlushFails, RequestMoves
<1>7. CASE StartLogFails(q)
  BY <1>3, <1>7 DEF StartLogFails, RequestMoves
<1>8. CASE StartRestore(q)
  BY <1>2, <1>8 DEF StartRestore, RequestMoves
<1>9. ASSUME NEW p \in Starts \ {q},
             StartSteps(p) \/ \E r \in Records, dry \in BOOLEAN : StartLoad(p, r, dry)
      PROVE  start'[q] = start[q]
  BY <1>0, <1>9 DEF StartSteps, StartLoad, StartCheck, StartCommit, StartCommitFails, StartLog,
                    StartFlushFails, StartLogFails, StartLogFlushFails, StartRestore, Answered
<1>10. ASSUME NEW j \in Jobs, JobSteps(j)
       PROVE  start' = start
  BY <1>10 DEF JobSteps, JobChecks, JobFills, JobSaves, JobConfirmed, JobCaptures, JobWrites,
               JobLogs, JobExcepts
<1>11. CASE Crash
  BY <1>0, <1>11 DEF Crash, NoStart, RequestMoves
<1>12. CASE \/ \E h \in Houses : FiledByHand(h)
            \/ \E i \in Rows, status \in {"Approved", "Rejected"} : Decided(i, status)
            \/ HalfHour \/ UNCHANGED vars
  BY <1>12 DEF FiledByHand, Decided, HalfHour, vars, backend, RequestMoves
<1>13. ASSUME StartSteps(q) PROVE RequestMoves(q)
  BY <1>4, <1>5, <1>6, <1>7, <1>8, <1>13 DEF StartSteps
<1>14. start' = start => RequestMoves(q)
  BY DEF RequestMoves
<1> HIDE DEF StartSteps, StartLoad, JobSteps
<1>15. CASE \E p \in Starts :
              StartSteps(p) \/ \E r \in Records, dry \in BOOLEAN : StartLoad(p, r, dry)
  BY <1>1, <1>9, <1>13, <1>15 DEF RequestMoves
<1> QED  BY <1>10, <1>11, <1>12, <1>14, <1>15 DEF Next

SameJob(j) ==
  job'[j].record = job[j].record /\ job'[j].previous = job[j].previous
JobMoves(j) ==
  \/ job'[j] = job[j]
  \/ /\ job[j].stage = "none" /\ job'[j].stage = "starting"
     /\ \E q \in Starts : /\ start[q].stage = "marked" /\ start[q].record = job'[j].record
                          /\ start[q].read = job'[j].previous
     /\ pull' = [pull EXCEPT ![job'[j].record] = "running"]
  \/ job[j].stage # "none" /\ job'[j].stage = "over" /\ job'[j].record = job[j].record
  \/ job[j].stage = "starting" /\ job'[j].stage = "checking" /\ SameJob(j)
  \/ /\ job[j].stage = "checking" /\ job'[j].stage \in {"filling", "writing"} /\ SameJob(j)
     /\ Unloaded /\ (job'[j].stage = "writing" => job'[j].outcome # "dry_run_ok")
  \/ /\ job[j].stage = "filling" /\ job'[j].stage \in {"saving", "writing"} /\ SameJob(j)
     /\ row' = row
  \/ /\ job[j].stage \in {"saving", "confirming", "capturing"} /\ SameJob(j)
     /\ job'[j].stage \in {"confirming", "capturing", "writing"}
     /\ job'[j].stage = "writing" => job'[j].outcome # "dry_run_ok"
  \/ /\ job[j].stage = "writing" /\ job'[j].stage = "logging" /\ SameJob(j)
     /\ pull' = [pull EXCEPT ![job[j].record] = Written(j)] /\ job'[j].outcome = job[j].outcome
  \/ job[j].stage \in {"writing", "logging"} /\ job'[j].stage = "excepting" /\ SameJob(j)

(* So the jobs move.                                                       *)
LEMMA JobsMove ==
  ASSUME TypeOK, HoldInv, [Next]_vars, NEW j \in Jobs
  PROVE  JobMoves(j)
<1>0. job \in [Jobs -> JobRows] /\ job[j] \in JobRows
  BY DEF TypeOK
<1>1. ASSUME NEW stage, job' = [job EXCEPT ![j].stage = stage]
      PROVE  job'[j].stage = stage /\ SameJob(j) /\ job'[j].outcome = job[j].outcome
  BY <1>0, <1>1 DEF SameJob, JobRows
<1>2. ASSUME NEW stage, NEW outcome, job' = Came(j, stage, outcome)
      PROVE  job'[j].stage = stage /\ SameJob(j) /\ job'[j].outcome = outcome
  BY <1>0, <1>2 DEF Came, SameJob, JobRows
<1>3. ASSUME Over(j)
      PROVE  job'[j].stage = "over" /\ job'[j].record = job[j].record
  BY <1>0, <1>3 DEF Over, Ended, NoJob
<1>4. CASE JobChecks(j)
  <2>1. \/ job' = Came(j, "writing", "failed") \/ job' = Came(j, "writing", "blocked")
        \/ job' = [job EXCEPT ![j].stage = "filling"]
    BY <1>4 DEF JobChecks
  <2> QED  BY <1>1, <1>2, <1>4, <2>1 DEF JobChecks, JobMoves
<1>5. CASE JobFills(j)
  BY <1>1, <1>2, <1>5 DEF JobFills, JobMoves, dms
<1>6. CASE JobSaves(j)
  BY <1>1, <1>2, <1>6 DEF JobSaves, JobMoves
<1>7. CASE JobConfirmed(j) \/ JobCaptures(j)
  BY <1>2, <1>7 DEF JobConfirmed, JobCaptures, JobMoves
<1>8. CASE JobWrites(j)
  BY <1>1, <1>8 DEF JobWrites, JobMoves
<1>9. CASE JobLogs(j) \/ JobExcepts(j)
  BY <1>1, <1>3, <1>9 DEF JobLogs, JobExcepts, JobMoves
<1>10. ASSUME JobSteps(j) PROVE JobMoves(j)
  BY <1>4, <1>5, <1>6, <1>7, <1>8, <1>9, <1>10 DEF JobSteps
<1>11. ASSUME NEW k \in Jobs \ {j}, JobSteps(k)
       PROVE  job'[j] = job[j]
  BY <1>0, <1>11 DEF JobSteps, JobChecks, JobFills, JobSaves, JobConfirmed, JobCaptures,
                     JobWrites, JobLogs, JobExcepts, Came, Over
<1>12. ASSUME NEW q \in Starts,
              StartSteps(q) \/ \E r \in Records, dry \in BOOLEAN : StartLoad(q, r, dry)
       PROVE  JobMoves(j)
  <2>1. CASE \/ StartCheck(q) \/ StartCommitFails(q) \/ StartFlushFails(q) \/ StartRestore(q)
             \/ \E r \in Records, dry \in BOOLEAN : StartLoad(q, r, dry)
    BY <2>1 DEF StartCheck, StartCommitFails, StartFlushFails, StartRestore, StartLoad, JobMoves
  <2>2. CASE StartCommit(q)
    <3> DEFINE born == [NoJob EXCEPT !.stage = "starting", !.dry = start[q].dry,
                          !.record = start[q].record, !.previous = start[q].read]
    <3>1. jobs' = jobs + 1 /\ job' = [job EXCEPT ![jobs + 1] = born]
          /\ start[q].stage = "marked" /\ pull' = [pull EXCEPT ![start[q].record] = "running"]
      BY <2>2 DEF StartCommit
    <3>2. born.stage = "starting" /\ born.record = start[q].record /\ born.previous = start[q].read
      BY DEF NoJob
    <3>3. jobs < jobs + 1
      BY PullAssumption DEF TypeOK
    <3> HIDE DEF born
    <3>4. CASE j = jobs + 1
      <4>1. job'[j] = born /\ job[j].stage = "none"
        BY <1>0, <3>1, <3>3, <3>4 DEF HoldInv, NotYet
      <4> QED  BY <3>1, <3>2, <4>1 DEF JobMoves
    <3>5. CASE j # jobs + 1
      BY <1>0, <3>1, <3>5 DEF JobMoves
    <3> QED  BY <3>4, <3>5
  <2>3. CASE StartLog(q) \/ StartLogFails(q) \/ StartLogFlushFails(q)
    <3>1. start[q].stage = "committed"
      BY <2>3 DEF StartLog, StartLogFails, StartLogFlushFails
    <3>2. PICK k \in Jobs : k = start[q].job /\ job[k].stage = "starting"
      BY <3>1 DEF HoldInv, Handed
    <3>3. job' = [job EXCEPT ![k].stage = "checking"] \/ Over(k)
      BY <2>3, <3>2 DEF StartLog, StartLogFails, StartLogFlushFails
    <3>4. CASE j = k
      BY <1>1, <1>3, <3>2, <3>3, <3>4 DEF JobMoves
    <3>5. CASE j # k
      BY <1>0, <3>3, <3>5 DEF Over, JobMoves
    <3> QED  BY <3>4, <3>5
  <2> QED  BY <1>12, <2>1, <2>2, <2>3 DEF StartSteps
<1>13. CASE Crash
  <2>1. job'[j] = IF job[j].stage = "none" THEN job[j] ELSE Ended(j)
    BY <1>13 DEF Crash
  <2>2. Ended(j).stage = "over" /\ Ended(j).record = job[j].record
    BY DEF Ended, NoJob
  <2> HIDE DEF Ended
  <2> QED  BY <2>1, <2>2 DEF JobMoves
<1>14. CASE \/ \E h \in Houses : FiledByHand(h)
            \/ \E i \in Rows, status \in {"Approved", "Rejected"} : Decided(i, status)
            \/ HalfHour \/ UNCHANGED vars
  BY <1>14 DEF FiledByHand, Decided, HalfHour, vars, backend, JobMoves
<1>15. CASE \E k \in Jobs : JobSteps(k)
  BY <1>10, <1>11, <1>15 DEF JobMoves
<1> QED  BY <1>12, <1>13, <1>14, <1>15 DEF Next

RecordMoves(r) ==
  \/ pull'[r] = pull[r]
  \/ /\ pull'[r] = "running"
     /\ \E q \in Starts : start[q].stage = "marked" /\ start[q].record = r
  \/ \E q \in Starts :
       /\ start[q].stage = "restoring" /\ start[q].record = r /\ pull'[r] = start[q].read
       /\ start'[q].stage = "restored" /\ start'[q].record = r
  \/ \E j \in Jobs :
       /\ job[j].stage = "writing" /\ job[j].record = r /\ Unloaded
       /\ job'[j].stage = "logging" /\ pull'[r] = Written(j) /\ UNCHANGED <<start, row>>
  \/ \E j \in Jobs : job[j].stage = "excepting" /\ job[j].record = r /\ pull'[r] = "failed"

(* These are the ways in which a record's status is written.               *)
LEMMA RecordsMove ==
  ASSUME TypeOK, HoldInv, [Next]_vars, NEW r \in Records
  PROVE  RecordMoves(r)
<1>0. pull \in [Records -> PullStates] /\ start \in [Starts -> StartRows]
      /\ job \in [Jobs -> JobRows]
  BY DEF TypeOK
<1>1. pull' = pull => RecordMoves(r)
  BY DEF RecordMoves
<1>2. ASSUME NEW q \in Starts,
             StartSteps(q) \/ \E s \in Records, dry \in BOOLEAN : StartLoad(q, s, dry)
      PROVE  RecordMoves(r)
  <2>1. CASE \/ StartCheck(q) \/ StartCommitFails(q) \/ StartFlushFails(q)
             \/ StartLog(q) \/ StartLogFails(q) \/ StartLogFlushFails(q)
             \/ \E s \in Records, dry \in BOOLEAN : StartLoad(q, s, dry)
    BY <1>1, <2>1 DEF StartCheck, StartCommitFails, StartFlushFails, StartLog, StartLogFails,
                      StartLogFlushFails, StartLoad, database
  <2>2. CASE StartCommit(q)
    BY <1>0, <2>2 DEF StartCommit, RecordMoves
  <2>3. CASE StartRestore(q)
    <3>1. start'[q].stage = "restored" /\ start'[q].record = start[q].record
      BY <1>0, <2>3 DEF StartRestore, Answered, NoStart
    <3> QED  BY <1>0, <2>3, <3>1 DEF StartRestore, RecordMoves
  <2> QED  BY <1>2, <2>1, <2>2, <2>3 DEF StartSteps
<1>3. ASSUME NEW j \in Jobs, JobSteps(j)
      PROVE  RecordMoves(r)
  <2>1. CASE JobWrites(j)
    <3>1. CASE pull' = [pull EXCEPT ![job[j].record] = Written(j)]
               /\ job' = [job EXCEPT ![j].stage = "logging"]
      <4>1. job'[j].stage = "logging"
        BY <1>0, <3>1 DEF JobRows
      <4>2. pull'[r] = pull[r] \/ (r = job[j].record /\ pull'[r] = Written(j))
        BY <1>0, <3>1
      <4> QED  BY <2>1, <4>1, <4>2 DEF JobWrites, RecordMoves, dms
    <3> QED  BY <1>1, <2>1, <3>1 DEF JobWrites
  <2>2. CASE JobExcepts(j)
    BY <1>0, <2>2 DEF JobExcepts, RecordMoves
  <2>3. CASE \/ JobChecks(j) \/ JobFills(j) \/ JobSaves(j) \/ JobConfirmed(j)
             \/ JobCaptures(j) \/ JobLogs(j)
    BY <1>1, <2>3 DEF JobChecks, JobFills, JobSaves, JobConfirmed, JobCaptures, JobLogs, database
  <2> QED  BY <1>3, <2>1, <2>2, <2>3 DEF JobSteps
<1>4. CASE \/ \E h \in Houses : FiledByHand(h)
           \/ \E i \in Rows, status \in {"Approved", "Rejected"} : Decided(i, status)
           \/ HalfHour \/ Crash \/ UNCHANGED vars
  BY <1>1, <1>4 DEF FiledByHand, Decided, HalfHour, Crash, vars, database
<1> QED  BY <1>2, <1>3, <1>4 DEF Next

-----------------------------------------------------------------------------
(* What was created is kept                                                *)

(* A pull is started for records that are not submitted only, and what is  *)
(* put back later is not "submitted" either.  While a job goes on nobody   *)
(* else writes its record: a start whose log failed may still have to put  *)
(* a status back, but the job does not get past its check before that.     *)
NotSubmitted ==
  /\ \A q \in Starts : start[q].stage = "loaded" =>
       start[q].read = "submitted" \/ pull[start[q].record] # "submitted"
  /\ \A q \in Starts : start[q].stage \in {"marked", "committed", "restoring"} =>
       start[q].read # "submitted" /\ pull[start[q].record] # "submitted"
  /\ \A j \in Jobs : job[j].stage \in Driving => job[j].previous # "submitted"
  /\ \A j \in Jobs : job[j].stage \in Driving \ {"logging", "excepting"} =>
       pull[job[j].record] # "submitted"
RestoresEarly ==
  \A q \in Starts, j \in Jobs :
    /\ start[q].stage = "restoring" /\ job[j].stage \in Driving
    /\ start[q].record = job[j].record
    => job[j].stage \in {"starting", "checking"}
CreatedWritten ==
  \A j \in Jobs : job[j].stage = "logging" /\ job[j].outcome = "created" =>
    pull[job[j].record] = "submitted"

(* What is told to be created is over, and its record has no other job.    *)
CreatedAlone ==
  \A j \in Jobs : store[j] = "created" \/ modal.result = j =>
    /\ job[j].stage = "over" /\ job[j].record \in Records
    /\ pull[job[j].record] = "submitted"
    /\ \A k \in Jobs : job[k].stage \in Driving => job[k].record # job[j].record

WriteInv == NotSubmitted /\ RestoresEarly /\ CreatedWritten

(* A request that reserves its house has seen a record not submitted.      *)
LEMMA ReadNotSubmitted ==
  ASSUME NotSubmitted, NEW q \in Starts,
         \/ start[q].stage = "loaded" /\ ~StartRefused(q)
         \/ start[q].stage \in {"marked", "committed", "restoring"}
  PROVE  start[q].read # "submitted" /\ pull[start[q].record] # "submitted"
BY DEF NotSubmitted, StartRefused

(* A record becomes submitted by a job that writes it, while no request is *)
(* loading or restoring.                                                   *)
LEMMA SubmittedByWrite ==
  ASSUME WriteInv, NEW r \in Records, RecordMoves(r), pull[r] # "submitted",
         pull'[r] = "submitted"
  PROVE  \E j \in Jobs : /\ job[j].stage = "writing" /\ job[j].record = r /\ Unloaded
                         /\ job'[j].stage = "logging"
BY DEF RecordMoves, WriteInv, NotSubmitted

(* Two jobs of one record are one job; a request that has marked it has no *)
(* job beside it, and one that has committed it has the one that starts.   *)
LEMMA OneOfRecord ==
  ASSUME HoldInv, NEW j \in Jobs, job[j].stage \in Driving
  PROVE  /\ \A k \in Jobs : job[k].stage \in Driving /\ job[k].record = job[j].record => k = j
         /\ \A q \in Starts : start[q].stage = "marked" => start[q].record # job[j].record
         /\ \A q \in Starts : start[q].stage = "committed" /\ start[q].record = job[j].record
              => job[j].stage = "starting"
<1>1. \A k \in Jobs : job[k].stage \in Driving /\ job[k].record = job[j].record => k = j
  BY DEF HoldInv, Apart, OneDriver
<1>2. \A q \in Starts : start[q].stage = "marked" => start[q].record # job[j].record
  BY DEF HoldInv, Apart
<1>3. \A q \in Starts : start[q].stage = "committed" /\ start[q].record = job[j].record
        => job[j].stage = "starting"
  BY <1>1, Stages DEF HoldInv, Handed
<1> QED  BY <1>1, <1>2, <1>3

(* A job that drives after a step did before, or has just been started for *)
(* a request that had marked its record.                                   *)
LEMMA DriversStay ==
  ASSUME NEW j \in Jobs, JobMoves(j), job'[j].stage \in Driving
  PROVE  \/ job[j].stage \in Driving /\ SameJob(j)
         \/ /\ job'[j].stage = "starting" /\ pull' = [pull EXCEPT ![job'[j].record] = "running"]
            /\ \E q \in Starts : /\ start[q].stage = "marked" /\ start[q].record = job'[j].record
                                 /\ start[q].read = job'[j].previous
BY DEF JobMoves, SameJob, Driving, JobStages

(* Every step keeps what the writes rest on.                               *)
LEMMA WritesKept ==
  ASSUME TypeOK, HoldInv, WriteInv, [Next]_vars
  PROVE  WriteInv'
<1>m. /\ \A q \in Starts : RequestMoves(q)
      /\ \A j \in Jobs : JobMoves(j)
      /\ \A r \in Records : RecordMoves(r)
  BY RequestsMove, JobsMove, RecordsMove
<1>w. NotSubmitted /\ RestoresEarly /\ CreatedWritten
  BY DEF WriteInv
<1>d. /\ {"writing", "checking", "filling", "logging", "excepting"} \subseteq Driving
      /\ Driving \subseteq JobStages
  BY DEF Driving, JobStages
<1>p. pull \in [Records -> PullStates]
  BY DEF TypeOK
<1>1. ASSUME NEW q \in Starts, start'[q].stage = "loaded"
      PROVE  start'[q].read = "submitted" \/ pull'[start'[q].record] # "submitted"
  <2>1. CASE start'[q] = start[q]
    <3>1. start[q].record \in Records /\ start[q].stage = "loaded"
      BY <1>1, <2>1 DEF HoldInv, Named
    <3> QED  BY <1>m, <1>w, <2>1, <3>1, SubmittedByWrite DEF Unloaded, NotSubmitted
  <2>2. CASE start'[q].read = pull[start'[q].record] /\ pull' = pull
    BY <2>2
  <2> QED  BY <1>1, <1>m, <2>1, <2>2 DEF RequestMoves
<1>2. ASSUME NEW q \in Starts, start'[q].stage \in {"marked", "committed", "restoring"}
      PROVE  start'[q].read # "submitted" /\ pull'[start'[q].record] # "submitted"
  <2>1. /\ \/ start[q].stage = "loaded" /\ ~StartRefused(q)
           \/ start[q].stage \in {"marked", "committed", "restoring"}
        /\ SameRequest(q) /\ start[q].record \in Records
    BY <1>2, <1>m DEF RequestMoves, SameRequest, HoldInv, Named
  <2>2. start[q].read # "submitted" /\ pull[start[q].record] # "submitted"
    BY <1>w, <2>1, ReadNotSubmitted
  <2>3. ASSUME pull'[start[q].record] = "submitted"
        PROVE  FALSE
    <3>1. PICK j \in Jobs : /\ job[j].stage = "writing" /\ job[j].record = start[q].record
                            /\ Unloaded
      BY <1>m, <2>1, <2>2, <2>3, SubmittedByWrite
    <3>2. start[q].stage \in {"marked", "committed"}
      BY <2>1, <3>1 DEF Unloaded
    <3> QED  BY <1>d, <3>1, <3>2, OneOfRecord
  <2> QED  BY <2>1, <2>2, <2>3 DEF SameRequest
<1>3. ASSUME NEW j \in Jobs, job'[j].stage \in Driving
      PROVE  job'[j].previous # "submitted"
  <2>1. JobMoves(j)
    BY <1>m
  <2> QED  BY <1>3, <1>w, <2>1, DriversStay DEF SameJob, NotSubmitted
<1>4. ASSUME NEW j \in Jobs, job'[j].stage \in Driving \ {"logging", "excepting"}
      PROVE  pull'[job'[j].record] # "submitted"
  <2>0. JobMoves(j)
    BY <1>m
  <2>1. CASE job[j].stage \in Driving /\ SameJob(j)
    <3>1. job[j].stage \notin {"logging", "excepting"}
      BY <1>4, <2>0, <2>1 DEF JobMoves, Driving, JobStages
    <3>2. pull[job[j].record] # "submitted" /\ job[j].record \in Records
      BY <1>w, <2>1, <3>1 DEF NotSubmitted, HoldInv, Named
    <3>3. ASSUME pull'[job[j].record] = "submitted"
          PROVE  FALSE
      <4>1. PICK k \in Jobs : /\ job[k].stage = "writing" /\ job[k].record = job[j].record
                              /\ job'[k].stage = "logging"
        BY <1>m, <3>2, <3>3, SubmittedByWrite
      <4>2. k = j
        BY <1>d, <2>1, <4>1, OneOfRecord
      <4> QED  BY <1>4, <4>1, <4>2
    <3> QED  BY <2>1, <3>3 DEF SameJob
  <2>2. ASSUME NEW q \in Starts, start[q].stage = "marked", start[q].record = job'[j].record,
               pull' = [pull EXCEPT ![job'[j].record] = "running"]
        PROVE  pull'[job'[j].record] # "submitted"
    <3>1. job'[j].record \in Records
      BY <2>2 DEF HoldInv, Named
    <3> QED  BY <1>p, <2>2, <3>1
  <2> QED  BY <1>4, <2>0, <2>1, <2>2, DriversStay
<1>5. ASSUME NEW q \in Starts, NEW j \in Jobs, start'[q].stage = "restoring",
             job'[j].stage \in Driving, start'[q].record = job'[j].record,
             job'[j].stage \notin {"starting", "checking"}
      PROVE  FALSE
  <2>0. JobMoves(j)
    BY <1>m
  <2>1. job[j].stage \in Driving /\ job[j].record = job'[j].record
    BY <1>5, <2>0, DriversStay DEF SameJob
  <2>2. /\ start[q].stage \in {"committed", "restoring"}
        /\ start[q].record = job[j].record
    BY <1>5, <1>m, <2>1 DEF RequestMoves, SameRequest
  <2>3. job[j].stage \in {"starting", "checking"}
    BY <1>w, <2>1, <2>2, OneOfRecord DEF RestoresEarly
  <2>4. job[j].stage = "checking" /\ Unloaded
    BY <1>5, <1>d, <2>0, <2>3, Stages DEF JobMoves
  <2>5. start[q].stage = "committed"
    BY <2>2, <2>4 DEF Unloaded
  <2> QED  BY <2>1, <2>2, <2>4, <2>5, OneOfRecord
<1>6. ASSUME NEW j \in Jobs, job'[j].stage = "logging", job'[j].outcome = "created"
      PROVE  pull'[job'[j].record] = "submitted"
  <2>0. JobMoves(j)
    BY <1>m
  <2>1. CASE job'[j] = job[j]
    <3>1. pull[job[j].record] = "submitted" /\ job[j].record \in Records
      BY <1>6, <1>w, <1>d, <2>1 DEF CreatedWritten, HoldInv, Named
    <3>2. job[j].stage = "logging"
      BY <1>6, <2>1
    <3>3. \A q \in Starts : start[q].stage \in {"marked", "restoring"} =>
            start[q].record # job[j].record
      BY <1>w, <1>d, <3>2, OneOfRecord DEF RestoresEarly
    <3>4. \A k \in Jobs : job[k].stage \in {"writing", "excepting"} =>
            job[k].record # job[j].record
      BY <1>d, <3>2, OneOfRecord
    <3>5. RecordMoves(job[j].record)
      BY <1>m, <3>1
    <3>6. pull'[job[j].record] = pull[job[j].record]
      BY <3>3, <3>4, <3>5 DEF RecordMoves
    <3> QED  BY <2>1, <3>1, <3>6
  <2>2. CASE /\ job[j].stage = "writing" /\ SameJob(j)
             /\ pull' = [pull EXCEPT ![job[j].record] = Written(j)]
             /\ job'[j].outcome = job[j].outcome
    <3>1. Written(j) = "submitted" /\ job[j].record \in Records
      BY <1>6, <1>d, <2>2 DEF Written, HoldInv, Named
    <3> QED  BY <1>p, <2>2, <3>1 DEF SameJob
  <2> QED  BY <1>6, <2>0, <2>1, <2>2 DEF JobMoves
<1>7. NotSubmitted'
  BY <1>1, <1>2, <1>3, <1>4 DEF NotSubmitted
<1>8. RestoresEarly'
  BY <1>5 DEF RestoresEarly
<1>9. CreatedWritten'
  BY <1>6 DEF CreatedWritten
<1> QED  BY <1>7, <1>8, <1>9 DEF WriteInv

(* A job is told to be created when it has been logged as such.            *)
LEMMA TellsCreated ==
  ASSUME TypeOK, [Next]_vars, NEW j \in Jobs, store'[j] = "created"
  PROVE  \/ store[j] = "created"
         \/ /\ job[j].stage = "logging" /\ job[j].outcome = "created"
            /\ job'[j].stage = "over" /\ job'[j].record = job[j].record
            /\ UNCHANGED <<database, start>> /\ \A k \in Jobs \ {j} : job'[k] = job[k]
<1>0. store \in [Jobs -> Outcomes \cup {"running", "purged"}] /\ job \in [Jobs -> JobRows]
  BY DEF TypeOK
<1>1. CASE JobLogs(j)
  <2>1. CASE Over(j) /\ store' = Reported(j, job[j].outcome)
    <3>1. store[j] = "created" \/ job[j].outcome = "created"
      BY <1>0, <2>1 DEF Reported
    <3>2. job'[j].stage = "over" /\ job'[j].record = job[j].record
          /\ \A k \in Jobs \ {j} : job'[k] = job[k]
      BY <1>0, <2>1 DEF Over, Ended, NoJob
    <3> QED  BY <1>1, <3>1, <3>2 DEF JobLogs
  <2>2. CASE store' = store
    BY <2>2
  <2> QED  BY <1>1, <2>1, <2>2 DEF JobLogs
<1>2. ASSUME NEW k \in Jobs \ {j}, JobLogs(k)
      PROVE  store'[j] = store[j]
  BY <1>0, <1>2 DEF JobLogs, Reported
<1>3. ASSUME NEW k \in Jobs, JobExcepts(k)
      PROVE  store[j] = "created"
  <2>1. store' = Reported(k, "failed")
    BY <1>3 DEF JobExcepts
  <2> QED  BY <1>0, <2>1 DEF Reported
<1>4. ASSUME NEW k \in Jobs,
             \/ JobChecks(k) \/ JobFills(k) \/ JobSaves(k) \/ JobConfirmed(k) \/ JobCaptures(k)
             \/ JobWrites(k)
      PROVE  store' = store
  BY <1>4 DEF JobChecks, JobFills, JobSaves, JobConfirmed, JobCaptures, JobWrites
<1>5. CASE \E q \in Starts :
             StartSteps(q) \/ \E r \in Records, dry \in BOOLEAN : StartLoad(q, r, dry)
  <2>1. PICK q \in Starts :
             StartSteps(q) \/ \E r \in Records, dry \in BOOLEAN : StartLoad(q, r, dry)
    BY <1>5
  <2>2. CASE StartCommit(q)
    BY <1>0, <2>2 DEF StartCommit
  <2>3. CASE ~StartCommit(q)
    BY <2>1, <2>3 DEF StartSteps, StartCheck, StartCommitFails, StartFlushFails, StartLog,
                      StartLogFails, StartLogFlushFails, StartRestore, StartLoad
  <2> QED  BY <2>2, <2>3
<1>6. CASE HalfHour \/ Crash
  BY <1>6 DEF HalfHour, Crash
<1>7. CASE \/ \E h \in Houses : FiledByHand(h)
           \/ \E i \in Rows, status \in {"Approved", "Rejected"} : Decided(i, status)
           \/ UNCHANGED vars
  BY <1>7 DEF FiledByHand, Decided, vars, backend
<1>8. CASE \E k \in Jobs : JobSteps(k)
  BY <1>1, <1>2, <1>3, <1>4, <1>8 DEF JobSteps
<1> QED  BY <1>5, <1>6, <1>7, <1>8 DEF Next

(* What a window shows as created has been told.                           *)
LEMMA ShowsCreated ==
  ASSUME TypeOK, WindowOK, [ModalNext]_<<vars, modalVars>>, NEW j \in Jobs, modal'.result = j
  PROVE  modal.result = j \/ (store[j] = "created" /\ UNCHANGED vars)
<1>0. modal \in WindowRows /\ j # 0
  BY PullAssumption DEF WindowOK, Jobs
<1>1. ASSUME NEW phase, NEW result, Shows(phase, result)
      PROVE  modal'.result = result
  BY <1>0, <1>1 DEF Shows, WindowRows
<1>2. CASE (\E r \in Records : ModalOpens(r)) \/ ModalCloses \/ ModalRechecks
  BY <1>0, <1>1, <1>2 DEF ModalOpens, ModalCloses, ModalRechecks, WindowRows, Closed
<1>3. ASSUME NEW q \in Starts,
             \/ \E dry \in BOOLEAN : ModalStarts(q, dry)
             \/ ModalStarted(q) \/ ModalRefused(q) \/ PollWakes(q)
      PROVE  modal.result = j
  BY <1>0, <1>3 DEF ModalStarts, ModalStarted, ModalRefused, PollWakes, WindowRows
<1>4. ASSUME NEW q \in Starts, PollAnswered(q)
      PROVE  modal.result = j \/ (store[j] = "created" /\ UNCHANGED vars)
  BY <1>0, <1>1, <1>4 DEF PollAnswered, pullVars
<1>5. ASSUME NEW q \in Starts, PollFails(q)
      PROVE  modal.result = j
  BY <1>1, <1>5 DEF PollFails
<1>6. CASE UNCHANGED modalVars
  BY <1>6 DEF modalVars
<1> QED  BY <1>2, <1>3, <1>4, <1>5, <1>6 DEF ModalNext

(* No step takes back what was created.                                    *)
LEMMA CreatedKept ==
  ASSUME TypeOK, WindowOK, HoldInv, WriteInv, CreatedAlone, [ModalNext]_<<vars, modalVars>>
  PROVE  CreatedAlone'
<1>n. [Next]_vars
  BY WindowSteps
<1>m. /\ \A j \in Jobs : JobMoves(j)
      /\ \A r \in Records : RecordMoves(r)
  BY <1>n, JobsMove, RecordsMove
<1>d. /\ {"writing", "logging", "excepting"} \subseteq Driving /\ "over" \notin Driving
  BY DEF Driving, JobStages
<1> SUFFICES ASSUME NEW j \in Jobs, store'[j] = "created" \/ modal'.result = j
             PROVE  /\ job'[j].stage = "over" /\ job'[j].record \in Records
                    /\ pull'[job'[j].record] = "submitted"
                    /\ \A k \in Jobs : job'[k].stage \in Driving => job'[k].record # job'[j].record
  BY DEF CreatedAlone
<1>1. CASE store[j] = "created" \/ modal.result = j
  <2>1. /\ job[j].stage = "over" /\ job[j].record \in Records
        /\ pull[job[j].record] = "submitted"
        /\ \A k \in Jobs : job[k].stage \in Driving => job[k].record # job[j].record
    BY <1>1 DEF CreatedAlone
  <2>2. JobMoves(j) /\ RecordMoves(job[j].record)
    BY <1>m, <2>1
  <2>3. job'[j].stage = "over" /\ job'[j].record = job[j].record
    BY <2>1, <2>2 DEF JobMoves
  <2>4. \A q \in Starts : start[q].stage \in {"marked", "restoring"} =>
          start[q].record # job[j].record
    BY <2>1 DEF WriteInv, NotSubmitted
  <2>5. pull'[job[j].record] = "submitted"
    BY <1>d, <2>1, <2>2, <2>4 DEF RecordMoves
  <2>6. ASSUME NEW k \in Jobs, job'[k].stage \in Driving
        PROVE  job'[k].record # job[j].record
    <3>1. JobMoves(k)
      BY <1>m
    <3> QED  BY <2>1, <2>4, <2>6, <3>1, DriversStay DEF SameJob
  <2> QED  BY <2>1, <2>3, <2>5, <2>6
<1>2. CASE ~(store[j] = "created" \/ modal.result = j)
  <2>1. store'[j] = "created"
    BY <1>2, ShowsCreated
  <2>2. /\ job[j].stage = "logging" /\ job[j].outcome = "created"
        /\ job'[j].stage = "over" /\ job'[j].record = job[j].record
        /\ UNCHANGED <<database, start>> /\ \A k \in Jobs \ {j} : job'[k] = job[k]
    BY <1>n, <1>2, <2>1, TellsCreated
  <2>3. job[j].record \in Records /\ pull[job[j].record] = "submitted"
    BY <1>d, <2>2 DEF WriteInv, CreatedWritten, HoldInv, Named
  <2>4. ASSUME NEW k \in Jobs, job'[k].stage \in Driving
        PROVE  job'[k].record # job'[j].record
    BY <1>d, <2>2, <2>4, OneOfRecord
  <2> QED  BY <2>2, <2>3, <2>4 DEF database
<1> QED  BY <1>1, <1>2

(* It holds to begin with.                                                 *)
LEMMA WritesStart == ModalInit => WriteInv /\ CreatedAlone
<1> SUFFICES ASSUME ModalInit
             PROVE  WriteInv /\ CreatedAlone
  OBVIOUS
<1>1. /\ \A q \in Starts : start[q].stage = "new"
      /\ \A j \in Jobs : job[j].stage = "none" /\ store[j] = "none" /\ modal.result # j
  BY PullAssumption DEF ModalInit, Init, NoStart, NoJob, Closed, Jobs
<1>2. "none" \notin Driving
  BY DEF Driving
<1> QED  BY <1>1, <1>2
         DEF WriteInv, NotSubmitted, RestoresEarly, CreatedWritten, CreatedAlone, Driving

(* Whatever fails or crashes, and whichever records the window is opened   *)
(* for meanwhile, a pull that is shown as created stays in the database.   *)
THEOREM CreatedAlwaysKept == ModalSpec => []CreatedIsKept
<1> DEFINE Inv == PullInv /\ WriteInv /\ CreatedAlone
<1>1. ModalInit => Inv
  BY PullStarts, WritesStart
<1>2. Inv /\ [ModalNext]_<<vars, modalVars>> => Inv'
  BY PullKept, WindowSteps, WritesKept, CreatedKept DEF PullInv
<1>3. Inv => CreatedIsKept
  BY DEF CreatedAlone, CreatedIsKept
<1> HIDE DEF Inv
<1> QED  BY <1>1, <1>2, <1>3, PTL DEF ModalSpec

-----------------------------------------------------------------------------
(* What is undecided is marked                                             *)

(* A record that has been pulled looks so, or an earlier start has put its *)
(* status back.                                                            *)
Marked(r) ==
  \/ pull[r] # "none"
  \/ \E q \in Starts : start[q].record = r /\ start[q].stage = "restored"

(* An undecided request was filed by a job for a record of its house; that *)
(* record is marked, as is the record of a job that has not written yet; a *)
(* dry run that is about to put a status back has seen the list of its     *)
(* house without an undecided request.                                     *)
FiledFor ==
  \A i \in Rows : Undecided(i) =>
    /\ row[i].by \in Jobs /\ job[row[i].by].stage # "none"
    /\ job[row[i].by].record \in Records /\ row[i].house = HouseOf[job[row[i].by].record]
FiledMarked == \A i \in Rows : Undecided(i) => Marked(job[row[i].by].record)
PulledMarked ==
  \A j \in Jobs : job[j].stage \in Driving \ {"logging", "excepting"} => Marked(job[j].record)
DryRunAlone ==
  \A j \in Jobs : job[j].stage = "writing" /\ job[j].outcome = "dry_run_ok" =>
    \A i \in Rows : Undecided(i) => row[i].house # HouseOf[job[j].record]

MarkedInv == FiledFor /\ FiledMarked /\ PulledMarked /\ DryRunAlone

(* Only a dry run takes the mark away, as far as nobody has put it back.   *)
LEMMA MarkKept ==
  ASSUME NEW r \in Records, Marked(r), RecordMoves(r), \A q \in Starts : RequestMoves(q)
  PROVE  \/ Marked(r)'
         \/ \E j \in Jobs : /\ job[j].stage = "writing" /\ job[j].record = r
                            /\ job[j].outcome = "dry_run_ok" /\ job'[j].stage = "logging"
<1>1. CASE \E q \in Starts : start[q].record = r /\ start[q].stage = "restored"
  <2>1. PICK q \in Starts : start[q].record = r /\ start[q].stage = "restored"
    BY <1>1
  <2>2. start'[q] = start[q]
    BY <2>1 DEF RequestMoves, Rest
  <2> QED  BY <2>1, <2>2 DEF Marked
<1>2. CASE pull[r] # "none"
  <2>1. ASSUME NEW j \in Jobs, Written(j) = "none"
        PROVE  job[j].outcome = "dry_run_ok"
    BY <2>1 DEF Written
  <2> QED  BY <1>2, <2>1 DEF RecordMoves, Marked
<1> QED  BY <1>1, <1>2 DEF Marked

(* A request that is undecided after a step was so before, or has just     *)
(* been filed by a job.                                                    *)
LEMMA NewlyUndecided ==
  ASSUME TypeOK, HoldInv, [Next]_vars, NEW i \in Rows, Undecided(i)'
  PROVE  \/ Undecided(i) /\ row'[i] = row[i]
         \/ /\ row'[i].by \in Jobs /\ job[row'[i].by].stage = "saving"
            /\ row'[i].house = HouseOf[job[row'[i].by].record]
<1>1. ASSUME NEW j \in Jobs, Files(j), row'[i] # row[i]
      PROVE  row'[i] = [house |-> HouseOf[job[j].record], by |-> j, status |-> "Pending"]
  <2>1. HouseOf[job[j].record] \in Houses /\ j \in 0 .. MaxJobs
    BY <1>1, PullAssumption DEF Files, HoldInv, Named, Driving, JobStages, Jobs
  <2> QED  BY <1>1, <2>1, ListedTypes DEF Files
<1>2. CASE Lists
  <2>1. PICK h \in Houses : Listed(h, 0)
    BY <1>2 DEF Lists
  <2>2. 0 \in 0 .. MaxJobs
    BY PullAssumption
  <2>3. row'[i] # row[i] => row'[i] = [house |-> h, by |-> 0, status |-> "Pending"]
    BY <2>1, <2>2, ListedTypes
  <2> QED  BY <2>3 DEF Undecided
<1>3. CASE Decides
  BY <1>3 DEF Decides, Undecided
<1>4. CASE UNCHANGED dms
  BY <1>4 DEF dms, Undecided
<1>5. CASE \E j \in Jobs : Files(j)
  <2>1. PICK j \in Jobs : Files(j)
    BY <1>5
  <2>2. CASE row'[i] = row[i]
    BY <2>2 DEF Undecided
  <2>3. CASE row'[i] # row[i]
    <3>1. row'[i] = [house |-> HouseOf[job[j].record], by |-> j, status |-> "Pending"]
      BY <1>1, <2>1, <2>3
    <3>2. row'[i].by = j /\ row'[i].house = HouseOf[job[j].record]
      BY <3>1
    <3>3. job[j].stage = "saving"
      BY <2>1 DEF Files
    <3> QED  BY <3>2, <3>3
  <2> QED  BY <2>2, <2>3
<1> QED  BY <1>2, <1>3, <1>4, <1>5, ListKinds DEF HoldInv

(* Every step keeps the marks, as long as the list reads as it is.         *)
LEMMA MarksKept ==
  ASSUME TypeOK, HoldInv, PendingInv, MarkedInv, [Next]_vars
  PROVE  MarkedInv'
<1>m. /\ \A q \in Starts : RequestMoves(q)
      /\ \A j \in Jobs : JobMoves(j)
      /\ \A r \in Records : RecordMoves(r)
  BY RequestsMove, JobsMove, RecordsMove
<1>k. FiledFor /\ FiledMarked /\ PulledMarked /\ DryRunAlone
  BY DEF MarkedInv
<1>d. /\ {"writing", "saving", "filling"} \subseteq Driving \ {"logging", "excepting"}
      /\ Driving \subseteq JobStages /\ "none" \notin Driving
  BY DEF Driving, JobStages
<1>j. ASSUME NEW j \in Jobs, job[j].stage # "none"
      PROVE  job'[j].stage # "none" /\ job'[j].record = job[j].record
  <2>1. JobMoves(j)
    BY <1>m
  <2> QED  BY <1>j, <2>1 DEF JobMoves, SameJob
<1>1. ASSUME NEW i \in Rows, Undecided(i)'
      PROVE  /\ row'[i].by \in Jobs /\ job'[row'[i].by].stage # "none"
             /\ job'[row'[i].by].record \in Records
             /\ row'[i].house = HouseOf[job'[row'[i].by].record]
             /\ Marked(job[row[i].by].record)'
  <2>1. CASE Undecided(i) /\ row'[i] = row[i]
    <3>1. PICK j \in Jobs : j = row[i].by /\ job[j].stage # "none"
      BY <1>k, <2>1 DEF FiledFor
    <3>2. PICK r \in Records : r = job[j].record /\ row[i].house = HouseOf[r] /\ Marked(r)
      BY <1>k, <2>1, <3>1 DEF FiledFor, FiledMarked
    <3>3. job'[j].stage # "none" /\ job'[j].record = r
      BY <1>j, <3>1, <3>2
    <3>4. Marked(r)'
      <4>1. ASSUME NEW l \in Jobs, job[l].stage = "writing", job[l].record = r,
                   job[l].outcome = "dry_run_ok"
            PROVE  FALSE
        BY <1>k, <2>1, <3>2, <4>1 DEF DryRunAlone
      <4> QED  BY <1>m, <3>2, <4>1, MarkKept
    <3>5. row'[i].by = j
      BY <2>1, <3>1
    <3> QED  BY <2>1, <3>1, <3>2, <3>3, <3>4, <3>5
  <2>2. CASE /\ row'[i].by \in Jobs /\ job[row'[i].by].stage = "saving"
             /\ row'[i].house = HouseOf[job[row'[i].by].record]
    <3>1. PICK j \in Jobs : j = row'[i].by
      BY <2>2
    <3>2. PICK r \in Records : r = job[j].record
      BY <1>d, <2>2, <3>1 DEF HoldInv, Named
    <3>3. Marked(r)
      BY <1>d, <1>k, <2>2, <3>1, <3>2 DEF PulledMarked
    <3>4. job'[j].stage # "none" /\ job'[j].record = r
      BY <1>j, <2>2, <3>1, <3>2
    <3>5. ASSUME NEW l \in Jobs, job[l].stage = "writing", job[l].record = r
          PROVE  FALSE
      BY <1>d, <2>2, <3>1, <3>2, <3>5, OneOfRecord
    <3>6. Marked(r)'
      BY <1>m, <3>3, <3>5, MarkKept
    <3> QED  BY <2>2, <3>1, <3>2, <3>4, <3>6
  <2> QED  BY <1>1, <2>1, <2>2, NewlyUndecided
<1>2. ASSUME NEW j \in Jobs, job'[j].stage \in Driving \ {"logging", "excepting"}
      PROVE  Marked(job[j].record)'
  <2>0. JobMoves(j)
    BY <1>m
  <2>1. CASE job[j].stage \in Driving /\ SameJob(j)
    <3>1. job[j].stage \notin {"logging", "excepting"}
      BY <1>2, <2>0, <2>1 DEF JobMoves, Driving, JobStages
    <3>2. PICK r \in Records : r = job[j].record /\ Marked(r)
      BY <1>k, <2>1, <3>1 DEF PulledMarked, HoldInv, Named
    <3>3. ASSUME NEW l \in Jobs, job[l].stage = "writing", job[l].record = r,
                 job'[l].stage = "logging"
          PROVE  FALSE
      BY <1>2, <1>d, <2>1, <3>2, <3>3, OneOfRecord
    <3>4. Marked(r)'
      BY <1>m, <3>2, <3>3, MarkKept
    <3> QED  BY <2>1, <3>2, <3>4 DEF SameJob
  <2>2. ASSUME NEW q \in Starts, start[q].stage = "marked", start[q].record = job'[j].record,
               pull' = [pull EXCEPT ![job'[j].record] = "running"]
        PROVE  Marked(job[j].record)'
    <3>1. job'[j].record \in Records
      BY <2>2 DEF HoldInv, Named
    <3>2. pull'[job'[j].record] = "running"
      BY <2>2, <3>1 DEF TypeOK
    <3> QED  BY <3>2 DEF Marked
  <2> QED  BY <1>2, <2>0, <2>1, <2>2, DriversStay
<1>3. ASSUME NEW j \in Jobs, job'[j].stage = "writing", job'[j].outcome = "dry_run_ok",
             NEW i \in Rows, Undecided(i)'
      PROVE  row'[i].house # HouseOf[job'[j].record]
  <2>0. JobMoves(j)
    BY <1>m
  <2>1. CASE job[j].stage = "filling" /\ SameJob(j) /\ row' = row
    BY <1>3, <2>1 DEF PendingInv, NoneAtSave, Undecided, SameJob
  <2>2. CASE job'[j] = job[j]
    <3>1. CASE Undecided(i) /\ row'[i] = row[i]
      BY <1>3, <1>k, <2>2, <3>1 DEF DryRunAlone
    <3>2. CASE /\ row'[i].by \in Jobs /\ job[row'[i].by].stage = "saving"
               /\ row'[i].house = HouseOf[job[row'[i].by].record]
      BY <1>3, <1>d, <2>2, <3>2 DEF HoldInv, Apart, OneDriver
    <3> QED  BY <1>3, <3>1, <3>2, NewlyUndecided
  <2> QED  BY <1>3, <2>0, <2>1, <2>2 DEF JobMoves
<1>4. FiledFor' /\ FiledMarked'
  BY <1>1 DEF FiledFor, FiledMarked
<1>5. PulledMarked'
  BY <1>2 DEF PulledMarked
<1>6. DryRunAlone'
  BY <1>3 DEF DryRunAlone
<1> QED  BY <1>4, <1>5, <1>6 DEF MarkedInv

(* As long as the DMS does not answer with error pages, a record does not  *)
(* look unpulled while a request for it is undecided, unless a start that  *)
(* could not be logged has put its status back.                            *)
THEOREM UndecidedAlwaysMarked ==
  ASSUME ~ErrorPages
  PROVE  ModalSpec => []UndecidedIsMarked
<1>1. ModalInit => MarkedInv
  <2> SUFFICES ASSUME ModalInit PROVE MarkedInv
    OBVIOUS
  <2>1. /\ \A j \in Jobs : job[j].stage = "none"
        /\ \A i \in Rows : row[i].by = 0
    BY DEF ModalInit, Init, NoJob, NoRow
  <2> QED  BY <2>1 DEF MarkedInv, FiledFor, FiledMarked, PulledMarked, DryRunAlone, Undecided,
                       Driving
<1>2. PullInv /\ MarkedInv /\ [ModalNext]_<<vars, modalVars>> => (PullInv /\ MarkedInv)'
  BY PullKept, WindowSteps, MarksKept DEF PullInv
<1>3. MarkedInv => UndecidedIsMarked
  BY DEF MarkedInv, FiledMarked, Undecided, Marked, UndecidedIsMarked
<1> QED  BY <1>1, <1>2, <1>3, PullStarts, PTL DEF ModalSpec
=============================================================================
