------------------------------- MODULE PullModal -------------------------------
(***************************************************************************)
(* The window in which a record is pulled, PullPreRFModal.tsx of the       *)
(* liftings page, beside the backend of LiftingPull.                       *)
(*                                                                         *)
(* The window asks for a pull, then a loop asks every two seconds how the  *)
(* job goes.  While it shows a pull running it cannot be closed, so it     *)
(* depends on the loop to leave that state whatever becomes of the job.    *)
(* It can be closed while its request is on the way, and opened again for  *)
(* another record before the answer comes; the loops share one flag that   *)
(* stops them.                                                             *)
(***************************************************************************)
EXTENDS LiftingPull

VARIABLES
  modal,      \* the window: target 0 when closed; result: the job it shows as created
  poll,       \* the loop that follows the pull each request started
  cancelled   \* pollCancelledRef

modalVars == <<modal, poll, cancelled>>
pullVars == vars

Closed == [target |-> 0, phase |-> "confirm", starting |-> FALSE, result |-> 0]

ModalInit ==
  /\ Init
  /\ modal = Closed
  /\ poll = [q \in Starts |-> "none"]
  /\ cancelled = FALSE

(* The effect on [phase, jobId] is cleaned up when the phase changes. *)
Shows(phase, result) ==
  /\ modal' = [modal EXCEPT !.phase = phase, !.result = result]
  /\ cancelled' = (cancelled \/ (modal.phase = "running" /\ phase # "running"))

(* Opening clears everything, and the effect's cleanup comes after. *)
ModalOpens(r) ==
  /\ modal.target = 0
  /\ modal' = [Closed EXCEPT !.target = r]
  /\ cancelled' = (modal.phase = "running")
  /\ UNCHANGED <<poll, pullVars>>

ModalCloses ==
  /\ modal.target # 0 /\ modal.phase # "running"
  /\ modal' = [modal EXCEPT !.target = 0]
  /\ UNCHANGED <<poll, cancelled, pullVars>>

(* After a failure or a dry run the user may look again. *)
ModalRechecks ==
  /\ modal.target # 0 /\ modal.phase = "result" /\ modal.result = 0
  /\ Shows("confirm", 0)
  /\ UNCHANGED <<poll, pullVars>>

(* handleStart up to its await *)
ModalStarts(q, dry) ==
  /\ modal.target # 0 /\ modal.phase = "confirm" /\ ~modal.starting
  /\ poll[q] = "none" /\ StartLoad(q, modal.target, dry)
  /\ modal' = [modal EXCEPT !.starting = TRUE]
  /\ poll' = [poll EXCEPT ![q] = "posted"]
  /\ UNCHANGED cancelled

(* The answer: a pull that started is followed, whichever record the       *)
(* window is open for by now.                                              *)
ModalStarted(q) ==
  /\ poll[q] = "posted" /\ start[q].stage = "started"
  /\ modal' = [modal EXCEPT !.phase = "running", !.starting = FALSE, !.result = 0]
  /\ poll' = [poll EXCEPT ![q] = "asking"]
  /\ cancelled' = FALSE
  /\ UNCHANGED pullVars

(* A refusal, an error, or no answer within a minute *)
ModalRefused(q) ==
  /\ poll[q] = "posted"
  /\ modal' = [modal EXCEPT !.starting = FALSE]
  /\ poll' = [poll EXCEPT ![q] = "over"]
  /\ UNCHANGED <<cancelled, pullVars>>

(* Fault: a job that is not found is asked for again. *)
PollAnsweredAsksOn(q) ==
  /\ poll[q] = "asking"
  /\ LET told == store[start[q].job] IN
       \/ /\ told \in {"running", "purged"}
          /\ poll' = [poll EXCEPT ![q] = "asleep"]
          /\ UNCHANGED <<modal, cancelled>>
       \/ /\ told \in Outcomes
          /\ poll' = [poll EXCEPT ![q] = "over"]
          /\ Shows("result", IF told = "created" THEN start[q].job ELSE 0)
  /\ UNCHANGED pullVars

(* The answer of get_lifting_pull_status, which is handled even after the  *)
(* loop was stopped                                                        *)
PollAnswered(q) ==
  /\ poll[q] = "asking"
  /\ LET told == store[start[q].job] IN
       \/ /\ told = "running"
          /\ poll' = [poll EXCEPT ![q] = "asleep"]
          /\ UNCHANGED <<modal, cancelled>>
       \/ /\ told \in Outcomes
          /\ poll' = [poll EXCEPT ![q] = "over"]
          /\ Shows("result", IF told = "created" THEN start[q].job ELSE 0)
       \/ /\ told = "purged"
          /\ poll' = [poll EXCEPT ![q] = "over"]
          /\ Shows("confirm", modal.result)
  /\ UNCHANGED pullVars

PollFails(q) ==
  /\ poll[q] = "asking"
  /\ poll' = [poll EXCEPT ![q] = "over"]
  /\ Shows("confirm", modal.result)
  /\ UNCHANGED pullVars

(* Two seconds later *)
PollWakes(q) ==
  /\ poll[q] = "asleep"
  /\ poll' = [poll EXCEPT ![q] = IF cancelled THEN "over" ELSE "asking"]
  /\ UNCHANGED <<modal, cancelled, pullVars>>

ModalNext ==
  \/ Next /\ UNCHANGED modalVars
  \/ \E r \in Records : ModalOpens(r)
  \/ ModalCloses \/ ModalRechecks
  \/ \E q \in Starts :
       \/ \E dry \in BOOLEAN : ModalStarts(q, dry)
       \/ ModalStarted(q) \/ ModalRefused(q)
       \/ PollAnswered(q) \/ PollFails(q) \/ PollWakes(q)

(* The backend's, a timer of two seconds, and requests that end within the *)
(* minute the client gives them.                                           *)
ModalFairness ==
  /\ \A q \in Starts : WF_<<vars, modalVars>>(StartSteps(q) /\ UNCHANGED modalVars)
  /\ \A j \in Jobs : WF_<<vars, modalVars>>(JobSteps(j) /\ UNCHANGED modalVars)
  /\ \A q \in Starts :
       /\ WF_<<vars, modalVars>>(ModalStarted(q) \/ ModalRefused(q))
       /\ WF_<<vars, modalVars>>(PollAnswered(q))
       /\ WF_<<vars, modalVars>>(PollWakes(q))

ModalSpec == ModalInit /\ [][ModalNext]_<<vars, modalVars>> /\ ModalFairness

-----------------------------------------------------------------------------
(* The window, its loops and the backend keep their types.                 *)
ModalTypeOK ==
  /\ TypeOK
  /\ modal \in [target : Records \cup {0}, phase : {"confirm", "running", "result"},
                 starting : BOOLEAN, result : 0 .. MaxJobs]
  /\ poll \in [Starts -> {"none", "posted", "asking", "asleep", "over"}]
  /\ cancelled \in BOOLEAN

(* A pull that the backend or the window calls created is in the database  *)
(* for good: its record is submitted, and no later pull takes that back.   *)
CreatedIsKept ==
  \A j \in Jobs :
    store[j] = "created" \/ modal.result = j => pull[job[j].record] = "submitted"

(* The window does not stay in a state that cannot be closed or asked      *)
(* again, whatever happens to the job, the backend or the answers.         *)
ModalEnds ==
  (modal.starting \/ modal.phase = "running") ~> (~modal.starting /\ modal.phase # "running")
=============================================================================
