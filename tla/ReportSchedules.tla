---------------------------- MODULE ReportSchedules ----------------------------
(***************************************************************************)
(* Reports that are sent to chats on a schedule: the loop of main.py that  *)
(* runs every half minute, services/whatsapp_schedule_service.py that      *)
(* finds what is due and sends it, services/whatsapp_service_client.py     *)
(* with its attempts, and the requests of routers/whatsapp_schedules.py.   *)
(*                                                                         *)
(* What has been sent is remembered in one place, the time of a schedule's *)
(* last run, and it is written after the messages have left.  Whether a    *)
(* message arrived is never known for sure.                                *)
(*                                                                         *)
(* A moment is a slot of a day, numbered from the first slot of day 1, so  *)
(* that 0 is null.  Reports, captions, the statuses and errors that are    *)
(* shown, and the delivery history are left out.                           *)
(***************************************************************************)
EXTENDS Naturals, FiniteSets

CONSTANTS
  Schedules,
  Config,      \* what an edit does not change here: see ConfigType
  Broken,      \* schedules whose report cannot be built, or whose house has no device
  DayLength,   \* slots of a day
  Days,        \* bound: days looked at
  MaxSpan,     \* bound: slots that pass during one cycle or one outage
  MaxFaults,   \* bound: crashes and errors that nothing in the cycle catches
  MaxEdits     \* bound: requests that change a schedule

Attempts == 3  \* 1 + retries of the client
Times == 0 .. DayLength - 1
Moments == DayLength .. DayLength * (Days + 1)  \* until the midnight that ends the last day
Nothing == "nothing"

ConfigType ==
  [type : {"daily", "interval"}, channel : {"whatsapp", "telegram"},
   targets : Nat \ {0}, pages : Nat \ {0}, interval : Nat \ {0},
   starts : Nat, ends : Nat, from : Nat, to : Nat]

ASSUME SchedulesAssumption ==
  /\ Config \in [Schedules -> ConfigType]
  /\ Broken \subseteq Schedules
  /\ Nothing \notin Schedules
  /\ DayLength \in Nat \ {0} /\ Days \in Nat \ {0}
  /\ MaxSpan \in Nat /\ MaxFaults \in Nat /\ MaxEdits \in Nat

VARIABLES
  rows,      \* the table: status, schedule_time and last_run_at of each schedule
  runner,    \* the loop: phase, its now, the schedules left, the one in hand
  pass,      \* the sending in progress: target, page, round, attempt, and the copies
             \* of the page that earlier attempts may have left in the chat
  manual,    \* a schedule that is being sent by hand
  clock,
  cycled,    \* whether a cycle has begun and ended in this slot
  span,      \* slots since the cycle or the outage began
  faults, edits,
  reached,   \* history: when a pass nobody disturbed last sent something
  done,      \* history: schedules whose pass was finished today
  steady,    \* history: schedules that were on and unchanged all day
  disturbed  \* history: a fault today, or a cycle or an outage over last midnight

database == <<rows, edits>>
loop == <<runner, pass>>
time == <<clock, cycled, span>>
history == <<reached, done, steady, disturbed>>
vars == <<database, loop, manual, time, faults, history>>

-----------------------------------------------------------------------------
Day(m) == m \div DayLength
TimeOf(m) == m % DayLength
Chats(s) == IF Config[s].channel = "whatsapp" THEN Config[s].targets ELSE 1
NoPass == [target |-> 1, page |-> 1, round |-> 1, attempt |-> 1, copies |-> 0]

(* _is_due.  last_run_date is always the day of last_run_at.               *)
Started(s, now) == Config[s].starts # 0 => Day(now) >= Config[s].starts
NotOver(s, now) == Config[s].ends # 0 => Day(now) <= Config[s].ends
FirstRun(s, now) ==
  DayLength * (IF Config[s].starts # 0 THEN Config[s].starts ELSE Day(now)) + rows[s].time
NeverRan(s, now) ==
  \/ rows[s].lastRun = 0
  \/ Config[s].starts # 0 /\ rows[s].lastRun < FirstRun(s, now)
InWindow(s, now) == TimeOf(now) \in Config[s].from .. Config[s].to

IntervalDue(s, now) ==
  /\ InWindow(s, now)
  /\ IF NeverRan(s, now)
     THEN now >= FirstRun(s, now)
     ELSE now - rows[s].lastRun >= Config[s].interval
DailyDue(s, now) ==
  Day(rows[s].lastRun) # Day(now) /\ rows[s].time <= TimeOf(now)
IsDue(s, now) ==
  /\ Started(s, now) /\ NotOver(s, now)
  /\ IF Config[s].type = "interval" THEN IntervalDue(s, now) ELSE DailyDue(s, now)

(* Those a cycle that begins now has to pass.  It reads the clock and the  *)
(* rows once; only its own writes change what it has read.                 *)
DueAt(now) == {s \in Schedules : rows[s].status = "on" /\ IsDue(s, now)}

Init ==
  /\ rows \in [Schedules -> [status : {"absent", "on", "off"}, time : Times, lastRun : {0}]]
  /\ runner = [phase |-> "asleep", now |-> 0, left |-> {}, schedule |-> Nothing]
  /\ pass = NoPass
  /\ manual = Nothing
  /\ clock = DayLength /\ cycled = FALSE /\ span = 0
  /\ faults = 0 /\ edits = 0
  /\ reached = [s \in Schedules |-> 0] /\ done = {}
  /\ steady = {s \in Schedules : rows[s].status = "on"} /\ disturbed = FALSE

-----------------------------------------------------------------------------
(* The loop: whatsapp_schedule_runner with check_and_run_due_schedules.    *)

Wake ==
  /\ runner.phase = "asleep"
  /\ runner' = [runner EXCEPT !.phase = "scan", !.now = clock, !.left = DueAt(clock)]
  /\ span' = 0
  /\ UNCHANGED <<database, pass, manual, clock, cycled, faults, history>>

EndCycle ==
  /\ runner.phase = "scan" /\ runner.left = {}
  /\ runner' = [runner EXCEPT !.phase = "asleep", !.now = 0]
  /\ cycled' = (cycled \/ runner.now = clock)
  /\ UNCHANGED <<database, pass, manual, clock, span, faults, history>>

(* A report that is ready, for a house with a device.  The query has no    *)
(* ORDER BY.                                                               *)
Begin(s) ==
  /\ runner.phase = "scan" /\ s \in runner.left
  /\ runner' = [runner EXCEPT !.phase = "send", !.left = @ \ {s}, !.schedule = s]
  /\ pass' = NoPass
  /\ reached' = [reached EXCEPT ![s] = IF s \in steady THEN clock ELSE 0]
  /\ UNCHANGED <<database, manual, time, faults, done, steady, disturbed>>

(* Fault: what goes wrong with one report ends the cycle. *)
NotReadyStops(s) ==
  /\ runner.phase = "scan" /\ s \in runner.left /\ s \in Broken
  /\ runner' = [phase |-> "asleep", now |-> 0, left |-> {}, schedule |-> Nothing]
  /\ cycled' = (cycled \/ runner.now = clock)
  /\ UNCHANGED <<database, pass, manual, clock, span, faults, history>>

(* One that cannot be built or sent: the failure is shown and committed,   *)
(* the last run stays what it was.                                         *)
NotReady(s) ==
  /\ runner.phase = "scan" /\ s \in runner.left /\ s \in Broken
  /\ runner' = [runner EXCEPT !.phase = "log", !.left = @ \ {s}, !.schedule = s]
  /\ UNCHANGED <<database, pass, manual, time, faults, history>>

Sending(channel) == runner.phase = "send" /\ Config[runner.schedule].channel = channel

(* Something has left for the chat, or may have                            *)
Contacted ==
  reached' = [reached EXCEPT ![runner.schedule] = IF @ = 0 THEN 0 ELSE clock]

NextTarget ==
  IF pass.target < Chats(runner.schedule)
  THEN pass' = [NoPass EXCEPT !.target = pass.target + 1] /\ UNCHANGED runner
  ELSE pass' = NoPass /\ runner' = [runner EXCEPT !.phase = "mark"]

(* The gateway or the bot has accepted a page.                             *)
PageSent ==
  /\ runner.phase = "send"
  /\ Contacted
  /\ IF pass.page < Config[runner.schedule].pages
     THEN /\ pass' = [NoPass EXCEPT !.target = pass.target, !.page = pass.page + 1]
          /\ UNCHANGED runner
     ELSE NextTarget
  /\ UNCHANGED <<database, manual, time, faults, done, steady, disturbed>>

(* No answer of the gateway: it could not be reached, or not in time, and  *)
(* the page may have arrived all the same.  The loop of the client goes on *)
(* to its next attempt whatever the error was.                             *)
AttemptLost(arrived) ==
  /\ Sending("whatsapp")
  /\ Contacted
  /\ IF pass.attempt < Attempts
     THEN /\ pass' = [pass EXCEPT !.attempt = @ + 1,
                                  !.copies = IF arrived THEN @ + 1 ELSE @]
          /\ UNCHANGED runner
     ELSE NextTarget
  /\ UNCHANGED <<database, manual, time, faults, done, steady, disturbed>>

(* Fault: the token is renewed as often as the gateway asks for it. *)
TokenExpiredAgain ==
  /\ Sending("whatsapp") /\ Contacted
  /\ pass' = [pass EXCEPT !.round = 2, !.attempt = 1]
  /\ UNCHANGED <<database, runner, manual, time, faults, done, steady, disturbed>>

(* The gateway wants a new token: with_target_token fetches one and starts *)
(* over, once.                                                             *)
TokenExpired ==
  /\ Sending("whatsapp") /\ pass.round = 1
  /\ Contacted
  /\ pass' = [pass EXCEPT !.round = 2, !.attempt = 1]
  /\ UNCHANGED <<database, runner, manual, time, faults, done, steady, disturbed>>

(* Fault: a refusal ends the sending, as on Telegram, and is not a run. *)
TargetRefusedUnmarked ==
  /\ Sending("whatsapp")
  /\ Contacted
  /\ pass' = NoPass
  /\ runner' = [runner EXCEPT !.phase = "log"]
  /\ UNCHANGED <<database, manual, time, faults, done, steady, disturbed>>

(* The gateway refuses, a second token too, or gives none: the other       *)
(* targets still have their turn.                                          *)
TargetRefused ==
  /\ Sending("whatsapp")
  /\ Contacted
  /\ NextTarget
  /\ UNCHANGED <<database, manual, time, faults, done, steady, disturbed>>

(* The bot refuses a page or does not answer: the pages before it have     *)
(* arrived, and the last run stays what it was.                            *)
TelegramFails ==
  /\ Sending("telegram")
  /\ Contacted
  /\ pass' = NoPass
  /\ runner' = [runner EXCEPT !.phase = "log"]
  /\ UNCHANGED <<database, manual, time, faults, done, steady, disturbed>>

(* _mark_run_status with run_at, which is now, and the commit              *)
Mark ==
  /\ runner.phase = "mark"
  /\ rows' = [rows EXCEPT ![runner.schedule].lastRun = clock]
  /\ runner' = [runner EXCEPT !.phase = "log"]
  /\ done' = done \cup {runner.schedule}
  /\ UNCHANGED <<edits, pass, manual, time, faults, reached, steady, disturbed>>

(* The delivery history and the activity log, committed by themselves      *)
Logged ==
  /\ runner.phase = "log"
  /\ runner' = [runner EXCEPT !.phase = "scan", !.schedule = Nothing]
  /\ UNCHANGED <<database, pass, manual, time, faults, history>>

-----------------------------------------------------------------------------
(* Faults *)

(* What the cycle had not committed is lost, and so is what it knew.       *)
Interrupted(phase) ==
  /\ faults < MaxFaults
  /\ faults' = faults + 1
  /\ runner' = [phase |-> phase, now |-> 0, left |-> {}, schedule |-> Nothing]
  /\ pass' = NoPass
  /\ span' = 0
  /\ disturbed' = TRUE
  /\ reached' = [s \in Schedules |->
       IF s = runner.schedule /\ runner.phase \in {"send", "mark"} THEN 0 ELSE reached[s]]
  /\ UNCHANGED <<database, clock, cycled, done, steady>>

(* An error that only the loop catches: the database, an answer that is no *)
(* JSON, a document that cannot be converted                               *)
Raises ==
  /\ runner.phase \in {"scan", "send", "mark", "log"}
  /\ Interrupted("asleep")
  /\ UNCHANGED manual

Crash ==
  /\ runner.phase # "down"
  /\ Interrupted("down")
  /\ manual' = Nothing

Restart ==
  /\ runner.phase = "down"
  /\ runner' = [runner EXCEPT !.phase = "asleep"]
  /\ UNCHANGED <<database, pass, manual, time, faults, history>>

-----------------------------------------------------------------------------
(* The requests.  A change concerns the columns it names, the loop writes  *)
(* the others.                                                             *)

Changed(s) ==
  /\ edits < MaxEdits
  /\ edits' = edits + 1
  /\ steady' = steady \ {s}
  /\ reached' = [reached EXCEPT ![s] = 0]
  /\ UNCHANGED <<loop, manual, time, faults, done, disturbed>>

(* create_schedule, duplicate_schedule *)
Create(s, t) ==
  /\ rows[s].status = "absent"
  /\ rows' = [rows EXCEPT ![s] = [status |-> "on", time |-> t, lastRun |-> 0]]
  /\ Changed(s)

(* update_schedule *)
Update(s, status, t) ==
  /\ rows[s].status \in {"on", "off"} /\ runner.phase # "down"
  /\ rows' = [rows EXCEPT ![s].status = status, ![s].time = t]
  /\ rows' # rows
  /\ Changed(s)

(* delete_schedule *)
Delete(s) ==
  /\ rows[s].status \in {"on", "off"} /\ runner.phase # "down"
  /\ rows' = [rows EXCEPT ![s].status = "deleted"]
  /\ Changed(s)

(* send_now: the same code, beside the loop, without the mark *)
SendNow(s) ==
  /\ manual = Nothing /\ rows[s].status \in {"on", "off"} /\ runner.phase # "down"
  /\ manual' = s
  /\ UNCHANGED <<database, loop, time, faults, history>>

(* Fault: a manual send counts as the schedule's own. *)
SendNowMarks ==
  /\ manual # Nothing
  /\ manual' = Nothing
  /\ rows' = [rows EXCEPT ![manual].lastRun = clock]
  /\ UNCHANGED <<edits, loop, time, faults, history>>

SendNowEnds ==
  /\ manual # Nothing
  /\ manual' = Nothing
  /\ UNCHANGED <<database, loop, time, faults, history>>

-----------------------------------------------------------------------------
(* Time passes while the loop sleeps, once it has looked at this slot, and *)
(* while messages are on their way.                                        *)
Tick ==
  /\ clock + 1 \in Moments
  /\ \/ runner.phase = "asleep" /\ cycled
     \/ runner.phase \in {"send", "down"} /\ span < MaxSpan
  /\ clock' = clock + 1
  /\ cycled' = FALSE
  /\ span' = IF runner.phase = "asleep" THEN 0 ELSE span + 1
  /\ IF Day(clock + 1) = Day(clock) THEN UNCHANGED history
     ELSE /\ done' = {}
          /\ steady' = {s \in Schedules : rows[s].status = "on"}
          /\ disturbed' = (runner.phase # "asleep")
          /\ UNCHANGED reached
  /\ UNCHANGED <<database, loop, manual, faults>>

LoopStep ==
  \/ Wake \/ EndCycle \/ Mark \/ Logged \/ Restart
  \/ \E s \in Schedules : Begin(s) \/ NotReady(s)
  \/ PageSent \/ TokenExpired \/ TargetRefused \/ TelegramFails
  \/ \E arrived \in BOOLEAN : AttemptLost(arrived)

Next ==
  \/ LoopStep
  \/ Raises \/ Crash
  \/ \E s \in Schedules :
       \/ \E t \in Times :
            Create(s, t) \/ \E status \in {"on", "off"} : Update(s, status, t)
       \/ Delete(s) \/ SendNow(s)
  \/ SendNowEnds
  \/ Tick

Spec == Init /\ [][Next]_vars /\ WF_vars(LoopStep)

-----------------------------------------------------------------------------
Row == [status : {"absent", "on", "off", "deleted"}, time : Times, lastRun : Nat]
Runner == [phase : {"asleep", "scan", "send", "mark", "log", "down"}, now : Nat,
           left : SUBSET Schedules, schedule : Schedules \cup {Nothing}]
Pass == [target : Nat, page : Nat, round : {1, 2}, attempt : 1 .. Attempts, copies : Nat]

(* Rows, the loop and the pass in hand keep their types.                   *)
TypeOK ==
  /\ rows \in [Schedules -> Row]
  /\ runner \in Runner
  /\ runner.phase \in {"send", "mark", "log"} => runner.schedule \in Schedules
  /\ pass \in Pass
  /\ manual \in Schedules \cup {Nothing}
  /\ clock \in Moments /\ cycled \in BOOLEAN /\ span \in 0 .. MaxSpan
  /\ faults \in 0 .. MaxFaults /\ edits \in 0 .. MaxEdits
  /\ reached \in [Schedules -> Nat] /\ done \subseteq Schedules
  /\ steady \subseteq Schedules /\ disturbed \in BOOLEAN

(* A page that goes out has arrived at most four times before, so that one *)
(* pass sends it to a chat at most five times: three attempts, of which a  *)
(* demand for a new token may be the last, and three more.                 *)
CopiesBounded == pass.copies <= 2 * (Attempts - 1)

(* Whatever a gateway does, the next pass of a schedule that sends on      *)
(* WhatsApp waits for the next day or for the interval, counted from the   *)
(* last message of the one before, unless a fault cut that one off or the  *)
(* schedule was changed that day: no lasting error makes a tight retry     *)
(* loop.                                                                   *)
OnTime(s) ==
  IF Config[s].type = "daily"
  THEN Day(runner.now) > Day(reached[s])
  ELSE runner.now >= reached[s] + Config[s].interval
Begins(s) == runner.phase = "scan" /\ runner'.phase = "send" /\ runner'.schedule = s
NoTightRetry ==
  [][\A s \in Schedules :
       Begins(s) /\ Config[s].channel = "whatsapp" /\ reached[s] # 0 => OnTime(s)]_vars

(* A daily schedule that nobody changes is passed every day, whatever the  *)
(* gateway does, other schedules fail at, or people send by hand, except   *)
(* on days with a fault and on both sides of a midnight that a cycle spans. *)
Healthy(s) == Config[s].channel = "whatsapp" /\ s \notin Broken
InSeason(s, m) == Started(s, m) /\ NotOver(s, m)
Midnight == clock' # clock /\ Day(clock') # Day(clock)
DailyDelivered ==
  [][Midnight /\ ~disturbed /\ runner.phase = "asleep" =>
       \A s \in steady : Healthy(s) /\ Config[s].type = "daily" /\ InSeason(s, clock)
                           => s \in done]_vars

(* What is due does not stay so: no schedule is starved by one that fails, *)
(* and none stays due for ever because its messages do not get through.    *)
NotStarved ==
  \A s \in Schedules : Healthy(s) => (s \in DueAt(clock) ~> s \notin DueAt(clock))
=============================================================================
