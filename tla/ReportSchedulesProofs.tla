------------------------- MODULE ReportSchedulesProofs -------------------------
(***************************************************************************)
(* Proofs about ReportSchedules, for any schedules, any length of a day    *)
(* and any number of faults and changes.                                   *)
(***************************************************************************)
EXTENDS ReportSchedules, TLAPS

-----------------------------------------------------------------------------
(* Days                                                                    *)

(* A moment lies between the beginning of its day and that of the next.    *)
LEMMA DayBounds ==
  ASSUME NEW m \in Nat
  PROVE  /\ Day(m) \in Nat
         /\ DayLength * Day(m) <= m
         /\ m < DayLength * (Day(m) + 1)
         /\ TimeOf(m) \in Nat
<1>1. DayLength \in Nat \ {0} BY SchedulesAssumption
<1>2. \A d \in Nat, t \in 0 .. DayLength - 1 :
        m = DayLength * d + t => DayLength * d <= m /\ m < DayLength * (d + 1)
  <2> TAKE d \in Nat, t \in 0 .. DayLength - 1
  <2>1. DayLength * (d + 1) = DayLength * d + DayLength /\ DayLength * d \in Nat
    BY <1>1
  <2> QED BY <1>1, <2>1
<1> DEFINE d == m \div DayLength
           t == m % DayLength
<1>3. d \in Nat /\ t \in 0 .. DayLength - 1 /\ m = DayLength * d + t
  BY <1>1
<1>4. Day(m) = d /\ TimeOf(m) = t
  BY DEF Day, TimeOf
<1> HIDE DEF d, t
<1> QED BY <1>2, <1>3, <1>4, t \in Nat

(* A later moment is not on an earlier day.                                *)
LEMMA DayMonotone ==
  ASSUME NEW m \in Nat, NEW n \in Nat, m <= n
  PROVE  Day(m) <= Day(n)
<1>1. /\ Day(m) \in Nat /\ Day(n) \in Nat
      /\ DayLength * Day(m) <= m /\ n < DayLength * (Day(n) + 1)
  BY DayBounds
<1>2. DayLength \in Nat \ {0} BY SchedulesAssumption
<1>3. SUFFICES ASSUME Day(m) >= Day(n) + 1 PROVE FALSE
  BY <1>1
<1>4. DayLength * Day(m) >= DayLength * (Day(n) + 1)
  <2> DEFINE a == Day(m)
             b == Day(n) + 1
  <2>1. a \in Nat /\ b \in Nat /\ a >= b BY <1>1, <1>3
  <2> HIDE DEF a, b
  <2>2. DayLength * a >= DayLength * b BY <1>2, <2>1
  <2> QED BY <2>2 DEF a, b
<1>5. DayLength * Day(m) \in Nat /\ DayLength * (Day(n) + 1) \in Nat
  BY <1>1, <1>2
<1> QED BY <1>1, <1>4, <1>5

-----------------------------------------------------------------------------
(* Types                                                                   *)

(* The sending that has not begun is one of the sendings.                  *)
LEMMA FreshPass ==
  /\ NoPass \in Pass
  /\ \A n \in Nat, k \in Nat : [NoPass EXCEPT !.target = n] \in Pass
       /\ [NoPass EXCEPT !.target = n, !.page = k] \in Pass
<1> USE DEF NoPass, Pass, Attempts
<1>1. NoPass \in Pass OBVIOUS
<1>2. ASSUME NEW n \in Nat, NEW k \in Nat
      PROVE  /\ [NoPass EXCEPT !.target = n] \in Pass
             /\ [NoPass EXCEPT !.target = n, !.page = k] \in Pass
  BY <1>1, <1>2
<1> QED BY <1>1, <1>2

(* A sending that starts over, or makes its next attempt, is one of them.  *)
LEMMA PassKept ==
  ASSUME NEW p \in Pass, NEW n \in Nat
  PROVE  /\ [p EXCEPT !.round = 2, !.attempt = 1] \in Pass
         /\ p.attempt < Attempts
              => [p EXCEPT !.attempt = p.attempt + 1, !.copies = n] \in Pass
<1>1. [p EXCEPT !.round = 2] \in Pass
  BY DEF Pass
<1>2. ASSUME NEW q \in Pass, NEW a \in 1 .. Attempts PROVE [q EXCEPT !.attempt = a] \in Pass
  BY DEF Pass
<1>3. ASSUME NEW q \in Pass PROVE [q EXCEPT !.copies = n] \in Pass
  BY DEF Pass
<1>4. 1 \in 1 .. Attempts /\ p.attempt \in 1 .. Attempts
  BY DEF Pass, Attempts
<1>5. [p EXCEPT !.round = 2, !.attempt = 1] \in Pass
  BY <1>1, <1>2, <1>4
<1>6. p.attempt < Attempts => [p EXCEPT !.attempt = p.attempt + 1, !.copies = n] \in Pass
  <2> SUFFICES ASSUME p.attempt < Attempts
               PROVE  [p EXCEPT !.attempt = p.attempt + 1, !.copies = n] \in Pass
    OBVIOUS
  <2>1. p.attempt + 1 \in 1 .. Attempts BY <1>4 DEF Attempts
  <2>2. [p EXCEPT !.attempt = p.attempt + 1] \in Pass BY <1>2, <2>1
  <2> QED BY <1>3, <2>2
<1> QED BY <1>5, <1>6

(* Where a sending goes on to the next target, it or the loop moves on.    *)
LEMMA NextTargetTypes ==
  ASSUME TypeOK, NextTarget, runner.phase = "send"
  PROVE  /\ pass' \in Pass /\ runner' \in Runner
         /\ runner'.phase \in {"send", "mark"}
         /\ runner'.schedule = runner.schedule
         /\ runner'.left = runner.left /\ runner'.now = runner.now
         /\ pass'.round = 1 /\ pass'.attempt = 1 /\ pass'.copies = 0
<1> USE DEF TypeOK, Runner
<1>1. CASE pass' = [NoPass EXCEPT !.target = pass.target + 1] /\ UNCHANGED runner
  <2>1. pass.target + 1 \in Nat BY DEF Pass
  <2> QED BY <1>1, <2>1, FreshPass DEF NoPass
<1>2. CASE pass' = NoPass /\ runner' = [runner EXCEPT !.phase = "mark"]
  BY <1>2, FreshPass DEF NoPass
<1> QED BY <1>1, <1>2 DEF NextTarget

(* Every change of the table by a request keeps it a table.                *)
LEMMA RequestTypes ==
  ASSUME TypeOK, NEW s \in Schedules, Changed(s), rows' \in [Schedules -> Row]
  PROVE  TypeOK'
<1> USE DEF TypeOK, Changed, loop, time, Runner
<1>1. edits' \in 0 .. MaxEdits BY SchedulesAssumption
<1>2. reached' \in [Schedules -> Nat] OBVIOUS
<1> QED BY <1>1, <1>2

(* So does every step of the loop.                                         *)
LEMMA LoopTypes ==
  ASSUME TypeOK, LoopStep
  PROVE  TypeOK'
<1> USE DEF TypeOK, database, loop, time, history
<1>0. clock \in Nat /\ 0 \in 0 .. MaxSpan
  BY SchedulesAssumption DEF Moments
<1>1. CASE Wake
  <2>1. DueAt(clock) \subseteq Schedules BY DEF DueAt
  <2> QED BY <1>0, <1>1, <2>1 DEF Wake, Runner
<1>2. CASE EndCycle BY <1>2 DEF EndCycle, Runner
<1>3. CASE Mark
  <2>1. rows' \in [Schedules -> Row] BY <1>0, <1>3 DEF Mark, Row
  <2> QED BY <1>3, <2>1 DEF Mark, Runner
<1>4. CASE Logged BY <1>4 DEF Logged, Runner
<1>5. CASE Restart BY <1>5 DEF Restart, Runner
<1>6. CASE \E s \in Schedules : Begin(s) \/ NotReady(s)
  <2> PICK s \in Schedules : Begin(s) \/ NotReady(s) BY <1>6
  <2>1. CASE Begin(s)
    <3>1. reached' \in [Schedules -> Nat] BY <1>0, <2>1 DEF Begin
    <3> QED BY <2>1, <3>1, FreshPass DEF Begin, Runner
  <2>2. CASE NotReady(s) BY <2>2 DEF NotReady, Runner
  <2> QED BY <2>1, <2>2
<1> DEFINE Sends == /\ UNCHANGED <<database, manual, time, faults, done, steady, disturbed>>
                    /\ Contacted /\ runner.phase = "send"
<1>7. ASSUME Sends, pass' \in Pass, runner' \in Runner,
             runner'.phase \in {"send", "mark", "log"}, runner'.schedule = runner.schedule
      PROVE  TypeOK'
  <2>1. reached' \in [Schedules -> Nat] BY <1>0, <1>7 DEF Contacted
  <2> QED BY <1>7, <2>1
<1> HIDE DEF Sends
<1>8. ASSUME Sends, NextTarget PROVE TypeOK'
  BY <1>7, <1>8, NextTargetTypes DEF Sends
<1>9. ASSUME Sends, pass' \in Pass, UNCHANGED runner PROVE TypeOK'
  BY <1>7, <1>9 DEF Sends
<1>10. CASE PageSent
  <2>1. Sends BY <1>10 DEF PageSent, Sends
  <2>2. CASE pass' = [NoPass EXCEPT !.target = pass.target, !.page = pass.page + 1]
             /\ UNCHANGED runner
    <3>1. pass.target \in Nat /\ pass.page + 1 \in Nat BY DEF Pass
    <3> QED BY <1>9, <2>1, <2>2, <3>1, FreshPass
  <2> QED BY <1>8, <1>10, <2>1, <2>2 DEF PageSent
<1>11. CASE TokenExpired
  <2>1. pass' \in Pass BY <1>11, PassKept DEF TokenExpired
  <2> QED BY <1>9, <1>11, <2>1 DEF TokenExpired, Sends, Sending
<1>12. CASE TargetRefused BY <1>8, <1>12 DEF TargetRefused, Sends, Sending
<1>13. CASE TelegramFails
  <2>1. runner' \in Runner BY <1>13 DEF TelegramFails, Runner
  <2> QED BY <1>7, <1>13, <2>1, FreshPass DEF TelegramFails, Sends, Sending, Runner
<1>14. CASE \E arrived \in BOOLEAN : AttemptLost(arrived)
  <2> PICK arrived \in BOOLEAN : AttemptLost(arrived) BY <1>14
  <2>1. Sends BY DEF AttemptLost, Sends, Sending
  <2>2. CASE pass.attempt < Attempts
    <3> DEFINE n == IF arrived THEN pass.copies + 1 ELSE pass.copies
    <3>0. n \in Nat BY DEF Pass
    <3>1. pass' = [pass EXCEPT !.attempt = pass.attempt + 1, !.copies = n]
      BY <2>2 DEF AttemptLost
    <3> HIDE DEF n
    <3>2. pass' \in Pass BY <2>2, <3>0, <3>1, PassKept
    <3> QED BY <1>9, <2>1, <2>2, <3>2 DEF AttemptLost
  <2> QED BY <1>8, <2>1, <2>2 DEF AttemptLost
<1> QED BY <1>1, <1>2, <1>3, <1>4, <1>5, <1>6, <1>10, <1>11, <1>12, <1>13, <1>14 DEF LoopStep

(* The rows, the loop and what it is sending keep their types.             *)
THEOREM TypeCorrect == Spec => []TypeOK
<1>1. Init => TypeOK
  <2> SUFFICES ASSUME Init PROVE TypeOK OBVIOUS
  <2> USE SchedulesAssumption DEF Init
  <2>1. rows \in [Schedules -> Row] BY DEF Row
  <2>2. runner \in Runner /\ runner.phase = "asleep" BY DEF Runner
  <2>3. clock \in Moments
    <3>1. DayLength * (Days + 1) = DayLength * Days + DayLength /\ DayLength * Days \in Nat
      OBVIOUS
    <3> QED BY <3>1 DEF Moments
  <2>4. span \in 0 .. MaxSpan /\ faults \in 0 .. MaxFaults /\ edits \in 0 .. MaxEdits
    OBVIOUS
  <2>5. reached \in [Schedules -> Nat] /\ done \subseteq Schedules /\ steady \subseteq Schedules
    OBVIOUS
  <2> QED BY <2>1, <2>2, <2>3, <2>4, <2>5, FreshPass DEF TypeOK
<1>2. TypeOK /\ [Next]_vars => TypeOK'
  <2> SUFFICES ASSUME TypeOK, [Next]_vars PROVE TypeOK' OBVIOUS
  <2> USE DEF database, loop, time, history
  <2>1. CASE LoopStep BY <2>1, LoopTypes
  <2>2. CASE Raises \/ Crash
    <3>1. \E phase \in {"asleep", "down"} : Interrupted(phase)
      BY <2>2 DEF Raises, Crash
    <3>2. PICK phase \in {"asleep", "down"} : Interrupted(phase) BY <3>1
    <3>3. manual' \in Schedules \cup {Nothing} BY <2>2 DEF Raises, Crash, TypeOK
    <3>4. runner' \in Runner /\ runner'.phase \in {"asleep", "down"}
      BY <3>2 DEF Interrupted, Runner
    <3>5. faults' \in 0 .. MaxFaults /\ span' \in 0 .. MaxSpan
      BY <3>2, SchedulesAssumption DEF Interrupted, TypeOK
    <3>6. reached' \in [Schedules -> Nat] BY <3>2 DEF Interrupted, TypeOK
    <3> QED BY <3>2, <3>3, <3>4, <3>5, <3>6, FreshPass DEF Interrupted, TypeOK
  <2>3. ASSUME NEW s \in Schedules, NEW t \in Times, Create(s, t) PROVE TypeOK'
    <3>1. rows' \in [Schedules -> Row] BY <2>3 DEF Create, TypeOK, Row
    <3> QED BY <2>3, <3>1, RequestTypes DEF Create
  <2>4. ASSUME NEW s \in Schedules, NEW t \in Times, NEW status \in {"on", "off"},
               Update(s, status, t)
        PROVE  TypeOK'
    <3>1. rows' \in [Schedules -> Row] BY <2>4 DEF Update, TypeOK, Row
    <3> QED BY <2>4, <3>1, RequestTypes DEF Update
  <2>5. ASSUME NEW s \in Schedules, Delete(s) PROVE TypeOK'
    <3>1. rows' \in [Schedules -> Row] BY <2>5 DEF Delete, TypeOK, Row
    <3> QED BY <2>5, <3>1, RequestTypes DEF Delete
  <2>6. ASSUME NEW s \in Schedules, SendNow(s) PROVE TypeOK'
    BY <2>6 DEF SendNow, TypeOK
  <2>7. CASE SendNowEnds BY <2>7 DEF SendNowEnds, TypeOK
  <2>8. CASE Tick
    <3>1. span' \in 0 .. MaxSpan BY <2>8, SchedulesAssumption DEF Tick, TypeOK
    <3>2. /\ reached' = reached /\ done' \subseteq Schedules
          /\ steady' \subseteq Schedules /\ disturbed' \in BOOLEAN
      BY <2>8 DEF Tick, TypeOK
    <3> QED BY <2>8, <3>1, <3>2 DEF Tick, TypeOK
  <2>9. CASE UNCHANGED vars BY <2>9 DEF vars, TypeOK
  <2> QED BY <2>1, <2>2, <2>3, <2>4, <2>5, <2>6, <2>7, <2>8, <2>9 DEF Next
<1> QED BY <1>1, <1>2, PTL DEF Spec
-----------------------------------------------------------------------------
(* How often a page may be sent                                            *)

(* Each attempt leaves one copy at most, and there are two rounds of them. *)
CopiesInv ==
  /\ pass.round = 1 => pass.copies <= pass.attempt - 1
  /\ pass.copies <= (Attempts - 1) + (pass.attempt - 1)

(* What it is made of moves only while messages are sent.                  *)
LEMMA CopiesKept ==
  ASSUME TypeOK, CopiesInv, [Next]_vars
  PROVE  CopiesInv'
<1> USE DEF database, loop, time, history
<1>0. pass.attempt \in 1 .. 3 /\ pass.copies \in Nat /\ pass.round \in {1, 2}
  BY DEF TypeOK, Pass, Attempts
<1>1. ASSUME pass' = pass PROVE CopiesInv'
  BY <1>1 DEF CopiesInv
<1>2. ASSUME pass'.round = 1, pass'.attempt = 1, pass'.copies = 0 PROVE CopiesInv'
  BY <1>2 DEF CopiesInv, Attempts
<1>3. ASSUME pass' = NoPass PROVE CopiesInv'
  BY <1>2, <1>3 DEF NoPass
<1>4. ASSUME NextTarget, runner.phase = "send" PROVE CopiesInv'
  BY <1>2, <1>4, NextTargetTypes
<1>5. CASE LoopStep
  <2>1. CASE PageSent
    <3>1. CASE pass' = [NoPass EXCEPT !.target = pass.target, !.page = pass.page + 1]
      BY <1>2, <3>1 DEF NoPass
    <3> QED BY <1>4, <2>1, <3>1 DEF PageSent
  <2>2. CASE TokenExpired
    <3>1. pass' = [pass EXCEPT !.round = 2, !.attempt = 1] /\ pass.round = 1
      BY <2>2 DEF TokenExpired
    <3>2. pass'.round = 2 /\ pass'.attempt = 1 /\ pass'.copies = pass.copies
      BY <3>1 DEF TypeOK, Pass
    <3> QED BY <1>0, <3>1, <3>2 DEF CopiesInv, Attempts
  <2>3. CASE TargetRefused BY <1>4, <2>3 DEF TargetRefused, Sending
  <2>4. CASE TelegramFails BY <1>3, <2>4 DEF TelegramFails
  <2>5. CASE \E arrived \in BOOLEAN : AttemptLost(arrived)
    <3> PICK arrived \in BOOLEAN : AttemptLost(arrived) BY <2>5
    <3>1. CASE pass.attempt < Attempts
      <4>1. pass' = [pass EXCEPT !.attempt = pass.attempt + 1,
                                 !.copies = IF arrived THEN pass.copies + 1 ELSE pass.copies]
        BY <3>1 DEF AttemptLost
      <4>2. /\ pass'.round = pass.round /\ pass'.attempt = pass.attempt + 1
            /\ pass'.copies \in {pass.copies, pass.copies + 1}
        BY <4>1 DEF TypeOK, Pass
      <4> QED BY <1>0, <4>2 DEF CopiesInv, Attempts
    <3> QED BY <1>4, <3>1 DEF AttemptLost, Sending
  <2>6. CASE \E s \in Schedules : Begin(s) \/ NotReady(s)
    BY <1>1, <1>3, <2>6 DEF Begin, NotReady
  <2>7. CASE Wake \/ EndCycle \/ Mark \/ Logged \/ Restart
    BY <1>1, <2>7 DEF Wake, EndCycle, Mark, Logged, Restart
  <2> QED BY <1>5, <2>1, <2>2, <2>3, <2>4, <2>5, <2>6, <2>7 DEF LoopStep
<1>6. CASE Raises \/ Crash
  BY <1>3, <1>6 DEF Raises, Crash, Interrupted
<1>7. CASE \E s \in Schedules :
             \/ \E t \in Times :
                  Create(s, t) \/ \E status \in {"on", "off"} : Update(s, status, t)
             \/ Delete(s) \/ SendNow(s)
  BY <1>1, <1>7 DEF Create, Update, Delete, SendNow, Changed
<1>8. CASE SendNowEnds \/ Tick \/ UNCHANGED vars
  BY <1>1, <1>8 DEF SendNowEnds, Tick, vars
<1> QED BY <1>5, <1>6, <1>7, <1>8 DEF Next

(* Whatever the gateway answers, one pass sends a page to a chat at most   *)
(* five times: four copies from attempts without an answer, and the last.  *)
THEOREM CopiesAlwaysBounded == Spec => []CopiesBounded
<1>1. Init => CopiesInv
  BY DEF Init, NoPass, CopiesInv, Attempts
<1>2. TypeOK /\ CopiesInv => CopiesBounded
  <2>1. TypeOK => pass.attempt \in 1 .. 3 /\ pass.copies \in Nat
    BY DEF TypeOK, Pass, Attempts
  <2> QED BY <2>1 DEF CopiesInv, CopiesBounded, Attempts
<1>3. TypeOK /\ CopiesInv /\ [Next]_vars => CopiesInv'
  BY CopiesKept
<1> QED BY <1>1, <1>2, <1>3, TypeCorrect, PTL DEF Spec

-----------------------------------------------------------------------------
(* No tight retries                                                        *)

InHand(s) == runner.phase \in {"send", "mark"} /\ runner.schedule = s

(* Moment m does not lie before the first run of a schedule that has one.  *)
PastFirst(s, m) ==
  Config[s].type = "interval" /\ Config[s].starts # 0
    => m >= DayLength * Config[s].starts + rows[s].time

(* What was sent is covered by the mark, as soon as the pass is over; and  *)
(* what is still due has waited.                                           *)
Waited(s) ==
  /\ reached[s] <= clock /\ rows[s].lastRun <= clock
  /\ reached[s] # 0 /\ ~InHand(s)
       => reached[s] <= rows[s].lastRun /\ PastFirst(s, rows[s].lastRun)
  /\ reached[s] # 0 /\ InHand(s) => PastFirst(s, clock)
  /\ s \in runner.left =>
       /\ ~InHand(s)
       /\ Started(s, runner.now)
       /\ s \in steady => PastFirst(s, clock)
       /\ reached[s] # 0 => OnTime(s)

RetryInv ==
  /\ runner.now <= clock
  /\ \A s \in Schedules : Config[s].channel = "whatsapp" => Waited(s)

(* The numbers that are compared                                           *)
LEMMA Numbers ==
  ASSUME TypeOK, NEW s \in Schedules
  PROVE  /\ clock \in Nat \ {0} /\ runner.now \in Nat
         /\ reached[s] \in Nat /\ rows[s].lastRun \in Nat /\ rows[s].time \in Times
         /\ Config[s].starts \in Nat /\ Config[s].interval \in Nat \ {0}
         /\ DayLength * Config[s].starts \in Nat
<1>1. clock \in Nat \ {0}
  <2>1. DayLength * (Days + 1) \in Nat BY SchedulesAssumption
  <2> QED BY <2>1, SchedulesAssumption DEF TypeOK, Moments
<1>2. Config[s] \in ConfigType BY SchedulesAssumption
<1>3. Config[s].starts \in Nat /\ Config[s].interval \in Nat \ {0}
  BY <1>2 DEF ConfigType
<1>4. DayLength * Config[s].starts \in Nat BY <1>3, SchedulesAssumption
<1> QED BY <1>1, <1>3, <1>4 DEF TypeOK, Runner, Row

(* Where a schedule has a first day, its first run is on that day.         *)
LEMMA FirstRunOf ==
  ASSUME NEW s \in Schedules, NEW m \in Nat, Config[s].starts # 0
  PROVE  FirstRun(s, m) = DayLength * Config[s].starts + rows[s].time
BY DEF FirstRun

(* What is due now, although something was sent before, has waited for it. *)
LEMMA DueHasWaited ==
  ASSUME TypeOK, NEW s \in Schedules, IsDue(s, clock), Waited(s), ~InHand(s)
  PROVE  /\ Started(s, clock)
         /\ PastFirst(s, clock)
         /\ reached[s] # 0 =>
              IF Config[s].type = "daily"
              THEN Day(clock) > Day(reached[s])
              ELSE clock >= reached[s] + Config[s].interval
<1>1. Started(s, clock) BY DEF IsDue
<1>2. PastFirst(s, clock)
  <2> SUFFICES ASSUME Config[s].type = "interval", Config[s].starts # 0
               PROVE  clock >= FirstRun(s, clock)
    BY Numbers, FirstRunOf DEF PastFirst
  <2>1. IntervalDue(s, clock) BY DEF IsDue
  <2>2. FirstRun(s, clock) \in Nat
    BY Numbers, FirstRunOf, SchedulesAssumption DEF Times
  <2> QED BY <2>1, <2>2, Numbers DEF IntervalDue, NeverRan, Waited
<1>3. ASSUME reached[s] # 0, Config[s].type = "daily" PROVE Day(clock) > Day(reached[s])
  <2>1. Day(rows[s].lastRun) # Day(clock) BY <1>3 DEF IsDue, DailyDue
  <2>2. /\ Day(reached[s]) <= Day(rows[s].lastRun)
        /\ Day(rows[s].lastRun) <= Day(clock)
    BY <1>3, Numbers, DayMonotone DEF Waited
  <2> QED BY <2>1, <2>2, Numbers, DayBounds
<1>4. ASSUME reached[s] # 0, Config[s].type # "daily"
      PROVE  clock >= reached[s] + Config[s].interval
  <2>1. Config[s].type = "interval"
    <3>1. Config[s] \in ConfigType BY SchedulesAssumption
    <3> QED BY <1>4, <3>1 DEF ConfigType
  <2>2. IntervalDue(s, clock) BY <2>1 DEF IsDue
  <2>3. reached[s] <= rows[s].lastRun /\ PastFirst(s, rows[s].lastRun)
    BY <1>4 DEF Waited
  <2>4. ~NeverRan(s, clock)
    <3>1. rows[s].lastRun # 0 BY <1>4, <2>3, Numbers
    <3>2. ASSUME Config[s].starts # 0 PROVE ~(rows[s].lastRun < FirstRun(s, clock))
      BY <2>1, <2>3, <3>2, FirstRunOf, Numbers DEF PastFirst, Times
    <3> QED BY <3>1, <3>2 DEF NeverRan
  <2>5. clock - rows[s].lastRun >= Config[s].interval
    BY <2>2, <2>4 DEF IntervalDue
  <2> QED BY <2>3, <2>5, Numbers
<1> QED BY <1>1, <1>2, <1>3, <1>4

(* A step that neither touches a schedule nor lets time pass *)
Aside(s) ==
  /\ rows'[s] = rows[s] /\ reached'[s] = reached[s] /\ clock' = clock
  /\ InHand(s)' <=> InHand(s)
  /\ s \in runner'.left => s \in runner.left /\ runner'.now = runner.now
  /\ s \in steady' => s \in steady

(* It keeps what is known of the schedule.                                 *)
LEMMA AsideWaits ==
  ASSUME NEW s \in Schedules, Waited(s), Aside(s)
  PROVE  Waited(s)'
BY DEF Waited, Aside, PastFirst, Started, OnTime

(* Sending moves the time of the last message of the schedule in hand, if  *)
(* it is kept at all, and keeps the schedule in hand.                      *)
LEMMA SendingWaits ==
  ASSUME TypeOK, NEW s \in Schedules, Waited(s), runner.phase = "send", Contacted,
         runner'.phase \in {"send", "mark"}, runner'.schedule = runner.schedule,
         runner'.left = runner.left, runner'.now = runner.now,
         UNCHANGED <<rows, clock, steady>>
  PROVE  Waited(s)'
<1>0. runner.schedule \in Schedules BY DEF TypeOK
<1>1. CASE runner.schedule = s
  <2>1. InHand(s) /\ InHand(s)' BY <1>1 DEF InHand
  <2>2. reached'[s] = IF reached[s] = 0 THEN 0 ELSE clock
    BY <1>1 DEF Contacted, TypeOK
  <2>3. s \notin runner'.left BY <2>1 DEF Waited
  <2> QED BY <2>1, <2>2, <2>3, Numbers DEF Waited, PastFirst
<1>2. CASE runner.schedule # s
  <2>1. reached'[s] = reached[s] BY <1>2 DEF Contacted, TypeOK
  <2> QED BY <1>2, <2>1, AsideWaits DEF Aside, InHand
<1> QED BY <1>1, <1>2

(* Each step of the loop keeps what is known of a schedule on WhatsApp.    *)
LEMMA LoopWaits ==
  ASSUME TypeOK, NEW s \in Schedules, Config[s].channel = "whatsapp", Waited(s), LoopStep,
         runner.now <= clock
  PROVE  Waited(s)'
<1> USE DEF database, loop, time, history
<1>1. CASE Wake
  <2>1. ~InHand(s) /\ ~InHand(s)' BY <1>1 DEF Wake, InHand, TypeOK, Runner
  <2>2. /\ runner'.now = clock /\ runner'.left = DueAt(clock)
        /\ UNCHANGED <<rows, reached, clock, steady>>
    BY <1>1 DEF Wake, TypeOK, Runner
  <2>3. s \in runner'.left => IsDue(s, clock) BY <2>2 DEF DueAt
  <2> QED BY <2>1, <2>2, <2>3, DueHasWaited DEF Waited, PastFirst, Started, OnTime
<1>2. CASE EndCycle \/ Logged \/ Restart
  BY <1>2, AsideWaits DEF EndCycle, Logged, Restart, Aside, InHand, TypeOK, Runner
<1>3. CASE Mark
  <2>1. CASE runner.schedule = s
    <3>1. InHand(s) /\ ~InHand(s)' BY <1>3, <2>1 DEF Mark, InHand, TypeOK, Runner
    <3>2. rows'[s].lastRun = clock /\ rows'[s].time = rows[s].time
      BY <1>3, <2>1 DEF Mark, TypeOK, Row
    <3>3. s \notin runner'.left BY <1>3, <3>1 DEF Mark, Waited, TypeOK, Runner
    <3>4. UNCHANGED <<reached, clock>> BY <1>3 DEF Mark
    <3> QED BY <3>1, <3>2, <3>3, <3>4, Numbers DEF Waited, PastFirst
  <2>2. CASE runner.schedule # s
    BY <1>3, <2>2, AsideWaits DEF Mark, Aside, InHand, TypeOK, Runner
  <2> QED BY <2>1, <2>2
<1>4. ASSUME NEW r \in Schedules, Begin(r) PROVE Waited(s)'
  <2>1. CASE r = s
    <3>1. InHand(s)' /\ s \in runner.left /\ s \notin runner'.left
      BY <1>4, <2>1 DEF Begin, InHand, TypeOK, Runner
    <3>2. /\ reached'[s] = IF s \in steady THEN clock ELSE 0
          /\ UNCHANGED <<rows, clock>>
      BY <1>4, <2>1 DEF Begin, TypeOK
    <3> QED BY <3>1, <3>2, Numbers DEF Waited, PastFirst
  <2>2. CASE r # s
    BY <1>4, <2>2, AsideWaits DEF Begin, Aside, InHand, TypeOK, Runner
  <2> QED BY <2>1, <2>2
<1>5. ASSUME NEW r \in Schedules, NotReady(r) PROVE Waited(s)'
  BY <1>5, AsideWaits DEF NotReady, Aside, InHand, TypeOK, Runner
<1>6. ASSUME runner.phase = "send", Contacted, NextTarget, UNCHANGED <<rows, clock, steady>>
      PROVE  Waited(s)'
  BY <1>6, NextTargetTypes, SendingWaits
<1>7. ASSUME runner.phase = "send", Contacted, UNCHANGED <<runner, rows, clock, steady>>
      PROVE  Waited(s)'
  BY <1>7, SendingWaits
<1>8. CASE PageSent BY <1>6, <1>7, <1>8 DEF PageSent
<1>9. CASE TokenExpired BY <1>7, <1>9 DEF TokenExpired, Sending
<1>10. CASE TargetRefused BY <1>6, <1>10 DEF TargetRefused, Sending
<1>11. CASE TelegramFails
  <2>1. runner.schedule # s /\ runner.schedule \in Schedules
    BY <1>11 DEF TelegramFails, Sending, TypeOK
  <2>2. reached'[s] = reached[s] BY <1>11, <2>1 DEF TelegramFails, Contacted, TypeOK
  <2> QED BY <1>11, <2>1, <2>2, AsideWaits DEF TelegramFails, Aside, InHand, TypeOK, Runner
<1>12. ASSUME NEW arrived \in BOOLEAN, AttemptLost(arrived) PROVE Waited(s)'
  BY <1>6, <1>7, <1>12 DEF AttemptLost, Sending
<1> QED BY <1>1, <1>2, <1>3, <1>4, <1>5, <1>8, <1>9, <1>10, <1>11, <1>12 DEF LoopStep

(* So does a change of a schedule: what was sent before does not count.    *)
LEMMA ChangeWaits ==
  ASSUME TypeOK, NEW s \in Schedules, Waited(s), NEW r \in Schedules, Changed(r),
         \A q \in Schedules : q # r => rows'[q] = rows[q],
         rows'[r].lastRun \in {0, rows[r].lastRun}
  PROVE  Waited(s)'
<1> USE DEF loop, time
<1>1. CASE r = s
  <2>1. /\ reached'[s] = 0 /\ s \notin steady'
        /\ UNCHANGED <<runner, clock>>
    BY <1>1 DEF Changed, TypeOK
  <2> QED BY <1>1, <2>1, Numbers DEF Waited, InHand, Started
<1>2. CASE r # s
  <2>1. reached'[s] = reached[s] /\ (s \in steady' => s \in steady)
    BY <1>2 DEF Changed, TypeOK
  <2> QED BY <1>2, <2>1, AsideWaits DEF Changed, Aside, InHand
<1> QED BY <1>1, <1>2

(* So does time: a schedule that is still due after midnight was due on a  *)
(* day that is over, and its first run, if it has one, was then.           *)
LEMMA TimeWaits ==
  ASSUME TypeOK, NEW s \in Schedules, Waited(s), Tick, runner.now <= clock
  PROVE  Waited(s)'
<1> USE DEF database, loop, time, history
<1>1. /\ clock' = clock + 1 /\ UNCHANGED <<rows, runner, reached>>
      /\ Day(clock + 1) = Day(clock) => steady' = steady
  BY DEF Tick
<1>2. InHand(s)' <=> InHand(s) BY <1>1 DEF InHand
<1>3. ASSUME NEW m \in Nat, PastFirst(s, m), NEW n \in Nat, m <= n PROVE PastFirst(s, n)'
  BY <1>1, <1>3, Numbers DEF PastFirst, Times
<1>4. ASSUME s \in runner.left, s \in steady' PROVE PastFirst(s, clock)'
  <2>1. CASE Day(clock + 1) = Day(clock)
    BY <1>1, <1>3, <1>4, <2>1, Numbers DEF Waited
  <2>2. CASE Day(clock + 1) # Day(clock)
    <3> DEFINE first == Config[s].starts
               today == Day(clock + 1)
    <3> SUFFICES ASSUME first # 0 PROVE clock + 1 >= DayLength * first + rows[s].time
      BY <1>1 DEF PastFirst
    <3>1. first <= Day(runner.now) BY <1>4 DEF Waited, Started
    <3>2. Day(runner.now) <= Day(clock) /\ Day(clock) <= today
      BY Numbers, DayMonotone
    <3>3. first \in Nat /\ today \in Nat /\ Day(runner.now) \in Nat /\ Day(clock) \in Nat
      BY Numbers, DayBounds
    <3>4. first + 1 <= today BY <2>2, <3>1, <3>2, <3>3
    <3>5. DayLength * today <= clock + 1 BY Numbers, DayBounds
    <3> HIDE DEF first, today
    <3>6. DayLength * (first + 1) <= DayLength * today BY <3>3, <3>4, SchedulesAssumption
    <3>7. DayLength * (first + 1) = DayLength * first + DayLength BY <3>3, SchedulesAssumption
    <3>8. /\ rows[s].time \in 0 .. DayLength - 1 /\ DayLength * first \in Nat
          /\ DayLength * today \in Nat
      BY <3>3, Numbers, SchedulesAssumption DEF Times
    <3> QED BY <3>5, <3>6, <3>7, <3>8, Numbers, SchedulesAssumption
  <2> QED BY <2>1, <2>2
<1>5. s \in runner'.left =>
        /\ ~InHand(s)' /\ Started(s, runner.now)' /\ (reached[s] # 0 => OnTime(s))'
  BY <1>1, <1>2 DEF Waited, Started, OnTime
<1>6. /\ (reached[s] # 0 /\ ~InHand(s) => PastFirst(s, rows[s].lastRun))'
      /\ (reached[s] # 0 /\ InHand(s) => PastFirst(s, clock))'
  BY <1>1, <1>2, <1>3, Numbers DEF Waited
<1> QED BY <1>1, <1>2, <1>4, <1>5, <1>6, Numbers DEF Waited

(* So does a fault: a pass that was cut off does not count.                *)
LEMMA FaultWaits ==
  ASSUME TypeOK, NEW s \in Schedules, Waited(s), NEW phase \in {"asleep", "down"},
         Interrupted(phase)
  PROVE  Waited(s)'
<1>1. /\ runner'.left = {} /\ ~InHand(s)'
      /\ UNCHANGED <<rows, clock>>
      /\ reached'[s] = IF InHand(s) THEN 0 ELSE reached[s]
  BY DEF Interrupted, InHand, TypeOK, database
<1> QED BY <1>1, Numbers DEF Waited, PastFirst

(* A cycle looks at no moment that is still to come.                       *)
LEMMA NowIsPast ==
  ASSUME TypeOK, runner.now <= clock, [Next]_vars
  PROVE  (runner.now <= clock)'
<1> USE DEF database, loop, time, history
<1>0. clock \in Nat /\ runner.now \in Nat
  <2>1. DayLength * (Days + 1) \in Nat BY SchedulesAssumption
  <2> QED BY <2>1, SchedulesAssumption DEF TypeOK, Moments, Runner
<1>1. ASSUME runner'.now \in {0, runner.now}, clock' \in {clock, clock + 1}
      PROVE  (runner.now <= clock)'
  BY <1>0, <1>1
<1>2. ASSUME runner.phase = "send", NextTarget PROVE runner'.now = runner.now
  BY <1>2, NextTargetTypes
<1>3. CASE LoopStep
  <2>1. CASE Wake BY <1>0, <2>1 DEF Wake, TypeOK, Runner
  <2>2. CASE EndCycle \/ Mark \/ Logged \/ Restart
    BY <1>1, <2>2 DEF EndCycle, Mark, Logged, Restart, TypeOK, Runner
  <2>3. CASE \E s \in Schedules : Begin(s) \/ NotReady(s)
    BY <1>1, <2>3 DEF Begin, NotReady, TypeOK, Runner
  <2>4. CASE PageSent BY <1>1, <1>2, <2>4 DEF PageSent
  <2>5. CASE TokenExpired \/ TargetRefused
    BY <1>1, <1>2, <2>5 DEF TokenExpired, TargetRefused, Sending
  <2>6. CASE TelegramFails BY <1>1, <2>6 DEF TelegramFails, TypeOK, Runner
  <2>7. CASE \E arrived \in BOOLEAN : AttemptLost(arrived)
    BY <1>1, <1>2, <2>7 DEF AttemptLost, Sending
  <2> QED BY <1>3, <2>1, <2>2, <2>3, <2>4, <2>5, <2>6, <2>7 DEF LoopStep
<1>4. CASE Raises \/ Crash BY <1>1, <1>4 DEF Raises, Crash, Interrupted
<1>5. CASE \E s \in Schedules :
             \/ \E t \in Times :
                  Create(s, t) \/ \E status \in {"on", "off"} : Update(s, status, t)
             \/ Delete(s) \/ SendNow(s)
  BY <1>1, <1>5 DEF Create, Update, Delete, SendNow, Changed
<1>6. CASE SendNowEnds \/ Tick \/ UNCHANGED vars
  BY <1>1, <1>6 DEF SendNowEnds, Tick, vars
<1> QED BY <1>3, <1>4, <1>5, <1>6 DEF Next

(* Every step keeps what is known of the schedules on WhatsApp.            *)
LEMMA RetryKept ==
  ASSUME TypeOK, RetryInv, [Next]_vars
  PROVE  RetryInv'
<1>1. (runner.now <= clock)' BY NowIsPast DEF RetryInv
<1>2. SUFFICES ASSUME NEW s \in Schedules, Config[s].channel = "whatsapp" PROVE Waited(s)'
  BY <1>1 DEF RetryInv
<1>3. Waited(s) /\ runner.now <= clock BY <1>2 DEF RetryInv
<1> USE DEF database, loop, time, history
<1>4. CASE LoopStep BY <1>2, <1>3, <1>4, LoopWaits
<1>5. CASE Raises \/ Crash
  <2>1. PICK phase \in {"asleep", "down"} : Interrupted(phase) BY <1>5 DEF Raises, Crash
  <2> QED BY <1>3, <2>1, FaultWaits
<1>6. ASSUME NEW r \in Schedules, NEW t \in Times, Create(r, t) PROVE Waited(s)'
  <2>1. \A q \in Schedules : q # r => rows'[q] = rows[q] BY <1>6 DEF Create, TypeOK
  <2>2. rows'[r].lastRun = 0 BY <1>6 DEF Create, TypeOK
  <2>3. Changed(r) BY <1>6 DEF Create
  <2> QED BY <1>3, <2>1, <2>2, <2>3, ChangeWaits
<1>7. ASSUME NEW r \in Schedules, NEW t \in Times, NEW status \in {"on", "off"},
             Update(r, status, t)
      PROVE  Waited(s)'
  <2>1. \A q \in Schedules : q # r => rows'[q] = rows[q] BY <1>7 DEF Update, TypeOK
  <2>2. rows'[r].lastRun = rows[r].lastRun BY <1>7 DEF Update, TypeOK, Row
  <2>3. Changed(r) BY <1>7 DEF Update
  <2> QED BY <1>3, <2>1, <2>2, <2>3, ChangeWaits
<1>8. ASSUME NEW r \in Schedules, Delete(r) PROVE Waited(s)'
  <2>1. \A q \in Schedules : q # r => rows'[q] = rows[q] BY <1>8 DEF Delete, TypeOK
  <2>2. rows'[r].lastRun = rows[r].lastRun BY <1>8 DEF Delete, TypeOK, Row
  <2>3. Changed(r) BY <1>8 DEF Delete
  <2> QED BY <1>3, <2>1, <2>2, <2>3, ChangeWaits
<1>9. ASSUME NEW r \in Schedules, SendNow(r) PROVE Waited(s)'
  BY <1>3, <1>9, AsideWaits DEF SendNow, Aside, InHand
<1>10. CASE SendNowEnds \/ UNCHANGED vars
  BY <1>3, <1>10, AsideWaits DEF SendNowEnds, vars, Aside, InHand
<1>11. CASE Tick BY <1>3, <1>11, TimeWaits
<1> QED BY <1>4, <1>5, <1>6, <1>7, <1>8, <1>9, <1>10, <1>11 DEF Next

(* A pass begins with a schedule that is left, hence one that has waited.  *)
LEMMA BeginsOnTime ==
  ASSUME TypeOK, RetryInv, [Next]_vars, NEW s \in Schedules, Begins(s),
         Config[s].channel = "whatsapp", reached[s] # 0
  PROVE  OnTime(s)
<1> USE DEF database, loop, time, history
<1>1. runner.phase = "scan" /\ runner'.phase = "send" /\ runner'.schedule = s
  BY DEF Begins
<1>2. \E r \in Schedules : Begin(r)
  <2>1. CASE LoopStep
    BY <1>1, <2>1 DEF LoopStep, Wake, EndCycle, Mark, Logged, Restart, NotReady, PageSent,
       TokenExpired, TargetRefused, TelegramFails, AttemptLost, Sending, TypeOK, Runner
  <2>2. CASE Raises \/ Crash BY <1>1, <2>2 DEF Raises, Crash, Interrupted
  <2>3. ASSUME runner' = runner PROVE FALSE BY <1>1, <2>3
  <2>4. CASE \E r \in Schedules :
               \/ \E t \in Times :
                    Create(r, t) \/ \E status \in {"on", "off"} : Update(r, status, t)
               \/ Delete(r) \/ SendNow(r)
    BY <2>3, <2>4 DEF Create, Update, Delete, SendNow, Changed
  <2>5. CASE SendNowEnds \/ Tick \/ UNCHANGED vars
    BY <2>3, <2>5 DEF SendNowEnds, Tick, vars
  <2> QED BY <2>1, <2>2, <2>4, <2>5 DEF Next
<1>3. PICK r \in Schedules : Begin(r) BY <1>2
<1>4. r = s BY <1>1, <1>3 DEF Begin, TypeOK, Runner
<1> QED BY <1>3, <1>4 DEF Begin, RetryInv, Waited

(* Whatever the gateway answers and however often a pass fails, a schedule *)
(* on WhatsApp waits for its next day or its interval before it sends      *)
(* again.                                                                  *)
THEOREM NoRetryTooEarly == Spec => NoTightRetry
<1>1. Init => RetryInv
  <2> SUFFICES ASSUME Init PROVE RetryInv OBVIOUS
  <2>1. runner.now <= clock /\ 0 <= clock BY SchedulesAssumption DEF Init
  <2>2. ASSUME NEW s \in Schedules PROVE Waited(s)
    <3>1. reached[s] = 0 /\ rows[s].lastRun = 0 /\ runner.left = {} BY DEF Init
    <3> QED BY <2>1, <3>1 DEF Waited
  <2> QED BY <2>1, <2>2 DEF RetryInv
<1>2. TypeOK /\ RetryInv /\ [Next]_vars => RetryInv' BY RetryKept
<1>3. TypeOK /\ RetryInv /\ [Next]_vars =>
        [\A s \in Schedules :
           Begins(s) /\ Config[s].channel = "whatsapp" /\ reached[s] # 0 => OnTime(s)]_vars
  BY BeginsOnTime
<1> QED BY <1>1, <1>2, <1>3, TypeCorrect, PTL DEF Spec, NoTightRetry

-----------------------------------------------------------------------------
(* That nobody is passed over                                              *)

(* The phases of a cycle that is under way                                 *)
Passing == {"scan", "send", "mark", "log"}

(* A cycle that looks at the moment m finds that the day's pass is due     *)
Expects(s, m) == InSeason(s, m) /\ rows[s].time <= TimeOf(m)

(* A daily schedule that was run today is done; while a cycle that began   *)
(* today goes on, it is done, in hand or still to come; and once one has   *)
(* ended in this slot, it is done.                                         *)
Served(s) ==
  /\ s \in steady => rows[s].status = "on"
  /\ rows[s].lastRun <= clock
  /\ Day(rows[s].lastRun) = Day(clock) => s \in done
  /\ s \in steady /\ ~disturbed =>
       /\ runner.phase \in Passing /\ Expects(s, runner.now)
            => s \in runner.left \/ InHand(s) \/ s \in done
       /\ cycled /\ Expects(s, clock) => s \in done

(* A cycle that began yesterday makes the day a disturbed one.             *)
ServedInv ==
  /\ ~disturbed /\ runner.phase \in Passing => Day(runner.now) = Day(clock)
  /\ \A s \in Schedules : Healthy(s) /\ Config[s].type = "daily" => Served(s)

(* A step that leaves a schedule, the loop's place and time alone          *)
Unmoved(s) ==
  /\ rows'[s] = rows[s] /\ clock' = clock /\ cycled' = cycled
  /\ done \subseteq done' /\ steady' \subseteq steady /\ disturbed' = disturbed
  /\ runner'.phase \in Passing => runner.phase \in Passing /\ runner'.now = runner.now
  /\ s \in runner.left => s \in runner'.left \/ InHand(s)'
  /\ InHand(s) => InHand(s)' \/ s \in done'

(* It keeps what is known of it.                                           *)
LEMMA UnmovedServed ==
  ASSUME NEW s \in Schedules, Served(s), Unmoved(s)
  PROVE  Served(s)'
BY DEF Served, Unmoved, Expects, InSeason, Started, NotOver

(* What is not due now although it is expected has been done.              *)
LEMMA NotDueIsDone ==
  ASSUME TypeOK, NEW s \in Schedules, Served(s), Config[s].type = "daily", s \in steady,
         Expects(s, clock), s \notin DueAt(clock)
  PROVE  s \in done
<1>1. rows[s].status = "on" BY DEF Served
<1>2. ~DailyDue(s, clock) BY <1>1 DEF DueAt, IsDue, Expects, InSeason
<1> QED BY <1>2 DEF DailyDue, Expects, Served

(* Each step of the loop keeps what is known of a daily schedule.          *)
LEMMA LoopServes ==
  ASSUME TypeOK, NEW s \in Schedules, Healthy(s), Config[s].type = "daily", Served(s), LoopStep
  PROVE  Served(s)'
<1> USE DEF database, loop, time, history
<1>1. CASE Wake
  <2>1. /\ runner'.now = clock /\ runner'.left = DueAt(clock)
        /\ UNCHANGED <<rows, clock, cycled, done, steady, disturbed>>
    BY <1>1 DEF Wake, TypeOK, Runner
  <2>2. s \in steady /\ Expects(s, clock) => s \in DueAt(clock) \/ s \in done
    BY NotDueIsDone
  <2> QED BY <2>1, <2>2 DEF Served, Expects, InSeason, Started, NotOver
<1>2. CASE EndCycle
  <2>1. /\ runner.phase = "scan" /\ runner.left = {} /\ ~InHand(s)
        /\ runner'.phase = "asleep" /\ (cycled' <=> cycled \/ runner.now = clock)
        /\ UNCHANGED <<rows, clock, done, steady, disturbed>>
    BY <1>2 DEF EndCycle, InHand, TypeOK, Runner
  <2>2. s \in steady /\ ~disturbed /\ Expects(s, runner.now) => s \in done
    BY <2>1 DEF Served, Passing
  <2> QED BY <2>1, <2>2 DEF Served, Passing, Expects, InSeason, Started, NotOver
<1>3. CASE Mark
  <2>1. CASE runner.schedule = s
    <3>1. rows'[s].lastRun = clock /\ rows'[s].status = rows[s].status /\ s \in done'
      BY <1>3, <2>1 DEF Mark, TypeOK, Row
    <3>2. UNCHANGED <<clock, steady>> BY <1>3 DEF Mark
    <3> QED BY <3>1, <3>2, Numbers DEF Served
  <2>2. CASE runner.schedule # s
    BY <1>3, <2>2, UnmovedServed DEF Mark, Unmoved, InHand, TypeOK, Runner, Passing
  <2> QED BY <2>1, <2>2
<1>4. CASE Logged \/ Restart
  BY <1>4, UnmovedServed DEF Logged, Restart, Unmoved, InHand, TypeOK, Runner, Passing
<1>5. ASSUME NEW r \in Schedules, Begin(r) PROVE Served(s)'
  BY <1>5, UnmovedServed DEF Begin, Unmoved, InHand, TypeOK, Runner, Passing
<1>6. ASSUME NEW r \in Schedules, NotReady(r) PROVE Served(s)'
  BY <1>6, UnmovedServed DEF NotReady, Unmoved, InHand, TypeOK, Runner, Passing, Healthy
<1>7. ASSUME runner.phase = "send",
             \/ NextTarget
             \/ UNCHANGED runner
             \/ runner' = [runner EXCEPT !.phase = "log"] /\ runner.schedule # s,
             UNCHANGED <<rows, clock, cycled, done, steady, disturbed>>
      PROVE  Served(s)'
  <2>1. /\ runner'.left = runner.left /\ runner'.now = runner.now
        /\ InHand(s) => InHand(s)'
    BY <1>7, NextTargetTypes DEF InHand, TypeOK, Runner
  <2> QED BY <1>7, <2>1, UnmovedServed DEF Unmoved, Passing
<1>8. CASE PageSent BY <1>7, <1>8 DEF PageSent
<1>9. CASE TokenExpired \/ TargetRefused
  BY <1>7, <1>9 DEF TokenExpired, TargetRefused, Sending
<1>10. CASE TelegramFails
  <2>1. runner.schedule # s BY <1>10 DEF TelegramFails, Sending, Healthy
  <2> QED BY <1>7, <1>10, <2>1 DEF TelegramFails, Sending
<1>11. ASSUME NEW arrived \in BOOLEAN, AttemptLost(arrived) PROVE Served(s)'
  BY <1>7, <1>11 DEF AttemptLost, Sending
<1> QED BY <1>1, <1>2, <1>3, <1>4, <1>5, <1>6, <1>8, <1>9, <1>10, <1>11 DEF LoopStep

(* So does a change of a schedule: it is no longer one that nobody has     *)
(* changed.                                                                *)
LEMMA ChangeServes ==
  ASSUME TypeOK, NEW s \in Schedules, Served(s), NEW r \in Schedules, Changed(r),
         \A q \in Schedules : q # r => rows'[q] = rows[q],
         rows'[r].lastRun \in {0, rows[r].lastRun}
  PROVE  Served(s)'
<1> USE DEF loop, time
<1>1. CASE r = s
  <2>1. s \notin steady' /\ UNCHANGED <<clock, done>>
    BY <1>1 DEF Changed
  <2>2. Day(0) # Day(clock)
    <3>1. clock >= DayLength /\ DayLength \in Nat \ {0}
      <4>1. DayLength * (Days + 1) \in Nat BY SchedulesAssumption
      <4> QED BY <4>1, SchedulesAssumption DEF TypeOK, Moments
    <3>2. Day(0) = 0 /\ Day(DayLength) = 1 BY <3>1 DEF Day
    <3>3. Day(DayLength) <= Day(clock) BY <3>1, Numbers, DayMonotone
    <3> QED BY <3>2, <3>3, Numbers, DayBounds
  <2> QED BY <1>1, <2>1, <2>2, Numbers DEF Served
<1>2. CASE r # s
  BY <1>2, UnmovedServed DEF Changed, Unmoved, InHand
<1> QED BY <1>1, <1>2

(* So does time: what ran before midnight did not run today, and a new day *)
(* that finds a cycle at work is disturbed.                                *)
LEMMA TimeServes ==
  ASSUME TypeOK, NEW s \in Schedules, Served(s), Tick
  PROVE  Served(s)'
<1> USE DEF database, loop, time, history
<1>1. clock' = clock + 1 /\ ~cycled' /\ UNCHANGED <<rows, runner>>
  BY DEF Tick
<1>2. rows[s].lastRun <= clock /\ Day(rows[s].lastRun) <= Day(clock)
      /\ Day(clock) <= Day(clock + 1)
  BY Numbers, DayMonotone DEF Served
<1>3. /\ Day(rows[s].lastRun) \in Nat /\ Day(clock) \in Nat /\ Day(clock + 1) \in Nat
  BY Numbers, DayBounds
<1>4. CASE Day(clock + 1) = Day(clock)
  <2>1. UNCHANGED <<done, steady, disturbed>> BY <1>4 DEF Tick
  <2> QED BY <1>1, <1>2, <1>4, <2>1, Numbers
      DEF Served, InHand, Expects, InSeason, Started, NotOver
<1>5. CASE Day(clock + 1) # Day(clock)
  <2>1. s \in steady' => rows'[s].status = "on"
    BY <1>1, <1>5 DEF Tick
  <2>2. ~disturbed' => ~(runner'.phase \in Passing)
    BY <1>1, <1>5 DEF Tick, Passing
  <2>3. Day(rows[s].lastRun) # Day(clock + 1) BY <1>2, <1>3, <1>5
  <2>4. rows[s].lastRun <= clock + 1 BY <1>2, Numbers
  <2> QED BY <1>1, <2>1, <2>2, <2>3, <2>4 DEF Served
<1> QED BY <1>4, <1>5

(* A day that is not disturbed has only cycles that began on it.           *)
LEMMA CyclesOfToday ==
  ASSUME TypeOK, ServedInv, [Next]_vars
  PROVE  (~disturbed /\ runner.phase \in Passing => Day(runner.now) = Day(clock))'
<1> USE DEF database, loop, time, history
<1>1. ASSUME UNCHANGED <<clock, disturbed>>, runner'.now = runner.now,
             runner'.phase \in Passing => runner.phase \in Passing
      PROVE  (~disturbed /\ runner.phase \in Passing => Day(runner.now) = Day(clock))'
  BY <1>1 DEF ServedInv
<1>2. CASE LoopStep
  <2>1. CASE Wake BY <2>1 DEF Wake, TypeOK, Runner
  <2>2. CASE EndCycle \/ Restart BY <2>2 DEF EndCycle, Restart, TypeOK, Runner, Passing
  <2>3. CASE Mark \/ Logged
    BY <1>1, <2>3 DEF Mark, Logged, TypeOK, Runner, Passing
  <2>4. CASE \E s \in Schedules : Begin(s) \/ NotReady(s)
    BY <1>1, <2>4 DEF Begin, NotReady, TypeOK, Runner, Passing
  <2>5. ASSUME runner.phase = "send", NextTarget \/ UNCHANGED runner,
               UNCHANGED <<clock, disturbed>>
        PROVE  (~disturbed /\ runner.phase \in Passing => Day(runner.now) = Day(clock))'
    BY <1>1, <2>5, NextTargetTypes DEF Passing
  <2>6. CASE PageSent BY <2>5, <2>6 DEF PageSent
  <2>7. CASE TokenExpired \/ TargetRefused
    BY <2>5, <2>7 DEF TokenExpired, TargetRefused, Sending
  <2>8. CASE TelegramFails
    BY <1>1, <2>8 DEF TelegramFails, Sending, TypeOK, Runner, Passing
  <2>9. CASE \E arrived \in BOOLEAN : AttemptLost(arrived)
    BY <2>5, <2>9 DEF AttemptLost, Sending
  <2> QED BY <1>2, <2>1, <2>2, <2>3, <2>4, <2>6, <2>7, <2>8, <2>9 DEF LoopStep
<1>3. CASE Raises \/ Crash BY <1>3 DEF Raises, Crash, Interrupted
<1>4. CASE \E s \in Schedules :
             \/ \E t \in Times :
                  Create(s, t) \/ \E status \in {"on", "off"} : Update(s, status, t)
             \/ Delete(s) \/ SendNow(s)
  BY <1>1, <1>4 DEF Create, Update, Delete, SendNow, Changed
<1>5. CASE SendNowEnds \/ UNCHANGED vars
  BY <1>1, <1>5 DEF SendNowEnds, vars
<1>6. CASE Tick
  <2>1. clock' = clock + 1 /\ UNCHANGED runner BY <1>6 DEF Tick
  <2>2. CASE Day(clock + 1) = Day(clock)
    BY <1>6, <2>1, <2>2 DEF Tick, ServedInv
  <2>3. CASE Day(clock + 1) # Day(clock)
    BY <1>6, <2>1, <2>3 DEF Tick, Passing
  <2> QED BY <2>2, <2>3
<1> QED BY <1>2, <1>3, <1>4, <1>5, <1>6 DEF Next

(* Every step keeps what is known of the daily schedules.                  *)
LEMMA ServedKept ==
  ASSUME TypeOK, ServedInv, [Next]_vars
  PROVE  ServedInv'
<1>1. SUFFICES ASSUME NEW s \in Schedules, Healthy(s), Config[s].type = "daily"
               PROVE  Served(s)'
  BY CyclesOfToday DEF ServedInv, Healthy
<1>2. Served(s) BY <1>1 DEF ServedInv
<1> USE DEF database, loop, time, history
<1>3. CASE LoopStep BY <1>1, <1>2, <1>3, LoopServes
<1>4. CASE Raises \/ Crash
  <2>1. PICK phase \in {"asleep", "down"} : Interrupted(phase) BY <1>4 DEF Raises, Crash
  <2> QED BY <1>2, <2>1 DEF Interrupted, Served
<1>5. ASSUME NEW r \in Schedules, NEW t \in Times, Create(r, t) PROVE Served(s)'
  <2>1. \A q \in Schedules : q # r => rows'[q] = rows[q] BY <1>5 DEF Create, TypeOK
  <2>2. rows'[r].lastRun = 0 BY <1>5 DEF Create, TypeOK
  <2>3. Changed(r) BY <1>5 DEF Create
  <2> QED BY <1>2, <2>1, <2>2, <2>3, ChangeServes
<1>6. ASSUME NEW r \in Schedules, NEW t \in Times, NEW status \in {"on", "off"},
             Update(r, status, t)
      PROVE  Served(s)'
  <2>1. \A q \in Schedules : q # r => rows'[q] = rows[q] BY <1>6 DEF Update, TypeOK
  <2>2. rows'[r].lastRun = rows[r].lastRun BY <1>6 DEF Update, TypeOK, Row
  <2>3. Changed(r) BY <1>6 DEF Update
  <2> QED BY <1>2, <2>1, <2>2, <2>3, ChangeServes
<1>7. ASSUME NEW r \in Schedules, Delete(r) PROVE Served(s)'
  <2>1. \A q \in Schedules : q # r => rows'[q] = rows[q] BY <1>7 DEF Delete, TypeOK
  <2>2. rows'[r].lastRun = rows[r].lastRun BY <1>7 DEF Delete, TypeOK, Row
  <2>3. Changed(r) BY <1>7 DEF Delete
  <2> QED BY <1>2, <2>1, <2>2, <2>3, ChangeServes
<1>8. CASE \E r \in Schedules : SendNow(r)
  BY <1>2, <1>8, UnmovedServed DEF SendNow, Unmoved, InHand
<1>9. CASE SendNowEnds \/ UNCHANGED vars
  BY <1>2, <1>9, UnmovedServed DEF SendNowEnds, vars, Unmoved, InHand
<1>10. CASE Tick BY <1>2, <1>10, TimeServes
<1> QED BY <1>3, <1>4, <1>5, <1>6, <1>7, <1>8, <1>9, <1>10 DEF Next

(* The last slot of a day comes after every time of it.                    *)
LEMMA LastSlot ==
  ASSUME NEW m \in Nat, Day(m + 1) # Day(m), NEW t \in Times
  PROVE  t <= TimeOf(m)
<1>1. DayLength \in Nat \ {0} BY SchedulesAssumption
<1> DEFINE d == m \div DayLength
           r == m % DayLength
<1>2. d \in Nat /\ r \in 0 .. DayLength - 1 /\ m = DayLength * d + r
  BY <1>1
<1>3. Day(m) = d /\ TimeOf(m) = r BY DEF Day, TimeOf
<1> HIDE DEF d, r
<1>4. SUFFICES ASSUME r < DayLength - 1 PROVE FALSE
  BY <1>1, <1>2, <1>3 DEF Times
<1>5. (m + 1) \div DayLength = d
  <2>1. m + 1 = DayLength * d + (r + 1) /\ r + 1 \in 0 .. DayLength - 1
    BY <1>1, <1>2, <1>4
  <2> QED BY <1>1, <1>2, <2>1
<1> QED BY <1>3, <1>5 DEF Day

(* Time moves at midnight only where the loop has looked at the last slot. *)
LEMMA MidnightServed ==
  ASSUME TypeOK, ServedInv, [Next]_vars, Midnight, ~disturbed, runner.phase = "asleep",
         NEW s \in steady, Healthy(s), Config[s].type = "daily", InSeason(s, clock)
  PROVE  s \in done
<1> USE DEF database, loop, time, history
<1>1. Tick
  <2>1. clock' # clock BY DEF Midnight
  <2>2. ~LoopStep
    BY <2>1 DEF LoopStep, Wake, EndCycle, Mark, Logged, Restart, Begin, NotReady, PageSent,
       TokenExpired, TargetRefused, TelegramFails, AttemptLost
  <2>3. ~Raises /\ ~Crash BY <2>1 DEF Raises, Crash, Interrupted
  <2>4. ~(\E r \in Schedules :
             \/ \E t \in Times :
                  Create(r, t) \/ \E status \in {"on", "off"} : Update(r, status, t)
             \/ Delete(r) \/ SendNow(r))
    BY <2>1 DEF Create, Update, Delete, SendNow, Changed
  <2>5. ~SendNowEnds /\ ~(UNCHANGED vars) BY <2>1 DEF SendNowEnds, vars
  <2> QED BY <2>2, <2>3, <2>4, <2>5 DEF Next
<1>2. s \in Schedules BY DEF TypeOK
<1>3. cycled /\ clock' = clock + 1 BY <1>1 DEF Tick
<1>4. rows[s].time <= TimeOf(clock)
  BY <1>2, <1>3, Numbers, LastSlot DEF Midnight
<1> QED BY <1>2, <1>3, <1>4 DEF ServedInv, Served, Expects

(* Every daily schedule that nobody changes is passed every day, whatever  *)
(* the gateway does and however many other schedules fail, unless a fault  *)
(* or a cycle over midnight disturbs the day.                              *)
THEOREM EveryDayDelivered == Spec => DailyDelivered
<1>1. Init => ServedInv
  <2> SUFFICES ASSUME Init PROVE ServedInv OBVIOUS
  <2>1. ~(runner.phase \in Passing) BY DEF Init, Passing
  <2>2. ASSUME NEW s \in Schedules PROVE Served(s)
    <3>1. /\ rows[s].lastRun = 0 /\ clock = DayLength /\ cycled = FALSE
          /\ s \in steady => rows[s].status = "on"
      BY DEF Init
    <3>2. Day(0) = 0 /\ Day(DayLength) = 1 BY SchedulesAssumption DEF Day
    <3> QED BY <2>1, <3>1, <3>2, SchedulesAssumption DEF Served
  <2> QED BY <2>1, <2>2 DEF ServedInv
<1>2. TypeOK /\ ServedInv /\ [Next]_vars => ServedInv' BY ServedKept
<1>3. TypeOK /\ ServedInv /\ [Next]_vars =>
        [Midnight /\ ~disturbed /\ runner.phase = "asleep" =>
           \A s \in steady : Healthy(s) /\ Config[s].type = "daily" /\ InSeason(s, clock)
                               => s \in done]_vars
  BY MidnightServed
<1> QED BY <1>1, <1>2, <1>3, TypeCorrect, PTL DEF Spec, DailyDelivered
=============================================================================
