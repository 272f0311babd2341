--------------------------- MODULE MCReportSchedules ---------------------------
(***************************************************************************)
(* Instances of ReportSchedules for TLC.                                   *)
(***************************************************************************)
EXTENDS ReportSchedules

CONSTANTS
  daily, often, photo,  \* a daily schedule, one with an interval, one on Telegram
  Scenes                \* the sets of schedules that exist in one behaviour

VARIABLE scene  \* the one that is played

MCConfig ==
  [s \in {daily, often, photo} |->
     [type |-> IF s = often THEN "interval" ELSE "daily",
      channel |-> IF s = photo THEN "telegram" ELSE "whatsapp",
      targets |-> IF s = daily THEN 2 ELSE 1,
      pages |-> IF s = photo THEN 2 ELSE 1,
      interval |-> 2,
      starts |-> IF s = often THEN 1 ELSE 0,
      ends |-> IF s = photo THEN 2 ELSE 0,
      from |-> IF s = often THEN 1 ELSE 0, to |-> 2]]

MCScenes == {{daily, often}, {daily, photo}}

(* One schedule changes, or one fault happens, or one is sent by hand.     *)
Playing ==
  /\ \A s \in Schedules \ scene : rows[s] = [status |-> "absent", time |-> 0, lastRun |-> 0]
  /\ faults + edits + (IF manual = Nothing THEN 0 ELSE 1) <= 1
  /\ manual \in {Nothing, daily}
  /\ photo \in scene => rows[daily].status = "on" /\ rows[daily].time = 2

Starting ==
  /\ rows[daily].status = "on" /\ rows[daily].time \in {1, 2}
  /\ (often \in scene => rows[often].status = "on") /\ rows[often].time = 0
  /\ rows[photo].status # "off" /\ rows[photo].time = 0

SceneInit == Init /\ scene \in Scenes /\ Playing /\ Starting
SceneNext == Next /\ scene' = scene /\ Playing'
SceneSpec == SceneInit /\ [][SceneNext]_<<vars, scene>> /\ WF_vars(LoopStep)
===============================================================================
