----------------------------- MODULE MCLiftingPull -----------------------------
(***************************************************************************)
(* Instances of PullModal for TLC.                                         *)
(***************************************************************************)
EXTENDS PullModal

CONSTANTS
  r1, r2, h1,   \* two records of one house
  Scenes        \* who takes part in one behaviour, as names of the scenes below

VARIABLE scene  \* the one that is played

HouseOfRecords == [r \in {r1, r2} |-> h1]

(* Who acts in each *)
InScene ==
  CASE scene = "two pulls" -> modal.target = 0
    [] scene = "window" ->  \* the pulls are started from one window, on one record
         /\ \A q \in Starts : start[q].stage # "new" => poll[q] # "none"
         /\ modal.target \in {0, r1}
         /\ halfHours + crashes <= 1
         /\ \A i \in Rows : (row[i].by # 0 /\ row[i].status = "Pending") \/ row[i] = NoRow
         /\ ~start[2].dry

(* One run plays two scenes.  Each only keeps people, crashes and half     *)
(* hours from acting, which are under no fairness.  The first request is   *)
(* for the first record, which loses nothing: they are alike.              *)
Playing ==
  /\ start[2].stage # "new" => start[1].stage # "new"
  /\ start[1].record \in {0, r1}
  /\ InScene

SceneInit == ModalInit /\ scene \in Scenes
SceneNext == ModalNext /\ scene' = scene /\ Playing'
SceneSpec == SceneInit /\ [][SceneNext]_<<vars, modalVars, scene>> /\ ModalFairness
===============================================================================
