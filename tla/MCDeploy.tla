------------------------------ MODULE MCDeploy ------------------------------
(***************************************************************************)
(* Instances of DeployConsole for TLC.                                     *)
(***************************************************************************)
EXTENDS DeployConsole, FiniteSets

CONSTANTS
  MaxWire,  \* bound: messages waiting for a page
  Scenes    \* who takes part in one behaviour, as names of the scenes below

VARIABLE scene  \* the one that is played

Spawned(kinds) == Cardinality({s \in 1 .. spawned : script[s].kind \in kinds})
AllStarted == \A s \in Scripts : script[s].stage # "stillborn"
NoOperation == op.op = "none" /\ op.state = "idle" /\ \A r \in OpRequests : request[r] = "new"
NoPage == clients = {} /\ page.asking = "none" /\ restarts = 0

(* One run plays several scenes.  Each only keeps administrators, sockets  *)
(* and restarts from acting, which are under no fairness; a page's socket  *)
(* holds at most MaxWire messages.                                         *)
Playing ==
  CASE scene = "resets" ->  \* deploys reset and started again, no page looking
         NoOperation /\ NoPage
    [] scene = "operations" ->  \* a deploy and an operation of each kind
         /\ NoPage /\ resets = 0 /\ AllStarted
         /\ \A kind \in OpKinds \cup {"deploy"} : Spawned({kind}) <= 1
         /\ \A r \in OpRequests : request[r] = "new"
    [] scene = "late body" ->  \* a request that is checked and runs later
         /\ NoPage /\ resets = 0 /\ spawned <= 2
    [] scene = "deploy page" ->
         /\ NoOperation /\ clients \subseteq {"deploy"}
         /\ spawned <= 2 /\ spawned + resets + drops <= 3 /\ restarts = 0 /\ AllStarted
    [] scene = "restore page" ->
         /\ Spawned({"deploy"}) = 0 /\ clients \subseteq {"restore"} /\ page.asking = "none"
         /\ spawned + restarts <= 2 /\ resets = 0 /\ drops = 0 /\ AllStarted
         /\ \A kind \in OpKinds : Spawned({kind}) <= 1

Short == \A p \in Pages : Len(wire[p]) <= MaxWire

SceneInit == ConsoleInit /\ scene \in Scenes
SceneNext == ConsoleNext /\ scene' = scene /\ Playing' /\ Short'
SceneSpec == SceneInit /\ [][SceneNext]_<<allVars, scene>> /\ Fairness
=============================================================================
