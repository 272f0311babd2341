---------------------------- MODULE DeployService ----------------------------
(***************************************************************************)
(* deploy-service/server.js: one Node process that runs deploy.sh,         *)
(* snapshot.sh and rollback.sh, reads their output line by line, keeps the *)
(* state of the last deploy and of the last restore point operation in     *)
(* memory and tells every connected page.                                  *)
(*                                                                         *)
(* The service handles one event at a time; between two events anything    *)
(* else may happen, which is what this module is about: a script goes on   *)
(* by itself, its lines wait in the pipe, and its exit is an event of its  *)
(* own that comes after its last line, when every process that holds the   *)
(* pipe is gone.  A SIGTERM ends the script's shell only: the command the  *)
(* shell was running (a build, a dump) goes on as an orphan.               *)
(*                                                                         *)
(* Messages, times, logs, manifests and status.json are left out.          *)
(***************************************************************************)
EXTENDS Naturals, Sequences

CONSTANTS
  MaxScripts,   \* bound: scripts ever spawned
  MaxResets,    \* bound: deploy resets
  MaxRestarts,  \* bound: restarts of the service
  OpRequests    \* HTTP requests for a capture or a rollback

ASSUME BoundsAssumption ==
  /\ MaxScripts \in Nat
  /\ MaxResets \in Nat
  /\ MaxRestarts \in Nat

Scripts == 1 .. MaxScripts
OpKinds == {"snapshot", "rollback"}
Pages == {"deploy", "restore"}  \* the page each reads its own messages only

VARIABLES
  deploy,         \* deployState; heard: the scripts its steps and its end came from
  deployProcess,  \* the script held in deployProcess, 0 for null
  op,             \* opState
  opProcess,      \* the script held in opProcess, 0 for null
  spawned,        \* how many scripts were spawned
  script,         \* the scripts and their pipes
  lockFile,       \* the file at LOCK_FILE: the script that created it, 0 for none
  request,        \* where each HTTP request for an operation stands
  resets,         \* how many times the deploy state was reset
  restarts,       \* how many times the service was restarted
  clients,        \* the pages with an open socket
  wire            \* what each page has been sent and has not handled

memory == <<deploy, deployProcess, op, opProcess>>
scripts == <<spawned, script, lockFile>>
vars == <<memory, scripts, request, resets, restarts, clients, wire>>

-----------------------------------------------------------------------------
States == {"idle", "running", "completed", "failed"}
Stages == {"none", "starting", "working", "orphan", "ending", "gone", "stillborn"}
Lines == {"step", "complete", "failed", "error", "exit0", "exit1"}
Messages == [type : {"status", "op_state"}, state : States]
            \cup [type : {"step", "op_step"}]

NoScript == [kind |-> "deploy", stage |-> "none", holds |-> 0, since |-> 0, code |-> 1,
             out |-> <<>>]
FreshDeploy == [state |-> "idle", run |-> 0, heard |-> {}]
FreshOp == [op |-> "none", state |-> "idle"]

(* broadcast, to the page that reads this message *)
Told(page, message) ==
  IF page \in clients THEN [wire EXCEPT ![page] = Append(@, message)] ELSE wire
Status(state) == [type |-> "status", state |-> state]
OpState(state) == [type |-> "op_state", state |-> state]

Init ==
  /\ deploy = FreshDeploy /\ deployProcess = 0
  /\ op = FreshOp /\ opProcess = 0
  /\ spawned = 0 /\ script = [s \in Scripts |-> NoScript] /\ lockFile = 0
  /\ request = [r \in OpRequests |-> "new"]
  /\ resets = 0 /\ restarts = 0
  /\ clients = {} /\ wire = [p \in Pages |-> <<>>]

-----------------------------------------------------------------------------
(* Spawning a script *)

Spawn(kind) ==
  /\ spawned < MaxScripts
  /\ spawned' = spawned + 1
  /\ script' = [script EXCEPT ![spawned + 1] =
                  [@ EXCEPT !.kind = kind, !.stage = "starting", !.since = resets]]
  /\ UNCHANGED lockFile

(* Fault: the state alone decides. *)
CanDeployByState == deploy.state # "running" /\ opProcess = 0

CanDeploy == deploy.state # "running" /\ deployProcess = 0 /\ opProcess = 0

SpawnDeploy ==
  /\ Spawn("deploy")
  /\ deploy' = [state |-> "running", run |-> spawned + 1, heard |-> {}]
  /\ deployProcess' = spawned + 1
  /\ UNCHANGED <<op, opProcess>>

(* POST /api/trigger, or the socket message "start": a refusal changes      *)
(* nothing, and the answer only a page's button and log.                   *)
TriggerDeploy ==
  /\ CanDeploy
  /\ SpawnDeploy
  /\ wire' = Told("deploy", Status("running"))
  /\ UNCHANGED <<request, resets, restarts, clients>>

RunOpScript(kind) ==
  /\ opProcess = 0
  /\ Spawn(kind)
  /\ op' = [op |-> kind, state |-> "running"]
  /\ opProcess' = spawned + 1
  /\ wire' = Told("restore", OpState("running"))
  /\ UNCHANGED <<deploy, deployProcess>>

(* The headers of a capture or a rollback request: the check is made here, *)
(* before the body is there.                                               *)
CheckOpRequest(r) ==
  /\ request[r] = "new"
  /\ request' = [request EXCEPT ![r] =
                   IF opProcess = 0 /\ deployProcess = 0 THEN "checked" ELSE "refused"]
  /\ UNCHANGED <<memory, scripts, resets, restarts, clients, wire>>

(* Its body: only runOpScript's own check is made again. *)
OpRequestBody(r, kind) ==
  /\ request[r] = "checked"
  /\ RunOpScript(kind)
  /\ request' = [request EXCEPT ![r] = "accepted"]
  /\ UNCHANGED <<resets, restarts, clients>>

(* 409 from runOpScript, or 404 for a rollback to a snapshot that is not there *)
OpRequestRefused(r) ==
  /\ request[r] = "checked"
  /\ request' = [request EXCEPT ![r] = "refused"]
  /\ UNCHANGED <<memory, scripts, resets, restarts, clients, wire>>

(* the socket messages "snapshot" and "rollback": checked and run at once *)
SocketOp(kind) ==
  /\ opProcess = 0 /\ deployProcess = 0
  /\ RunOpScript(kind)
  /\ UNCHANGED <<request, resets, restarts, clients>>

-----------------------------------------------------------------------------
(* The scripts themselves: external to the service *)

(* A script comes to a stage, saying a line. *)
Said(row, stage, line) == [row EXCEPT !.stage = stage, !.out = Append(row.out, line)]
Turned(s, stage, line) == [script EXCEPT ![s] = Said(script[s], stage, line)]

(* The shell cannot be started: an error event, then the exit. *)
SpawnFails(s) ==
  /\ script[s].stage = "starting"
  /\ script' = [script EXCEPT ![s] = [@ EXCEPT !.stage = "stillborn",
                                                 !.out = <<"error", "exit1">>]]
  /\ UNCHANGED <<memory, spawned, lockFile, request, resets, restarts, clients, wire>>

(* Fault: the lock is never found taken. *)
LockNeverHeld == FALSE

LockHeld == lockFile # 0 /\ \E s \in Scripts : script[s].holds = lockFile

(* deploy.sh opens LOCK_FILE, creating it if it is not there, takes the    *)
(* lock or gives up.                                                       *)
TakeLock(s) ==
  /\ script[s].kind = "deploy" /\ script[s].stage = "starting"
  /\ \/ /\ ~LockHeld
        /\ lockFile' = IF lockFile = 0 THEN s ELSE lockFile
        /\ script' = [script EXCEPT ![s] =
                         [Said(script[s], "working", "step") EXCEPT !.holds = lockFile']]
     \/ /\ LockHeld
        /\ script' = Turned(s, "ending", "failed")
        /\ UNCHANGED lockFile
  /\ UNCHANGED <<memory, spawned, request, resets, restarts, clients, wire>>

(* snapshot.sh and rollback.sh take no lock. *)
OpBegins(s) ==
  /\ script[s].kind \in OpKinds /\ script[s].stage = "starting"
  /\ script' = Turned(s, "working", "step")
  /\ UNCHANGED <<memory, spawned, lockFile, request, resets, restarts, clients, wire>>

(* The work is done, or a command fails with a line or, killed or under    *)
(* set -e, without one.                                                    *)
WorkEnds(s) ==
  /\ script[s].stage = "working"
  /\ \/ script' = [script EXCEPT ![s] =
                      [Said(script[s], "ending", "complete") EXCEPT !.code = 0]]
     \/ script' = Turned(s, "ending", "failed")
     \/ script' = [script EXCEPT ![s] = [@ EXCEPT !.stage = "ending"]]
  /\ UNCHANGED <<memory, spawned, lockFile, request, resets, restarts, clients, wire>>

(* The last process with the pipe and the lock is gone. *)
Exits(s) ==
  /\ script[s].stage \in {"ending", "orphan"}
  /\ LET line == IF script[s].code = 0 THEN "exit0" ELSE "exit1" IN
       script' = [script EXCEPT ![s] =
                    [Said(script[s], "gone", line) EXCEPT !.holds = 0, !.code = 1]]
  /\ UNCHANGED <<memory, spawned, lockFile, request, resets, restarts, clients, wire>>

(* SIGTERM to script s (0: the kill of null is caught): a shell that has   *)
(* not come to its work is gone; one at work leaves its command behind,    *)
(* and deploy.sh's trap still writes its line.                             *)
Killed(s) ==
  IF s = 0 THEN script
  ELSE CASE script[s].stage = "starting" -> Turned(s, "gone", "exit1")
         [] script[s].stage = "working" ->
              IF script[s].kind = "deploy" THEN Turned(s, "orphan", "failed")
              ELSE [script EXCEPT ![s] = [@ EXCEPT !.stage = "orphan"]]
         [] OTHER -> script

-----------------------------------------------------------------------------
(* What the service does with a line *)

Taken(s) == [script EXCEPT ![s] = [@ EXCEPT !.out = Tail(script[s].out)]]

Line(s, line) ==
  /\ script[s].out # <<>>
  /\ Head(script[s].out) = line
  /\ script' = Taken(s)
  /\ UNCHANGED <<spawned, lockFile, request, resets, restarts, clients>>

FinishDeploy(s, state) ==
  /\ deploy' = [deploy EXCEPT !.state = state, !.heard = @ \cup {s}]
  /\ wire' = Told("deploy", Status(state))

(* Fault: an operation ends in a state the pages have no name for. *)
FinishOpUnnamed(state) ==
  /\ op' = [op EXCEPT !.state = IF state = "failed" THEN "cancelled" ELSE state]
  /\ opProcess' = 0
  /\ wire' = Told("restore", OpState(state))

FinishOp(state) ==
  /\ op' = [op EXCEPT !.state = state]
  /\ opProcess' = 0
  /\ wire' = Told("restore", OpState(state))

DeployStep(s) ==
  /\ script[s].kind = "deploy" /\ Line(s, "step")
  /\ deploy' = [deploy EXCEPT !.heard = @ \cup {s}]
  /\ wire' = Told("deploy", [type |-> "step"])
  /\ UNCHANGED <<deployProcess, op, opProcess>>

DeployMarker(s) ==
  /\ script[s].kind = "deploy"
  /\ \/ Line(s, "complete") /\ FinishDeploy(s, "completed")
     \/ Line(s, "failed") /\ FinishDeploy(s, "failed")
  /\ UNCHANGED <<deployProcess, op, opProcess>>

DeployError(s) ==
  /\ script[s].kind = "deploy" /\ Line(s, "error")
  /\ deployProcess' = 0
  /\ FinishDeploy(s, "failed")
  /\ UNCHANGED <<op, opProcess>>

(* Fault: the exit of a deploy is only taken as the end of a good one. *)
DeployExitGoodOnly(s) ==
  /\ script[s].kind = "deploy"
  /\ Line(s, "exit0") \/ Line(s, "exit1")
  /\ deployProcess' = 0
  /\ IF deploy.state = "running" /\ Head(script[s].out) = "exit0"
     THEN FinishDeploy(s, "completed") ELSE UNCHANGED <<deploy, wire>>
  /\ UNCHANGED <<op, opProcess>>

DeployExit(s) ==
  /\ script[s].kind = "deploy"
  /\ Line(s, "exit0") \/ Line(s, "exit1")
  /\ deployProcess' = 0
  /\ IF deploy.state = "running"
     THEN FinishDeploy(s, IF Head(script[s].out) = "exit0" THEN "completed" ELSE "failed")
     ELSE UNCHANGED <<deploy, wire>>
  /\ UNCHANGED <<op, opProcess>>

OpStep(s) ==
  /\ script[s].kind \in OpKinds /\ Line(s, "step")
  /\ wire' = Told("restore", [type |-> "op_step"])
  /\ UNCHANGED memory

OpMarker(s) ==
  /\ script[s].kind \in OpKinds
  /\ \/ Line(s, "complete") /\ FinishOp("completed")
     \/ Line(s, "failed") /\ FinishOp("failed")
     \/ Line(s, "error") /\ FinishOp("failed")
  /\ UNCHANGED <<deploy, deployProcess>>

(* Fault: an operation ends by its markers alone. *)
OpExitUnread(s) ==
  /\ script[s].kind \in OpKinds
  /\ Line(s, "exit0") \/ Line(s, "exit1")
  /\ UNCHANGED <<memory, wire>>

OpExit(s) ==
  /\ script[s].kind \in OpKinds
  /\ Line(s, "exit0") \/ Line(s, "exit1")
  /\ IF op.state = "running"
     THEN FinishOp(IF Head(script[s].out) = "exit0" THEN "completed" ELSE "failed")
     ELSE UNCHANGED <<op, opProcess, wire>>
  /\ UNCHANGED <<deploy, deployProcess>>

-----------------------------------------------------------------------------
(* Administrators *)

(* resetDeploy: the deploy's process is forgotten and its lock file gone *)
ResetDeploy ==
  /\ resets < MaxResets
  /\ resets' = resets + 1
  /\ script' = Killed(deployProcess)
  /\ deploy' = FreshDeploy /\ deployProcess' = 0
  /\ lockFile' = 0
  /\ wire' = Told("deploy", Status("idle"))
  /\ UNCHANGED <<op, opProcess, spawned, request, restarts, clients>>

(* POST /api/restore-point/cancel with an operation in hand *)
CancelOp ==
  /\ opProcess # 0
  /\ script' = Killed(opProcess)
  /\ FinishOp("failed")
  /\ UNCHANGED <<deploy, deployProcess, spawned, lockFile, request, resets, restarts, clients>>

(* The socket message "cancel_op" is refused while anything runs; when     *)
(* nothing does, the last operation is marked failed.                      *)
SocketCancel ==
  /\ opProcess = 0 /\ deployProcess = 0
  /\ FinishOp("failed")
  /\ UNCHANGED <<deploy, deployProcess, scripts, request, resets, restarts, clients>>

-----------------------------------------------------------------------------
(* Sockets, and the service itself *)

(* Fault: a page that connects is told of deploys only. *)
ConnectDeployOnly(p) ==
  /\ p \notin clients
  /\ clients' = clients \cup {p}
  /\ wire' = [wire EXCEPT ![p] = IF p = "deploy" THEN <<Status(deploy.state)>> ELSE <<>>]
  /\ UNCHANGED <<memory, scripts, request, resets, restarts>>

(* A page is told the state of the deploy, and of the operation if there   *)
(* ever was one.                                                           *)
Connect(p) ==
  /\ p \notin clients
  /\ clients' = clients \cup {p}
  /\ wire' = [wire EXCEPT ![p] =
                IF p = "deploy" THEN <<Status(deploy.state)>>
                ELSE IF op.op # "none" THEN <<OpState(op.state)>> ELSE <<>>]
  /\ UNCHANGED <<memory, scripts, request, resets, restarts>>

Disconnect(p) ==
  /\ p \in clients
  /\ clients' = clients \ {p}
  /\ wire' = [wire EXCEPT ![p] = <<>>]
  /\ UNCHANGED <<memory, scripts, request, resets, restarts>>

Dead(row) == [row EXCEPT !.stage = "gone", !.holds = 0, !.out = <<>>]

(* The container is recreated: memory, scripts and sockets are gone, the   *)
(* lock file is not.                                                       *)
Restart ==
  /\ restarts < MaxRestarts
  /\ restarts' = restarts + 1
  /\ deploy' = FreshDeploy /\ deployProcess' = 0
  /\ op' = FreshOp /\ opProcess' = 0
  /\ script' = [s \in Scripts |->
                  IF s <= spawned THEN Dead(script[s]) ELSE script[s]]
  /\ request' = [r \in OpRequests |-> IF request[r] = "checked" THEN "refused" ELSE request[r]]
  /\ clients' = {} /\ wire' = [p \in Pages |-> <<>>]
  /\ UNCHANGED <<spawned, lockFile, resets>>

-----------------------------------------------------------------------------
ScriptRuns(s) ==
  SpawnFails(s) \/ TakeLock(s) \/ OpBegins(s) \/ WorkEnds(s) \/ Exits(s)

LineTaken(s) ==
  \/ DeployStep(s) \/ DeployMarker(s) \/ DeployError(s) \/ DeployExit(s)
  \/ OpStep(s) \/ OpMarker(s) \/ OpExit(s)

HandlesRequest ==
  \/ TriggerDeploy \/ ResetDeploy \/ CancelOp \/ SocketCancel
  \/ \E kind \in OpKinds : SocketOp(kind)
  \/ \E r \in OpRequests :
       CheckOpRequest(r) \/ OpRequestRefused(r) \/ \E kind \in OpKinds : OpRequestBody(r, kind)

Next ==
  \/ \E s \in Scripts : ScriptRuns(s) \/ LineTaken(s)
  \/ HandlesRequest
  \/ \E p \in Pages : Connect(p) \/ Disconnect(p)
  \/ Restart

(* Every script ends at last and the service takes the lines it is sent.   *)
Fairness == \A s \in Scripts : WF_vars(ScriptRuns(s)) /\ WF_vars(LineTaken(s))

Spec == Init /\ [][Next]_vars /\ Fairness

-----------------------------------------------------------------------------
(* What the service remembers, its scripts and the wires keep their types. *)
TypeOK ==
  /\ deploy \in [state : States, run : 0 .. MaxScripts, heard : SUBSET Scripts]
  /\ deployProcess \in 0 .. MaxScripts
  /\ op \in [op : OpKinds \cup {"none"}, state : States]
  /\ opProcess \in 0 .. MaxScripts
  /\ spawned \in 0 .. MaxScripts
  /\ script \in [Scripts -> [kind : OpKinds \cup {"deploy"}, stage : Stages,
                             holds : 0 .. MaxScripts, since : 0 .. MaxResets,
                             code : {0, 1}, out : Seq(Lines)]]
  /\ lockFile \in 0 .. MaxScripts
  /\ request \in [OpRequests -> {"new", "checked", "refused", "accepted"}]
  /\ resets \in 0 .. MaxResets
  /\ restarts \in 0 .. MaxRestarts
  /\ clients \subseteq Pages
  /\ wire \in [Pages -> Seq(Messages)]

(* However the resets, kills and refusals fall, of the deploys started     *)
(* since the last reset no two are ever past their lock together: the      *)
(* script's lock stands where the service's own guards have been lost to   *)
(* the exit of an older script.                                            *)
OneDeploySinceReset ==
  \A s, t \in Scripts :
    /\ script[s].holds # 0 /\ script[s].since = resets
    /\ script[t].holds # 0 /\ script[t].since = resets
    => s = t

(* A state that says running is one an exit is still to come for: the      *)
(* process the service holds has not been heard to the end.  This is what  *)
(* makes every deploy and every operation end on the page, whatever kills  *)
(* the script and whoever's exit comes in between.                         *)
ExitAhead(s) ==
  /\ s # 0
  /\ script[s].stage \in {"starting", "working", "orphan", "ending"} \/ script[s].out # <<>>

RunningAwaited ==
  /\ deploy.state = "running" => ExitAhead(deployProcess)
  /\ op.state = "running" => ExitAhead(opProcess)

(* As long as no deploy is reset and every shell could be started, the     *)
(* steps and the end of a deploy are its own: no line and no exit of an    *)
(* earlier deploy is ever written into the state of a later one.  The end  *)
(* marker comes before the exit, so this is what the second guard of       *)
(* startDeploy is for.                                                     *)
OwnVoice ==
  resets = 0 /\ (\A s \in Scripts : script[s].stage # "stillborn")
    => deploy.heard \subseteq {deploy.run}

(* A deploy that shows running comes to an end, and so does an operation.  *)
RunsEnd ==
  /\ (deploy.state = "running") ~> (deploy.state # "running")
  /\ (op.state = "running") ~> (op.state # "running")
=============================================================================
