---------------------------- MODULE DeployConsole ----------------------------
(***************************************************************************)
(* The two pages of an administrator beside the deploy service they talk   *)
(* to: frontend/src/app/deploy/page.tsx, which starts and resets deploys   *)
(* over its socket, and frontend/src/app/restore-points/page.tsx, which    *)
(* captures and restores over HTTP and follows the operation on a socket.  *)
(*                                                                         *)
(* Both change what they show twice: by themselves when the administrator  *)
(* acts, and again when the service's messages come, which is where an     *)
(* answer, a refusal and a message can cross.                              *)
(***************************************************************************)
EXTENDS DeployService

CONSTANT MaxDrops  \* bound: sockets lost while the service is up

ASSUME DropsAssumption == MaxDrops \in Nat

VARIABLES
  page,    \* the deploy page; guess: what it shows is its own doing so far
  opPage,  \* the restore points page
  uplink,  \* what the deploy page has sent and the service has not read
  posted,  \* the restore page's requests whose answer has been handled
  drops    \* sockets lost

consoleVars == <<page, opPage, uplink, posted, drops>>
allVars == <<vars, consoleVars>>

ConsoleInit ==
  /\ Init
  /\ page = [type |-> "idle", asking |-> "none", guess |-> FALSE]
  /\ opPage = "idle"
  /\ uplink = "none" /\ posted = {} /\ drops = 0

-----------------------------------------------------------------------------
(* The deploy page *)

(* startDeploy and handleReset first ask the backend for a ticket. *)
Click(what) ==
  /\ page.asking = "none" /\ uplink = "none"
  /\ what = "start" => "deploy" \in clients /\ page.type # "running"
  /\ page' = [page EXCEPT !.asking = what]
  /\ UNCHANGED <<vars, opPage, uplink, posted, drops>>

NoTicket ==
  /\ page.asking # "none"
  /\ page' = [page EXCEPT !.asking = "none"]
  /\ UNCHANGED <<vars, opPage, uplink, posted, drops>>

(* The rest of startDeploy: the page shows running at once. *)
StartSent ==
  /\ page.asking = "start"
  /\ page' = [type |-> "running", asking |-> "none", guess |-> TRUE]
  /\ uplink' = IF "deploy" \in clients THEN "start" ELSE "rest start"
  /\ UNCHANGED <<vars, opPage, posted, drops>>

(* The rest of handleReset: over the socket the page does not wait. *)
ResetSent ==
  /\ page.asking = "reset"
  /\ IF "deploy" \in clients
     THEN /\ page' = [page EXCEPT !.type = "idle", !.asking = "none", !.guess = TRUE]
          /\ uplink' = "reset"
     ELSE /\ page' = [page EXCEPT !.asking = "none"]
          /\ uplink' = "rest reset"
  /\ UNCHANGED <<vars, opPage, posted, drops>>

(* The service reads the page's message or request. *)
StartRead ==
  /\ uplink \in {"start", "rest start"}
  /\ TriggerDeploy \/ (~CanDeploy /\ UNCHANGED vars)
  /\ uplink' = "none"
  /\ UNCHANGED <<page, opPage, posted, drops>>

ResetRead ==
  /\ uplink \in {"reset", "rest reset"}
  /\ ResetDeploy
  /\ uplink' = IF uplink = "rest reset" THEN "reset done" ELSE "none"
  /\ UNCHANGED <<page, opPage, posted, drops>>

ResetAnswered ==
  /\ uplink = "reset done"
  /\ page' = [page EXCEPT !.type = "idle", !.guess = TRUE]
  /\ uplink' = "none"
  /\ UNCHANGED <<vars, opPage, posted, drops>>

(* A request over HTTP that never gets an answer *)
RequestLost ==
  /\ uplink \in {"rest start", "rest reset", "reset done"}
  /\ uplink' = "none"
  /\ UNCHANGED <<vars, page, opPage, posted, drops>>

Received(p) ==
  /\ wire[p] # <<>>
  /\ wire' = [wire EXCEPT ![p] = Tail(@)]
  /\ UNCHANGED <<memory, scripts, request, resets, restarts, clients>>

(* Fault: a step makes the page show running, as it does on the other page. *)
PageStepRuns ==
  /\ Received("deploy")
  /\ LET message == Head(wire["deploy"]) IN
       page' = [page EXCEPT !.type = IF message.type = "step" THEN "running" ELSE message.state,
                            !.guess = FALSE]
  /\ UNCHANGED <<opPage, uplink, posted, drops>>

(* handleWsMessage.  A status that ends a deploy stands for the status and *)
(* the complete or failed message sent with it; a step changes the steps   *)
(* of a page that shows running and no other.                              *)
PageReceives ==
  /\ Received("deploy")
  /\ LET message == Head(wire["deploy"]) IN
       \/ /\ message.type = "status"
          /\ page' = [page EXCEPT !.type = message.state, !.guess = FALSE]
       \/ /\ message.type = "step"
          /\ UNCHANGED page
  /\ UNCHANGED <<opPage, uplink, posted, drops>>

-----------------------------------------------------------------------------
(* The restore points page *)

(* handleCreate and handleConfirmRestore: the answer of the POST comes     *)
(* through the backend, beside the socket; a refusal changes nothing.      *)
PostAnswered(r) ==
  /\ request[r] \in {"accepted", "refused"} /\ r \notin posted
  /\ posted' = posted \cup {r}
  /\ opPage' = IF request[r] = "accepted" THEN "running" ELSE opPage
  /\ UNCHANGED <<vars, page, uplink, drops>>

(* op_complete and op_failed say what the op_state sent with them says. *)
OpPageReceives ==
  /\ Received("restore")
  /\ LET message == Head(wire["restore"]) IN
       opPage' = IF message.type = "op_step" THEN "running" ELSE message.state
  /\ UNCHANGED <<page, uplink, posted, drops>>

-----------------------------------------------------------------------------
(* onclose: what was on the socket is lost, either way. *)
SocketLost(p) ==
  /\ drops < MaxDrops
  /\ drops' = drops + 1
  /\ Disconnect(p)
  /\ uplink' = IF p = "deploy" /\ uplink \in {"start", "reset"} THEN "none" ELSE uplink
  /\ UNCHANGED <<page, opPage, posted>>

ServiceRestarts ==
  /\ Restart
  /\ uplink' = "none"
  /\ UNCHANGED <<page, opPage, posted, drops>>

(* Everything the pages have no part in: other administrators too *)
ServiceStep ==
  /\ \/ \E s \in Scripts : ScriptRuns(s) \/ LineTaken(s)
     \/ HandlesRequest
     \/ \E p \in Pages : Connect(p)
  /\ UNCHANGED consoleVars

ConsoleNext ==
  \/ ServiceStep
  \/ Click("start") \/ Click("reset") \/ NoTicket \/ StartSent \/ ResetSent
  \/ StartRead \/ ResetRead \/ ResetAnswered \/ RequestLost
  \/ PageReceives \/ OpPageReceives
  \/ \E r \in OpRequests : PostAnswered(r)
  \/ \E p \in Pages : SocketLost(p)
  \/ ServiceRestarts

ConsoleSpec == ConsoleInit /\ [][ConsoleNext]_allVars /\ Fairness

-----------------------------------------------------------------------------
(* What the service and the pages remember keeps its types.                *)
ConsoleTypeOK ==
  /\ TypeOK
  /\ page \in [type : States, asking : {"none", "start", "reset"},
               guess : BOOLEAN]
  /\ opPage \in States
  /\ uplink \in {"none", "start", "reset", "rest start", "rest reset", "reset done"}
  /\ posted \subseteq OpRequests
  /\ drops \in 0 .. MaxDrops

(* A connected deploy page that has handled every message shows the state  *)
(* of the service, unless what it shows is its own: a start that was       *)
(* refused, or the late answer of a reset.  So after every deploy that was *)
(* reset, killed, failed by an older exit or taken over by another         *)
(* administrator, and after every reconnection, the page is right.         *)
DeployPageAgrees ==
  "deploy" \in clients /\ wire["deploy"] = <<>> /\ ~page.guess => page.type = deploy.state

(* The restore points page may believe too long that an operation runs; it *)
(* never shows one as finished that still runs once it has handled what it *)
(* was sent.                                                               *)
NeverDoneTooSoon ==
  "restore" \in clients /\ wire["restore"] = <<>> /\ opPage # "running" => op.state # "running"
=============================================================================
