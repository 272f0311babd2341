---------------------------- MODULE DeployProofs ----------------------------
(***************************************************************************)
(* Proofs about DeployService and about DeployConsole, for any number of   *)
(* scripts, resets, restarts, lost sockets and requests.                   *)
(***************************************************************************)
EXTENDS DeployConsole, TLAPS

-----------------------------------------------------------------------------
(* What the proofs need of the types                                       *)

ScriptRow ==
  [kind : OpKinds \cup {"deploy"}, stage : Stages, holds : 0 .. MaxScripts,
   since : 0 .. MaxResets, code : {0, 1}, out : Seq(Lines)]

Typed ==
  /\ spawned \in 0 .. MaxScripts
  /\ script \in [Scripts -> ScriptRow]
  /\ lockFile \in 0 .. MaxScripts
  /\ resets \in 0 .. MaxResets
  /\ deployProcess \in 0 .. MaxScripts
  /\ opProcess \in 0 .. MaxScripts

(* The last of a pipe that is longer by a line is that line.               *)
LEMMA PipeGrows ==
  ASSUME NEW out \in Seq(Lines), NEW line \in Lines
  PROVE  /\ Append(out, line) \in Seq(Lines)
         /\ Append(out, line) # <<>>
         /\ Append(out, line)[Len(Append(out, line))] = line
OBVIOUS

-----------------------------------------------------------------------------
(* What each kind of step does to the table of scripts                     *)

(* A script that is spawned is a row of the table.                         *)
LEMMA SpawnRow ==
  ASSUME Typed, NEW kind \in OpKinds \cup {"deploy"}, Spawn(kind)
  PROVE  /\ spawned + 1 \in Scripts /\ spawned' = spawned + 1 /\ lockFile' = lockFile
         /\ spawned' \in 0 .. MaxScripts
         /\ script' \in [Scripts -> ScriptRow]
         /\ \A s \in Scripts : s # spawned + 1 => script'[s] = script[s]
         /\ script'[spawned + 1].kind = kind
         /\ script'[spawned + 1].stage = "starting"
         /\ script'[spawned + 1].since = resets
         /\ script'[spawned + 1].holds = script[spawned + 1].holds
         /\ script'[spawned + 1].out = script[spawned + 1].out
<1>1. spawned + 1 \in Scripts
  BY BoundsAssumption DEF Typed, Spawn, Scripts
<1> DEFINE born == [script[spawned + 1] EXCEPT !.kind = kind, !.stage = "starting",
                                               !.since = resets]
<1>2. script[spawned + 1] \in ScriptRow
  BY <1>1 DEF Typed
<1>3. born \in ScriptRow
  BY <1>2 DEF Typed, Stages, ScriptRow
<1>4. script' = [script EXCEPT ![spawned + 1] = born]
  BY <1>1 DEF Spawn, Typed
<1>5. /\ born.kind = kind /\ born.stage = "starting" /\ born.since = resets
      /\ born.holds = script[spawned + 1].holds /\ born.out = script[spawned + 1].out
  BY <1>2 DEF ScriptRow
<1> HIDE DEF born
<1>6. /\ script' \in [Scripts -> ScriptRow] /\ script'[spawned + 1] = born
      /\ \A s \in Scripts : s # spawned + 1 => script'[s] = script[s]
  BY <1>1, <1>3, <1>4 DEF Typed
<1> QED  BY <1>1, <1>5, <1>6, BoundsAssumption DEF Spawn, Typed, Scripts

(* One new row for script s, the others as they were *)
OneRow(s, row) ==
  /\ script' \in [Scripts -> ScriptRow]
  /\ script'[s] = row
  /\ \A t \in Scripts : t # s => script'[t] = script[t]

(* A row put in place of another is all that changes.                      *)
LEMMA OneRowChanges ==
  ASSUME Typed, NEW s \in Scripts, NEW row \in ScriptRow, script' = [script EXCEPT ![s] = row]
  PROVE  OneRow(s, row)
BY DEF OneRow, Typed

(* What may have become of a script that has run by itself                 *)
RanOn(s) ==
  /\ script' \in [Scripts -> ScriptRow]
  /\ \A t \in Scripts : t # s => script'[t] = script[t]
  /\ script'[s].kind = script[s].kind /\ script'[s].since = script[s].since
  /\ script[s].stage \in {"starting", "working", "orphan", "ending"}
  /\ \/ script'[s].stage \in {"working", "ending"}
     \/ /\ script'[s].stage \in {"gone", "stillborn"}
        /\ script'[s].out # <<>>
        /\ script'[s].out[Len(script'[s].out)] \in {"exit0", "exit1"}
  /\ UNCHANGED <<memory, spawned, resets>>
  /\ \/ lockFile' = lockFile /\ script'[s].holds \in {0, script[s].holds}
     \/ /\ script[s].stage = "starting" /\ script'[s].stage = "working" /\ ~LockHeld
        /\ lockFile' = IF lockFile = 0 THEN s ELSE lockFile
        /\ script'[s].holds = lockFile'

(* Every step of a script is of that kind.                                 *)
LEMMA RunsOn ==
  ASSUME Typed, NEW s \in Scripts, ScriptRuns(s)
  PROVE  RanOn(s)
<1>0. /\ script[s] \in ScriptRow /\ script[s].out \in Seq(Lines)
      /\ script[s].holds \in 0 .. MaxScripts /\ script[s].since \in 0 .. MaxResets
      /\ script[s].kind \in OpKinds \cup {"deploy"}
      /\ script[s].code \in {0, 1} /\ s \in 0 .. MaxScripts /\ 0 \in 0 .. MaxScripts
  BY BoundsAssumption DEF Typed, ScriptRow, Scripts
<1>1. \A line \in Lines :
        /\ Append(script[s].out, line) \in Seq(Lines)
        /\ Append(script[s].out, line) # <<>>
        /\ Append(script[s].out, line)[Len(Append(script[s].out, line))] = line
  BY <1>0, PipeGrows
<1>2. CASE SpawnFails(s)
  <2> DEFINE row == [script[s] EXCEPT !.stage = "stillborn", !.out = <<"error", "exit1">>]
  <2>1. <<"error", "exit1">> \in Seq(Lines)
    BY DEF Lines
  <2>2. row \in ScriptRow
    BY <1>0, <2>1 DEF Said, ScriptRow, Stages
  <2>3. OneRow(s, row)
    BY <1>2, <2>2, OneRowChanges DEF SpawnFails
  <2>4. /\ row.kind = script[s].kind /\ row.since = script[s].since
        /\ row.holds = script[s].holds /\ row.stage = "stillborn"
        /\ row.out = <<"error", "exit1">>
    BY <1>0 DEF Said, ScriptRow
  <2> HIDE DEF row
  <2> QED  BY <1>2, <2>3, <2>4 DEF OneRow, RanOn, SpawnFails
<1>3. CASE TakeLock(s)
  <2>1. CASE LockHeld
    <3> DEFINE row == Said(script[s], "ending", "failed")
    <3>1. row \in ScriptRow
      BY <1>0, <1>1 DEF Said, ScriptRow, Stages, Lines
    <3>2. OneRow(s, row)
      BY <1>3, <2>1, <3>1, OneRowChanges DEF TakeLock, Turned
    <3>3. /\ row.kind = script[s].kind /\ row.since = script[s].since
          /\ row.holds = script[s].holds /\ row.stage = "ending"
      BY <1>0 DEF Said, ScriptRow
    <3> HIDE DEF row
    <3> QED  BY <1>3, <2>1, <3>2, <3>3 DEF OneRow, RanOn, TakeLock
  <2>2. CASE ~LockHeld
    <3> DEFINE row == [Said(script[s], "working", "step") EXCEPT !.holds = lockFile']
    <3>0. lockFile' = (IF lockFile = 0 THEN s ELSE lockFile) /\ lockFile' \in 0 .. MaxScripts
      BY <1>0, <1>3, <2>2 DEF TakeLock, Typed
    <3>1. row \in ScriptRow
      BY <1>0, <1>1, <3>0 DEF Said, ScriptRow, Stages, Lines
    <3>2. OneRow(s, row)
      BY <1>3, <2>2, <3>1, OneRowChanges DEF TakeLock
    <3>3. /\ row.kind = script[s].kind /\ row.since = script[s].since
          /\ row.holds = lockFile' /\ row.stage = "working"
      BY <1>0 DEF Said, ScriptRow
    <3> HIDE DEF row
    <3> QED  BY <1>3, <2>2, <3>0, <3>2, <3>3 DEF OneRow, RanOn, TakeLock
  <2> QED  BY <2>1, <2>2
<1>4. CASE OpBegins(s)
  <2> DEFINE row == Said(script[s], "working", "step")
  <2>1. row \in ScriptRow
    BY <1>0, <1>1 DEF Said, ScriptRow, Stages, Lines
  <2>2. OneRow(s, row)
    BY <1>4, <2>1, OneRowChanges DEF OpBegins, Turned
  <2>3. /\ row.kind = script[s].kind /\ row.since = script[s].since
        /\ row.holds = script[s].holds /\ row.stage = "working"
    BY <1>0 DEF Said, ScriptRow
  <2> HIDE DEF row
  <2> QED  BY <1>4, <2>2, <2>3 DEF OneRow, RanOn, OpBegins
<1>5. CASE WorkEnds(s)
  <2>1. PICK row \in ScriptRow :
          /\ script' = [script EXCEPT ![s] = row]
          /\ row.kind = script[s].kind /\ row.since = script[s].since
          /\ row.holds = script[s].holds /\ row.stage = "ending"
    <3>1. CASE script' = [script EXCEPT ![s] =
                              [Said(script[s], "ending", "complete") EXCEPT !.code = 0]]
      <4> DEFINE row == [Said(script[s], "ending", "complete") EXCEPT !.code = 0]
      <4>1. row \in ScriptRow
        BY <1>0, <1>1 DEF Said, ScriptRow, Stages, Lines
      <4>2. /\ row.kind = script[s].kind /\ row.since = script[s].since
            /\ row.holds = script[s].holds /\ row.stage = "ending"
        BY <1>0 DEF Said, ScriptRow
      <4>3. script' = [script EXCEPT ![s] = row]
        BY <3>1
      <4> HIDE DEF row
      <4> QED  BY <4>1, <4>2, <4>3
    <3>2. CASE script' = Turned(s, "ending", "failed")
      <4> DEFINE row == Said(script[s], "ending", "failed")
      <4>1. row \in ScriptRow
        BY <1>0, <1>1 DEF Said, ScriptRow, Stages, Lines
      <4>2. /\ row.kind = script[s].kind /\ row.since = script[s].since
            /\ row.holds = script[s].holds /\ row.stage = "ending"
        BY <1>0 DEF Said, ScriptRow
      <4>3. script' = [script EXCEPT ![s] = row]
        BY <3>2 DEF Turned
      <4> HIDE DEF row
      <4> QED  BY <4>1, <4>2, <4>3
    <3>3. CASE script' = [script EXCEPT ![s] = [@ EXCEPT !.stage = "ending"]]
      <4> DEFINE row == [script[s] EXCEPT !.stage = "ending"]
      <4>1. row \in ScriptRow
        BY <1>0 DEF Said, ScriptRow, Stages
      <4>2. /\ row.kind = script[s].kind /\ row.since = script[s].since
            /\ row.holds = script[s].holds /\ row.stage = "ending"
        BY <1>0 DEF Said, ScriptRow
      <4>3. script' = [script EXCEPT ![s] = row]
        BY <3>3
      <4> HIDE DEF row
      <4> QED  BY <4>1, <4>2, <4>3
    <3> QED  BY <1>5, <3>1, <3>2, <3>3 DEF WorkEnds
  <2>2. OneRow(s, row)
    BY <2>1, OneRowChanges
  <2> QED  BY <1>5, <2>1, <2>2 DEF OneRow, RanOn, WorkEnds
<1>6. CASE Exits(s)
  <2> DEFINE line == IF script[s].code = 0 THEN "exit0" ELSE "exit1"
             row == [Said(script[s], "gone", line) EXCEPT !.holds = 0, !.code = 1]
  <2>0. line \in Lines /\ line \in {"exit0", "exit1"}
    BY DEF Lines
  <2>1. script' = [script EXCEPT ![s] = row]
    BY <1>6 DEF Exits
  <2> HIDE DEF line
  <2>2. row \in ScriptRow
    BY <1>0, <1>1, <2>0 DEF Said, ScriptRow, Stages
  <2>3. OneRow(s, row)
    BY <2>1, <2>2, OneRowChanges
  <2>4. /\ row.kind = script[s].kind /\ row.since = script[s].since
        /\ row.holds = 0 /\ row.stage = "gone" /\ row.out = Append(script[s].out, line)
    BY <1>0 DEF Said, ScriptRow
  <2> HIDE DEF row
  <2> QED  BY <1>1, <1>6, <2>0, <2>3, <2>4 DEF OneRow, RanOn, Exits
<1> QED  BY <1>2, <1>3, <1>4, <1>5, <1>6 DEF ScriptRuns

(* What becomes of a script whose next line is taken                       *)
LineGone(s) ==
  /\ script' \in [Scripts -> ScriptRow]
  /\ \A t \in Scripts : t # s => script'[t] = script[t]
  /\ script'[s].kind = script[s].kind /\ script'[s].since = script[s].since
  /\ script'[s].stage = script[s].stage /\ script'[s].holds = script[s].holds
  /\ script[s].out # <<>> /\ script'[s].out = Tail(script[s].out)
  /\ UNCHANGED <<spawned, lockFile, resets>>

(* Taking a line takes the head of one pipe and nothing else of the        *)
(* scripts.                                                                *)
LEMMA LineTakes ==
  ASSUME Typed, NEW s \in Scripts, NEW line, Line(s, line)
  PROVE  LineGone(s)
<1> DEFINE row == [script[s] EXCEPT !.out = Tail(script[s].out)]
<1>1. script[s] \in ScriptRow /\ script[s].out # <<>>
  BY DEF Line, Typed
<1>2. Tail(script[s].out) \in Seq(Lines)
  BY <1>1 DEF ScriptRow
<1>3. row \in ScriptRow
  BY <1>1, <1>2 DEF ScriptRow
<1>4. OneRow(s, row)
  BY <1>3, OneRowChanges DEF Line, Taken
<1>5. /\ row.kind = script[s].kind /\ row.since = script[s].since
      /\ row.stage = script[s].stage /\ row.holds = script[s].holds
      /\ row.out = Tail(script[s].out)
  BY <1>1 DEF ScriptRow
<1> HIDE DEF row
<1> QED  BY <1>1, <1>4, <1>5 DEF OneRow, LineGone, Line

(* So does every handler of a line.                                        *)
LEMMA HandlersTake ==
  ASSUME Typed, NEW s \in Scripts, LineTaken(s)
  PROVE  LineGone(s)
<1>1. \E line : Line(s, line)
  BY DEF LineTaken, DeployStep, DeployMarker, DeployError, DeployExit, OpStep, OpMarker, OpExit
<1> QED  BY <1>1, LineTakes

(* What SIGTERM leaves of the scripts: only the stage and the pipe of one  *)
(* that is starting or at work change.                                     *)
LEMMA KilledRows ==
  ASSUME Typed, NEW p \in 0 .. MaxScripts
  PROVE  /\ Killed(p) \in [Scripts -> ScriptRow]
         /\ \A s \in Scripts :
              /\ Killed(p)[s].kind = script[s].kind
              /\ Killed(p)[s].holds = script[s].holds
              /\ Killed(p)[s].since = script[s].since
              /\ \/ Killed(p)[s] = script[s]
                 \/ /\ script[s].stage = "starting" /\ Killed(p)[s].stage = "gone"
                    /\ Killed(p)[s].out # <<>>
                    /\ Killed(p)[s].out[Len(Killed(p)[s].out)] = "exit1"
                 \/ /\ script[s].stage = "working" /\ Killed(p)[s].stage = "orphan"
<1>1. CASE p = 0
  BY <1>1 DEF Killed, Typed
<1>2. CASE p # 0
  <2>0. p \in Scripts
    BY <1>2 DEF Scripts
  <2>1. script[p] \in ScriptRow /\ script[p].out \in Seq(Lines)
    BY <2>0 DEF Typed, ScriptRow
  <2>2. \A line \in Lines :
          /\ Append(script[p].out, line) \in Seq(Lines)
          /\ Append(script[p].out, line) # <<>>
          /\ Append(script[p].out, line)[Len(Append(script[p].out, line))] = line
    BY <2>1, PipeGrows
  <2>3. CASE script[p].stage = "starting"
    <3> DEFINE row == Said(script[p], "gone", "exit1")
    <3>1. Killed(p) = [script EXCEPT ![p] = row]
      BY <1>2, <2>3 DEF Killed, Turned
    <3>2. row \in ScriptRow
      BY <2>1, <2>2 DEF Said, ScriptRow, Stages, Lines
    <3>3. /\ row.stage = "gone" /\ row.kind = script[p].kind
          /\ row.holds = script[p].holds /\ row.since = script[p].since
          /\ row.out = Append(script[p].out, "exit1")
      BY <2>1 DEF Said, ScriptRow
    <3>4. row.out # <<>> /\ row.out[Len(row.out)] = "exit1"
      BY <2>2, <3>3 DEF Lines
    <3> HIDE DEF row
    <3> QED  BY <2>0, <2>3, <3>1, <3>2, <3>3, <3>4 DEF Typed
  <2>4. CASE script[p].stage = "working"
    <3> DEFINE row == IF script[p].kind = "deploy" THEN Said(script[p], "orphan", "failed")
                      ELSE [script[p] EXCEPT !.stage = "orphan"]
    <3>1. Killed(p) = [script EXCEPT ![p] = row]
      BY <1>2, <2>4 DEF Killed, Turned
    <3>2. row \in ScriptRow
      BY <2>1, <2>2 DEF Said, ScriptRow, Stages, Lines
    <3>3. /\ row.stage = "orphan" /\ row.kind = script[p].kind
          /\ row.holds = script[p].holds /\ row.since = script[p].since
      BY <2>1 DEF Said, ScriptRow
    <3> HIDE DEF row
    <3> QED  BY <2>0, <2>4, <3>1, <3>2, <3>3 DEF Typed
  <2>5. CASE script[p].stage \notin {"starting", "working"}
    <3>1. Killed(p) = script
      BY <1>2, <2>5 DEF Killed
    <3> QED  BY <3>1 DEF Typed
  <2> QED  BY <2>3, <2>4, <2>5
<1> QED  BY <1>1, <1>2

-----------------------------------------------------------------------------
(* Next, one group of steps at a time                                      *)

Spawns(kind) == Spawn(kind) /\ resets' = resets

Kills(p) ==
  /\ script' = Killed(p)
  /\ \/ lockFile' = 0 /\ resets' = resets + 1 /\ resets < MaxResets
     \/ UNCHANGED <<lockFile, resets>>
  /\ spawned' = spawned

StandsStill == UNCHANGED <<script, spawned, lockFile, resets>>

(* Every step spawns a script, runs one, takes one's line, kills one,      *)
(* restarts the service or leaves the scripts alone.                       *)
LEMMA StepKinds ==
  ASSUME Typed, [Next]_vars
  PROVE  \/ \E s \in Scripts : ScriptRuns(s) \/ LineTaken(s)
         \/ TriggerDeploy /\ Spawns("deploy")
         \/ \E kind \in OpKinds : RunOpScript(kind) /\ Spawns(kind)
         \/ ResetDeploy /\ Kills(deployProcess)
         \/ CancelOp /\ Kills(opProcess)
         \/ Restart
         \/ SocketCancel /\ StandsStill
         \/ StandsStill /\ UNCHANGED memory
<1>1. CASE HandlesRequest
  <2>1. CASE TriggerDeploy
    BY <2>1 DEF TriggerDeploy, SpawnDeploy, Spawns
  <2>2. CASE ResetDeploy
    BY <2>2 DEF ResetDeploy, Kills
  <2>3. CASE CancelOp
    BY <2>3 DEF CancelOp, Kills
  <2>4. CASE SocketCancel
    BY <2>4 DEF SocketCancel, StandsStill, scripts
  <2>5. CASE \E kind \in OpKinds : SocketOp(kind)
    BY <2>5 DEF SocketOp, RunOpScript, Spawns
  <2>6. ASSUME NEW r \in OpRequests, NEW kind \in OpKinds, OpRequestBody(r, kind)
        PROVE  RunOpScript(kind) /\ Spawns(kind)
    BY <2>6 DEF OpRequestBody, RunOpScript, Spawns
  <2>7. ASSUME NEW r \in OpRequests, CheckOpRequest(r) \/ OpRequestRefused(r)
        PROVE  StandsStill /\ UNCHANGED memory
    BY <2>7 DEF CheckOpRequest, OpRequestRefused, StandsStill, scripts
  <2> QED  BY <1>1, <2>1, <2>2, <2>3, <2>4, <2>5, <2>6, <2>7 DEF HandlesRequest
<1>2. CASE \E p \in Pages : Connect(p) \/ Disconnect(p)
  BY <1>2 DEF Connect, Disconnect, StandsStill, scripts
<1>3. CASE UNCHANGED vars
  BY <1>3 DEF vars, scripts, StandsStill
<1> QED  BY <1>1, <1>2, <1>3 DEF Next

-----------------------------------------------------------------------------
(* Types and the table of scripts                                          *)

(* A script that is not spawned yet says and holds nothing.                *)
Unborn == \A s \in Scripts : s > spawned =>
            script[s].stage = "none" /\ script[s].holds = 0 /\ script[s].out = <<>>

(* A script that died with the service is a row, holding and saying        *)
(* nothing.                                                                *)
LEMMA DeadRow ==
  ASSUME NEW row \in ScriptRow
  PROVE  /\ Dead(row) \in ScriptRow
         /\ Dead(row).kind = row.kind /\ Dead(row).since = row.since
         /\ Dead(row).stage = "gone" /\ Dead(row).holds = 0 /\ Dead(row).out = <<>>
<1>1. <<>> \in Seq(Lines)
  OBVIOUS
<1>2. 0 \in 0 .. MaxScripts
  BY BoundsAssumption
<1>3. Dead(row) = [row EXCEPT !.stage = "gone", !.holds = 0, !.out = <<>>]
  BY DEF Dead
<1>4. /\ row.kind \in OpKinds \cup {"deploy"} /\ row.since \in 0 .. MaxResets
      /\ row.code \in {0, 1}
      /\ row = [kind |-> row.kind, stage |-> row.stage, holds |-> row.holds,
                since |-> row.since, code |-> row.code, out |-> row.out]
  BY DEF ScriptRow
<1>5. Dead(row) = [kind |-> row.kind, stage |-> "gone", holds |-> 0, since |-> row.since,
                   code |-> row.code, out |-> <<>>]
  BY <1>3, <1>4
<1> QED  BY <1>1, <1>2, <1>4, <1>5 DEF ScriptRow, Stages

(* Every step keeps the types.                                             *)
LEMMA TypesKept ==
  ASSUME Typed, [Next]_vars
  PROVE  Typed'
<1>1. CASE \E s \in Scripts : ScriptRuns(s)
  <2> PICK s \in Scripts : ScriptRuns(s)
    BY <1>1
  <2>1. RanOn(s)
    BY RunsOn
  <2> QED  BY <2>1 DEF RanOn, memory, Typed, Scripts
<1>2. CASE \E s \in Scripts : LineTaken(s)
  <2> PICK s \in Scripts : LineTaken(s)
    BY <1>2
  <2>1. LineGone(s)
    BY HandlersTake
  <2>2. /\ deployProcess' \in {0, deployProcess}
        /\ opProcess' \in {0, opProcess}
    BY DEF LineTaken, DeployStep, DeployMarker, DeployError, DeployExit, OpStep, OpMarker,
           OpExit, FinishOp, memory
  <2> QED  BY <2>1, <2>2, BoundsAssumption DEF LineGone, Typed
<1>3. CASE TriggerDeploy /\ Spawns("deploy")
  <2>1. /\ spawned' \in 0 .. MaxScripts /\ spawned' = spawned + 1
        /\ script' \in [Scripts -> ScriptRow] /\ lockFile' = lockFile
    BY <1>3, SpawnRow DEF Spawns
  <2> QED  BY <1>3, <2>1 DEF TriggerDeploy, SpawnDeploy, Spawns, Typed
<1>4. CASE \E kind \in OpKinds : RunOpScript(kind) /\ Spawns(kind)
  <2> PICK kind \in OpKinds : RunOpScript(kind) /\ Spawns(kind)
    BY <1>4
  <2>1. /\ spawned' \in 0 .. MaxScripts /\ spawned' = spawned + 1
        /\ script' \in [Scripts -> ScriptRow] /\ lockFile' = lockFile
    BY SpawnRow DEF Spawns
  <2> QED  BY <2>1 DEF RunOpScript, Spawns, Typed
<1>5. CASE ResetDeploy /\ Kills(deployProcess)
  <2>1. script' \in [Scripts -> ScriptRow]
    BY <1>5, KilledRows DEF Kills, Typed
  <2> QED  BY <1>5, <2>1, BoundsAssumption DEF ResetDeploy, Kills, Typed
<1>6. CASE CancelOp /\ Kills(opProcess)
  <2>1. script' \in [Scripts -> ScriptRow]
    BY <1>6, KilledRows DEF Kills, Typed
  <2> QED  BY <1>6, <2>1, BoundsAssumption DEF CancelOp, FinishOp, Typed
<1>7. CASE Restart
  <2>1. \A s \in Scripts : Dead(script[s]) \in ScriptRow
    BY DeadRow DEF Typed
  <2> QED  BY <1>7, <2>1, BoundsAssumption DEF Restart, Typed
<1>8. CASE SocketCancel /\ StandsStill
  BY <1>8, BoundsAssumption DEF SocketCancel, StandsStill, FinishOp, Typed
<1>9. CASE StandsStill /\ UNCHANGED memory
  BY <1>9 DEF StandsStill, memory, Typed
<1> QED
  BY <1>1, <1>2, <1>3, <1>4, <1>5, <1>6, <1>7, <1>8, <1>9, StepKinds

(* The types hold at the start.                                            *)
LEMMA TypesStart == Init => Typed /\ Unborn
<1>1. <<>> \in Seq(Lines)
  OBVIOUS
<1>2. NoScript \in ScriptRow
  BY <1>1, BoundsAssumption DEF NoScript, ScriptRow, Stages
<1> QED  BY <1>2, BoundsAssumption DEF Init, Typed, Unborn, NoScript

(* No step touches a script that is not spawned.                           *)
LEMMA UnbornKept ==
  ASSUME Typed, Unborn, [Next]_vars
  PROVE  Unborn'
<1>1. CASE \E s \in Scripts : ScriptRuns(s)
  <2> PICK s \in Scripts : ScriptRuns(s)
    BY <1>1
  <2>1. RanOn(s)
    BY RunsOn
  <2> QED  BY <2>1 DEF RanOn, Unborn
<1>2. CASE \E s \in Scripts : LineTaken(s)
  <2> PICK s \in Scripts : LineTaken(s)
    BY <1>2
  <2>1. LineGone(s)
    BY HandlersTake
  <2> QED  BY <2>1 DEF LineGone, Unborn
<1>3. CASE \E kind \in OpKinds \cup {"deploy"} : Spawns(kind)
  <2> PICK kind \in OpKinds \cup {"deploy"} : Spawns(kind)
    BY <1>3
  <2>1. /\ spawned' = spawned + 1
        /\ \A s \in Scripts : s # spawned + 1 => script'[s] = script[s]
    BY SpawnRow DEF Spawns
  <2> QED  BY <2>1 DEF Unborn, Typed, Scripts
<1>4. CASE \E p \in {deployProcess, opProcess} : Kills(p)
  <2> PICK p \in {deployProcess, opProcess} : Kills(p)
    BY <1>4
  <2>1. \A s \in Scripts : s > spawned => script'[s] = script[s]
    BY KilledRows DEF Kills, Typed, Unborn
  <2>2. \A s \in Scripts : script'[s].holds = script[s].holds
    BY KilledRows DEF Kills, Typed
  <2> QED  BY <2>1, <2>2 DEF Kills, Unborn
<1>5. CASE Restart
  BY <1>5 DEF Restart, Unborn, Typed, Scripts
<1>6. CASE StandsStill
  BY <1>6 DEF StandsStill, Unborn
<1> QED  BY <1>1, <1>2, <1>3, <1>4, <1>5, <1>6, StepKinds

-----------------------------------------------------------------------------
(* The lock of deploy.sh                                                   *)

Opened(f) == f \in Scripts /\ script[f].stage \notin {"none", "starting"}
OpenedNext(f) == f \in Scripts /\ script'[f].stage \notin {"none", "starting"}

(* A file is created by a script that is past its start, is held by one    *)
(* script at a time, and is the one at LOCK_FILE when its holder was       *)
(* started after the last reset.                                           *)
LockInv ==
  /\ \A s \in Scripts : script[s].since <= resets
  /\ \A s \in Scripts : script[s].holds # 0 => Opened(script[s].holds)
  /\ lockFile # 0 => Opened(lockFile)
  /\ \A s, t \in Scripts : s # t /\ script[s].holds # 0 => script[s].holds # script[t].holds
  /\ \A s \in Scripts :
       script[s].holds # 0 /\ script[s].since = resets => script[s].holds = lockFile

(* The invariant is what the property asks.                                *)
LEMMA LockInvEnough == LockInv => OneDeploySinceReset
BY DEF LockInv, OneDeploySinceReset

(* A step that takes no lock, or that takes one nobody holds, keeps it.    *)
LEMMA LockKept ==
  ASSUME Typed, Unborn, LockInv, [Next]_vars
  PROVE  LockInv'
<1>0. /\ \A s \in Scripts : /\ script[s].holds \in 0 .. MaxScripts
                             /\ script[s].since \in 0 .. MaxResets
      /\ resets \in 0 .. MaxResets
  BY DEF Typed, ScriptRow
<1>1. CASE \E s \in Scripts : ScriptRuns(s)
  <2> PICK s \in Scripts : ScriptRuns(s)
    BY <1>1
  <2>1. RanOn(s)
    BY RunsOn
  <2>2. \A f : Opened(f) => OpenedNext(f)
    BY <2>1 DEF RanOn, Opened, OpenedNext
  <2>3. CASE lockFile' = lockFile /\ script'[s].holds \in {0, script[s].holds}
    BY <2>1, <2>2, <2>3 DEF RanOn, LockInv, Opened, OpenedNext
  <2>4. CASE /\ script[s].stage = "starting" /\ script'[s].stage = "working" /\ ~LockHeld
             /\ lockFile' = IF lockFile = 0 THEN s ELSE lockFile
             /\ script'[s].holds = lockFile'
    <3>1. s # 0 /\ lockFile' # 0
      BY <2>4 DEF Scripts
    <3>2. \A t \in Scripts : script[t].holds # lockFile'
      <4>1. CASE lockFile = 0
        BY <2>4, <3>1, <4>1 DEF LockInv, Opened
      <4>2. CASE lockFile # 0
        BY <2>4, <4>2 DEF LockHeld
      <4> QED  BY <4>1, <4>2
    <3>3. OpenedNext(lockFile')
      <4>1. OpenedNext(s)
        BY <2>4 DEF OpenedNext
      <4>2. lockFile # 0 => OpenedNext(lockFile)
        BY <2>2 DEF LockInv
      <4> QED  BY <2>4, <4>1, <4>2
    <3>4. \A t \in Scripts : t # s => script'[t] = script[t]
      BY <2>1 DEF RanOn
    <3>5. \A t \in Scripts :
            t # s /\ script[t].holds # 0 /\ script[t].since = resets => lockFile' = lockFile
      BY <2>4, <3>1 DEF LockInv
    <3>6. resets' = resets /\ script'[s].since = script[s].since
      BY <2>1 DEF RanOn
    <3>7. (\A t \in Scripts : script[t].holds # 0 => Opened(script[t].holds))'
      BY <2>2, <2>4, <3>3, <3>4 DEF LockInv, Opened, OpenedNext
    <3>8. (\A t, u \in Scripts :
             t # u /\ script[t].holds # 0 => script[t].holds # script[u].holds)'
      BY <2>4, <3>1, <3>2, <3>4 DEF LockInv
    <3>9. (\A t \in Scripts :
             script[t].holds # 0 /\ script[t].since = resets => script[t].holds = lockFile)'
      BY <2>4, <3>4, <3>5, <3>6 DEF LockInv
    <3> QED  BY <3>3, <3>4, <3>6, <3>7, <3>8, <3>9 DEF LockInv, Opened, OpenedNext
  <2> QED  BY <2>1, <2>3, <2>4 DEF RanOn
<1>2. CASE \E s \in Scripts : LineTaken(s)
  <2> PICK s \in Scripts : LineTaken(s)
    BY <1>2
  <2>1. LineGone(s)
    BY HandlersTake
  <2>2. \A f : Opened(f) => OpenedNext(f)
    BY <2>1 DEF LineGone, Opened, OpenedNext
  <2> QED  BY <2>1, <2>2 DEF LineGone, LockInv, Opened, OpenedNext
<1>3. CASE \E kind \in OpKinds \cup {"deploy"} : Spawns(kind)
  <2> PICK kind \in OpKinds \cup {"deploy"} : Spawns(kind)
    BY <1>3
  <2>1. /\ spawned + 1 \in Scripts /\ lockFile' = lockFile /\ resets' = resets
        /\ \A s \in Scripts : s # spawned + 1 => script'[s] = script[s]
        /\ script'[spawned + 1].since = resets
        /\ script'[spawned + 1].holds = script[spawned + 1].holds
    BY SpawnRow DEF Spawns
  <2>2. script[spawned + 1].stage = "none" /\ script[spawned + 1].holds = 0
    BY <2>1 DEF Unborn, Typed
  <2>3. \A f : Opened(f) => OpenedNext(f)
    BY <2>1, <2>2 DEF Opened, OpenedNext
  <2> QED  BY <1>0, <2>1, <2>2, <2>3 DEF LockInv, Opened, OpenedNext
<1>4. CASE \E p \in {deployProcess, opProcess} : Kills(p)
  <2> PICK p \in {deployProcess, opProcess} : Kills(p)
    BY <1>4
  <2>1. \A s \in Scripts : /\ script'[s].holds = script[s].holds
                           /\ script'[s].since = script[s].since
                           /\ script[s].stage \notin {"none", "starting"} =>
                                script'[s].stage \notin {"none", "starting"}
    BY KilledRows DEF Kills, Typed
  <2>2. \A f : Opened(f) => OpenedNext(f)
    BY <2>1 DEF Opened, OpenedNext
  <2>3. CASE lockFile' = 0 /\ resets' = resets + 1
    BY <1>0, <2>1, <2>2, <2>3 DEF LockInv, Opened, OpenedNext
  <2>4. CASE UNCHANGED <<lockFile, resets>>
    BY <2>1, <2>2, <2>4 DEF LockInv, Opened, OpenedNext
  <2> QED  BY <2>3, <2>4 DEF Kills
<1>5. CASE Restart
  <2>1. \A s \in Scripts :
          /\ script'[s].holds = IF s <= spawned THEN 0 ELSE script[s].holds
          /\ script'[s].since = script[s].since
          /\ s <= spawned => script'[s].stage = "gone"
          /\ s > spawned => script'[s] = script[s]
    <3>1. \A s \in Scripts :
            script'[s] = IF s <= spawned THEN Dead(script[s]) ELSE script[s]
      BY <1>5 DEF Restart
    <3>2. \A s \in Scripts : script[s] \in ScriptRow /\ s \in Nat /\ spawned \in Nat
      BY DEF Typed, Scripts
    <3>3. \A s \in Scripts : s > spawned => script[s].since = script'[s].since
      BY <3>1, <3>2
    <3> QED  BY <3>1, <3>2, <3>3, DeadRow
  <2>2. \A s \in Scripts : script'[s].holds = 0
    BY <2>1 DEF Unborn, Typed, Scripts
  <2>3. \A f : Opened(f) => OpenedNext(f)
    BY <2>1 DEF Opened, OpenedNext, Unborn, Typed, Scripts
  <2> QED  BY <1>5, <2>1, <2>2, <2>3 DEF Restart, LockInv, Opened, OpenedNext
<1>6. CASE StandsStill
  BY <1>6 DEF StandsStill, LockInv, Opened
<1> QED  BY <1>1, <1>2, <1>3, <1>4, <1>5, <1>6, StepKinds

(* Of the deploys started since the last reset no two are past their lock  *)
(* at the same time, whatever was reset, killed or refused before.         *)
THEOREM DeploysExclusive == Spec => []OneDeploySinceReset
<1>1. Init => LockInv
  BY BoundsAssumption DEF Init, LockInv, NoScript
<1>2. Typed /\ Unborn /\ LockInv /\ [Next]_vars => Typed' /\ Unborn' /\ LockInv'
  BY TypesKept, UnbornKept, LockKept
<1> QED  BY <1>1, <1>2, TypesStart, LockInvEnough, PTL DEF Spec

-----------------------------------------------------------------------------
(* A running state waits for an exit                                       *)

Live == {"starting", "working", "orphan", "ending"}
ExitLines == {"exit0", "exit1"}

(* The last line of a script that is no more is its exit, the process held *)
(* for a deploy is a deploy's, and a running state is one an exit is still *)
(* to come for.                                                            *)
AwaitInv ==
  /\ deploy \in [state : States, run : 0 .. MaxScripts, heard : SUBSET Scripts]
  /\ op \in [op : OpKinds \cup {"none"}, state : States]
  /\ \A s \in Scripts : script[s].stage \notin Live /\ script[s].out # <<>> =>
       script[s].out[Len(script[s].out)] \in ExitLines
  /\ deployProcess # 0 =>
       deployProcess <= spawned /\ script[deployProcess].kind = "deploy"
  /\ opProcess # 0 => opProcess <= spawned /\ script[opProcess].kind \in OpKinds
  /\ RunningAwaited

AheadNext(p) == p # 0 /\ (script'[p].stage \in Live \/ script'[p].out # <<>>)

(* Without its head a pipe ends as it did, and a head that is no exit is   *)
(* not all of a pipe that ends with one.                                   *)
LEMMA PipeShrinks ==
  ASSUME NEW out \in Seq(Lines), out # <<>>
  PROVE  /\ Tail(out) # <<>> => Tail(out)[Len(Tail(out))] = out[Len(out)]
         /\ out[Len(out)] \in ExitLines /\ Head(out) \notin ExitLines => Tail(out) # <<>>
<1>1. Len(out) \in Nat /\ Len(out) # 0 /\ Len(Tail(out)) = Len(out) - 1
  OBVIOUS
<1>2. \A i \in 1 .. Len(out) - 1 : Tail(out)[i] = out[i + 1]
  OBVIOUS
<1>3. Tail(out) # <<>> => Len(out) - 1 # 0
  BY <1>1
<1>4. Len(out) = 1 => out[Len(out)] = Head(out)
  OBVIOUS
<1>5. Len(out) # 1 => Tail(out) # <<>>
  <2>0. Len(<<>>) = 0
    OBVIOUS
  <2>1. Tail(out) = <<>> => Len(Tail(out)) = 0
    BY <2>0, Zenon
  <2> QED  BY <1>1, <2>1
<1> QED  BY <1>1, <1>2, <1>3, <1>4, <1>5

(* The process of a running state is one of the scripts.                   *)
LEMMA AwaitedIsScript ==
  ASSUME Typed, AwaitInv
  PROVE  /\ deploy.state = "running" => deployProcess \in Scripts
         /\ op.state = "running" => opProcess \in Scripts
BY DEF Typed, AwaitInv, RunningAwaited, ExitAhead, Scripts

(* A step of a script leaves every exit that is to come to come.           *)
LEMMA AwaitRuns ==
  ASSUME Typed, AwaitInv, NEW s \in Scripts, ScriptRuns(s)
  PROVE  AwaitInv'
<1>1. RanOn(s)
  BY RunsOn
<1>2. \A p \in Scripts : ExitAhead(p) => AheadNext(p)
  BY <1>1 DEF RanOn, ExitAhead, AheadNext, Live
<1>3. RunningAwaited'
  BY <1>1, <1>2, AwaitedIsScript DEF RanOn, memory, AwaitInv, RunningAwaited, AheadNext, ExitAhead,
     Live
<1>4. (\A t \in Scripts : script[t].stage \notin Live /\ script[t].out # <<>> =>
         script[t].out[Len(script[t].out)] \in ExitLines)'
  BY <1>1 DEF RanOn, AwaitInv, Live, ExitLines
<1>5. \A t \in Scripts : script'[t].kind = script[t].kind
  BY <1>1 DEF RanOn
<1>6. /\ (deployProcess # 0 =>
             deployProcess <= spawned /\ script[deployProcess].kind = "deploy")'
      /\ (opProcess # 0 => opProcess <= spawned /\ script[opProcess].kind \in OpKinds)'
  BY <1>1, <1>5 DEF RanOn, memory, AwaitInv, Typed, Scripts
<1> QED  BY <1>1, <1>3, <1>4, <1>6 DEF RanOn, memory, AwaitInv

(* What taking a line does to the exits that are to come: it takes none,   *)
(* unless it is one.                                                       *)
LEMMA AwaitLine ==
  ASSUME Typed, AwaitInv, NEW s \in Scripts, LineGone(s)
  PROVE  /\ \A t \in Scripts : script'[t].stage \notin Live /\ script'[t].out # <<>> =>
              script'[t].out[Len(script'[t].out)] \in ExitLines
         /\ \A p \in Scripts : p # s /\ ExitAhead(p) => AheadNext(p)
         /\ Head(script[s].out) \notin ExitLines /\ ExitAhead(s) => AheadNext(s)
         /\ \A t \in Scripts : script'[t].kind = script[t].kind
<1>1. script[s].out \in Seq(Lines) /\ script[s].out # <<>>
  BY DEF Typed, ScriptRow, LineGone
<1>2. script[s].stage \notin Live => script[s].out[Len(script[s].out)] \in ExitLines
  BY <1>1 DEF AwaitInv
<1>3. /\ Tail(script[s].out) # <<>> =>
           Tail(script[s].out)[Len(Tail(script[s].out))] = script[s].out[Len(script[s].out)]
      /\ script[s].out[Len(script[s].out)] \in ExitLines /\ Head(script[s].out) \notin ExitLines =>
           Tail(script[s].out) # <<>>
  BY <1>1, PipeShrinks
<1> QED  BY <1>1, <1>2, <1>3 DEF LineGone, AwaitInv, ExitAhead, AheadNext, Live

(* The handlers of the lines: a deploy's exit is none an operation waits   *)
(* for, nor the other way round, and a deploy that hears an exit runs no   *)
(* longer.                                                                 *)
LEMMA AwaitTakes ==
  ASSUME Typed, AwaitInv, NEW s \in Scripts, LineTaken(s)
  PROVE  AwaitInv'
<1>1. LineGone(s)
  BY HandlersTake
<1> DEFINE PipesEnd == \A t \in Scripts : script[t].stage \notin Live /\ script[t].out # <<>> =>
                         script[t].out[Len(script[t].out)] \in ExitLines
           Held == /\ deployProcess # 0 =>
                        deployProcess <= spawned /\ script[deployProcess].kind = "deploy"
                   /\ opProcess # 0 => opProcess <= spawned /\ script[opProcess].kind \in OpKinds
<1>2. PipesEnd'
  BY <1>1, AwaitLine
<1>3. /\ deployProcess' \in {0, deployProcess} /\ opProcess' \in {0, opProcess}
  BY DEF LineTaken, DeployStep, DeployMarker, DeployError, DeployExit, OpStep, OpMarker,
         OpExit, FinishOp, memory
<1>4. Held'
  BY <1>1, <1>3, AwaitLine DEF LineGone, AwaitInv, Typed, Scripts
<1>5. /\ s # 0
      /\ \A p \in Scripts : p # s /\ ExitAhead(p) => AheadNext(p)
      /\ Head(script[s].out) \notin ExitLines => \A p \in Scripts : ExitAhead(p) => AheadNext(p)
  BY <1>1, AwaitLine DEF Scripts
<1>6. /\ deploy' \in [state : States, run : 0 .. MaxScripts, heard : SUBSET Scripts]
      /\ op' \in [op : OpKinds \cup {"none"}, state : States]
      /\ deploy'.state = "running" => deploy.state = "running" /\ AheadNext(deployProcess')
      /\ op'.state = "running" => op.state = "running" /\ AheadNext(opProcess')
  <2>0. \A state \in States \ {"running"} :
          /\ [deploy EXCEPT !.state = state, !.heard = @ \cup {s}] \in
                [state : States, run : 0 .. MaxScripts, heard : SUBSET Scripts]
          /\ [deploy EXCEPT !.state = state, !.heard = @ \cup {s}].state = state
          /\ [op EXCEPT !.state = state] \in [op : OpKinds \cup {"none"}, state : States]
          /\ [op EXCEPT !.state = state].state = state
    BY DEF AwaitInv
  <2>a. deploy.state = "running" => deployProcess \in Scripts /\ ExitAhead(deployProcess)
    BY AwaitedIsScript DEF AwaitInv, RunningAwaited
  <2>b. op.state = "running" => opProcess \in Scripts /\ ExitAhead(opProcess)
    BY AwaitedIsScript DEF AwaitInv, RunningAwaited
  <2>1. CASE DeployStep(s)
    <3>1. Head(script[s].out) \notin ExitLines
      BY <2>1 DEF DeployStep, Line, ExitLines
    <3>2. /\ [deploy EXCEPT !.heard = @ \cup {s}] \in
                [state : States, run : 0 .. MaxScripts, heard : SUBSET Scripts]
          /\ [deploy EXCEPT !.heard = @ \cup {s}].state = deploy.state
      BY DEF AwaitInv
    <3> QED  BY <1>5, <2>1, <2>a, <2>b, <3>1, <3>2 DEF DeployStep, AwaitInv
  <2>2. CASE DeployMarker(s) \/ DeployError(s)
    <3>1. Head(script[s].out) \notin ExitLines
      BY <2>2 DEF DeployMarker, DeployError, Line, ExitLines
    <3>2. \E state \in States \ {"running"} : FinishDeploy(s, state)
      BY <2>2 DEF DeployMarker, DeployError, States
    <3>3. UNCHANGED <<op, opProcess>>
      BY <2>2 DEF DeployMarker, DeployError
    <3> QED  BY <1>5, <2>0, <2>b, <3>1, <3>2, <3>3 DEF FinishDeploy, AwaitInv
  <2>3. CASE DeployExit(s)
    <3>1. op.state = "running" => opProcess # s
      BY <2>3, <2>b DEF DeployExit, AwaitInv, Scripts, OpKinds
    <3>2. UNCHANGED <<op, opProcess>>
      BY <2>3 DEF DeployExit
    <3>3. \/ \E state \in States \ {"running"} : FinishDeploy(s, state)
          \/ deploy' = deploy /\ deploy.state # "running"
      BY <2>3 DEF DeployExit, States
    <3> QED  BY <1>5, <2>0, <2>b, <3>1, <3>2, <3>3 DEF FinishDeploy, AwaitInv
  <2>4. CASE OpStep(s)
    <3>1. Head(script[s].out) \notin ExitLines
      BY <2>4 DEF OpStep, Line, ExitLines
    <3> QED  BY <1>5, <2>4, <2>a, <2>b, <3>1 DEF OpStep, memory, AwaitInv
  <2>5. CASE OpMarker(s)
    <3>1. Head(script[s].out) \notin ExitLines
      BY <2>5 DEF OpMarker, Line, ExitLines
    <3>2. \E state \in States \ {"running"} : FinishOp(state)
      BY <2>5 DEF OpMarker, States
    <3>3. UNCHANGED <<deploy, deployProcess>>
      BY <2>5 DEF OpMarker
    <3> QED  BY <1>5, <2>0, <2>a, <3>1, <3>2, <3>3 DEF FinishOp, AwaitInv
  <2>6. CASE OpExit(s)
    <3>1. deploy.state = "running" => deployProcess # s
      BY <2>6, <2>a DEF OpExit, AwaitInv, Scripts, OpKinds
    <3>2. UNCHANGED <<deploy, deployProcess>>
      BY <2>6 DEF OpExit
    <3>3. \/ \E state \in States \ {"running"} : FinishOp(state)
          \/ op' = op /\ op.state # "running"
      BY <2>6 DEF OpExit, States
    <3> QED  BY <1>5, <2>0, <2>a, <3>1, <3>2, <3>3 DEF FinishOp, AwaitInv
  <2> QED  BY <2>1, <2>2, <2>3, <2>4, <2>5, <2>6 DEF LineTaken
<1>7. RunningAwaited'
  BY <1>6 DEF RunningAwaited, ExitAhead, AheadNext, Live
<1> QED  BY <1>2, <1>4, <1>6, <1>7 DEF AwaitInv


(* What a script that was just spawned, or the kill of one, does to the    *)
(* exits that are to come.                                                 *)
PipesEnd == \A t \in Scripts : script[t].stage \notin Live /\ script[t].out # <<>> =>
              script[t].out[Len(script[t].out)] \in ExitLines

(* A spawned script has its exit to come, and so have the others still.    *)
LEMMA AwaitSpawns ==
  ASSUME Typed, AwaitInv, NEW kind \in OpKinds \cup {"deploy"}, Spawn(kind)
  PROVE  /\ PipesEnd' /\ AheadNext(spawned + 1) /\ script'[spawned + 1].kind = kind
         /\ spawned' = spawned + 1 /\ spawned + 1 \in Scripts
         /\ \A p \in Scripts : p <= spawned => script'[p] = script[p]
         /\ \A p \in Scripts : p <= spawned /\ ExitAhead(p) => AheadNext(p)
<1>1. /\ spawned + 1 \in Scripts /\ spawned' = spawned + 1
      /\ \A s \in Scripts : s # spawned + 1 => script'[s] = script[s]
      /\ script'[spawned + 1].kind = kind
      /\ script'[spawned + 1].stage = "starting"
  BY SpawnRow
<1>2. \A s \in Scripts : s <= spawned => s # spawned + 1
  BY DEF Typed, Scripts
<1>3. PipesEnd'
  BY <1>1 DEF PipesEnd, AwaitInv, Live
<1> QED  BY <1>1, <1>2, <1>3 DEF ExitAhead, AheadNext, Live, Scripts

(* The kill of a script leaves its exit to come.                           *)
LEMMA AwaitKills ==
  ASSUME Typed, AwaitInv, NEW p \in 0 .. MaxScripts, Kills(p)
  PROVE  /\ PipesEnd'
         /\ \A s \in Scripts : script'[s].kind = script[s].kind
         /\ \A s \in Scripts : ExitAhead(s) => AheadNext(s)
<1>1. \A s \in Scripts :
        /\ script'[s].kind = script[s].kind
        /\ \/ script'[s] = script[s]
           \/ /\ script[s].stage = "starting" /\ script'[s].stage = "gone"
              /\ script'[s].out # <<>>
              /\ script'[s].out[Len(script'[s].out)] = "exit1"
           \/ /\ script[s].stage = "working" /\ script'[s].stage = "orphan"
  BY KilledRows DEF Kills
<1> QED  BY <1>1 DEF PipesEnd, AwaitInv, ExitAhead, AheadNext, Live, ExitLines

(* Every step leaves every running state with an exit to come.             *)
LEMMA AwaitKept ==
  ASSUME Typed, Unborn, AwaitInv, [Next]_vars
  PROVE  AwaitInv'
<1>0. /\ spawned \in Nat /\ deployProcess \in 0 .. MaxScripts /\ opProcess \in 0 .. MaxScripts
      /\ deployProcess # 0 => deployProcess \in Scripts
      /\ opProcess # 0 => opProcess \in Scripts
  BY DEF Typed, Scripts
<1>1. CASE \E s \in Scripts : ScriptRuns(s) \/ LineTaken(s)
  BY <1>1, AwaitRuns, AwaitTakes
<1>2. CASE TriggerDeploy /\ Spawns("deploy")
  <2>1. /\ PipesEnd' /\ AheadNext(spawned + 1) /\ script'[spawned + 1].kind = "deploy"
        /\ spawned' = spawned + 1 /\ spawned + 1 \in Scripts
        /\ \A p \in Scripts : p <= spawned => script'[p] = script[p]
        /\ \A p \in Scripts : p <= spawned /\ ExitAhead(p) => AheadNext(p)
    BY <1>2, AwaitSpawns DEF Spawns
  <2>2. /\ deploy' = [state |-> "running", run |-> spawned + 1, heard |-> {}]
        /\ deployProcess' = spawned + 1 /\ op' = op /\ opProcess' = opProcess
        /\ opProcess = 0
    BY <1>2 DEF TriggerDeploy, SpawnDeploy, CanDeploy
  <2>3. deploy' \in [state : States, run : 0 .. MaxScripts, heard : SUBSET Scripts]
    BY <1>0, <2>1, <2>2 DEF States, Scripts
  <2>4. op.state # "running"
    BY <2>2 DEF AwaitInv, RunningAwaited, ExitAhead
  <2> QED  BY <1>0, <2>1, <2>2, <2>3, <2>4
           DEF AwaitInv, RunningAwaited, PipesEnd, ExitAhead, AheadNext, Live
<1>3. CASE \E kind \in OpKinds : RunOpScript(kind) /\ Spawns(kind)
  <2> PICK kind \in OpKinds : RunOpScript(kind) /\ Spawns(kind)
    BY <1>3
  <2>1. /\ PipesEnd' /\ AheadNext(spawned + 1) /\ script'[spawned + 1].kind = kind
        /\ spawned' = spawned + 1 /\ spawned + 1 \in Scripts
        /\ \A p \in Scripts : p <= spawned => script'[p] = script[p]
        /\ \A p \in Scripts : p <= spawned /\ ExitAhead(p) => AheadNext(p)
    BY AwaitSpawns DEF Spawns
  <2>2. /\ op' = [op |-> kind, state |-> "running"] /\ opProcess' = spawned + 1
        /\ deploy' = deploy /\ deployProcess' = deployProcess
    BY DEF RunOpScript
  <2>3. op' \in [op : OpKinds \cup {"none"}, state : States]
    BY <2>2 DEF States
  <2>4. /\ deployProcess # 0 =>
             /\ deployProcess <= spawned' /\ script'[deployProcess].kind = "deploy"
             /\ ExitAhead(deployProcess) => AheadNext(deployProcess)
    BY <1>0, <2>1 DEF AwaitInv
  <2>5. deploy.state = "running" => AheadNext(deployProcess)
    BY <2>4 DEF AwaitInv, RunningAwaited, ExitAhead
  <2> QED  BY <1>0, <2>1, <2>2, <2>3, <2>4, <2>5
           DEF AwaitInv, RunningAwaited, PipesEnd, ExitAhead, AheadNext, Live
<1>4. CASE ResetDeploy /\ Kills(deployProcess)
  <2>1. /\ PipesEnd' /\ \A s \in Scripts : script'[s].kind = script[s].kind
        /\ \A s \in Scripts : ExitAhead(s) => AheadNext(s)
    BY <1>0, <1>4, AwaitKills
  <2>2. /\ deploy' = FreshDeploy /\ deployProcess' = 0 /\ op' = op /\ opProcess' = opProcess
        /\ spawned' = spawned
    BY <1>4 DEF ResetDeploy
  <2>3. /\ FreshDeploy \in [state : States, run : 0 .. MaxScripts, heard : SUBSET Scripts]
        /\ FreshDeploy.state # "running"
    BY BoundsAssumption DEF FreshDeploy, States
  <2>4. op.state = "running" => AheadNext(opProcess)
    BY <1>0, <2>1, AwaitedIsScript DEF AwaitInv, RunningAwaited
  <2> QED  BY <1>0, <2>1, <2>2, <2>3, <2>4
           DEF AwaitInv, RunningAwaited, PipesEnd, ExitAhead, AheadNext, Live
<1>5. CASE CancelOp /\ Kills(opProcess)
  <2>1. /\ PipesEnd' /\ \A s \in Scripts : script'[s].kind = script[s].kind
        /\ \A s \in Scripts : ExitAhead(s) => AheadNext(s)
    BY <1>0, <1>5, AwaitKills
  <2>2. /\ op' = [op EXCEPT !.state = "failed"] /\ opProcess' = 0
        /\ deploy' = deploy /\ deployProcess' = deployProcess /\ spawned' = spawned
    BY <1>5 DEF CancelOp, FinishOp
  <2>3. op' \in [op : OpKinds \cup {"none"}, state : States] /\ op'.state # "running"
    BY <2>2 DEF AwaitInv, States
  <2>4. deploy.state = "running" => AheadNext(deployProcess)
    BY <1>0, <2>1, AwaitedIsScript DEF AwaitInv, RunningAwaited
  <2> QED  BY <1>0, <2>1, <2>2, <2>3, <2>4
           DEF AwaitInv, RunningAwaited, PipesEnd, ExitAhead, AheadNext, Live
<1>6. CASE Restart
  <2>1. \A s \in Scripts : script'[s].out = <<>>
    <3>1. \A s \in Scripts :
            script'[s] = IF s <= spawned THEN Dead(script[s]) ELSE script[s]
      BY <1>6 DEF Restart
    <3>2. \A s \in Scripts : script[s] \in ScriptRow /\ s \in Nat
      BY DEF Typed, Scripts
    <3> QED  BY <1>0, <3>1, <3>2, DeadRow DEF Unborn
  <2>2. /\ deploy' = FreshDeploy /\ deployProcess' = 0 /\ op' = FreshOp /\ opProcess' = 0
    BY <1>6 DEF Restart
  <2>3. /\ FreshDeploy \in [state : States, run : 0 .. MaxScripts, heard : SUBSET Scripts]
        /\ FreshDeploy.state # "running" /\ FreshOp.state # "running"
        /\ FreshOp \in [op : OpKinds \cup {"none"}, state : States]
    BY BoundsAssumption DEF FreshDeploy, FreshOp, States
  <2> QED  BY <2>1, <2>2, <2>3 DEF AwaitInv, RunningAwaited
<1>7. CASE SocketCancel /\ StandsStill
  <2>1. /\ op' = [op EXCEPT !.state = "failed"] /\ opProcess' = 0
        /\ deploy' = deploy /\ deployProcess' = deployProcess
        /\ spawned' = spawned /\ script' = script
    BY <1>7 DEF SocketCancel, FinishOp, StandsStill
  <2>2. op' \in [op : OpKinds \cup {"none"}, state : States] /\ op'.state # "running"
    BY <2>1 DEF AwaitInv, States
  <2> QED  BY <2>1, <2>2 DEF AwaitInv, RunningAwaited, ExitAhead
<1>8. CASE StandsStill /\ UNCHANGED memory
  BY <1>8 DEF StandsStill, memory, AwaitInv, RunningAwaited, ExitAhead
<1> QED  BY <1>1, <1>2, <1>3, <1>4, <1>5, <1>6, <1>7, <1>8, StepKinds

(* A deploy or an operation that shows running has the exit of the process *)
(* held for it still to come.                                              *)
THEOREM RunningIsAwaited == Spec => []RunningAwaited
<1>1. Init => AwaitInv
  BY BoundsAssumption DEF Init, AwaitInv, RunningAwaited, NoScript, FreshDeploy, FreshOp, States
<1>2. Typed /\ Unborn /\ AwaitInv /\ [Next]_vars => Typed' /\ Unborn' /\ AwaitInv'
  BY TypesKept, UnbornKept, AwaitKept
<1>3. AwaitInv => RunningAwaited
  BY DEF AwaitInv
<1> QED  BY <1>1, <1>2, <1>3, TypesStart, PTL DEF Spec

-----------------------------------------------------------------------------
(* A deploy is heard in its own voice                                      *)

(* In a pipe an exit is the last line, of a script that is no more, and an *)
(* error is said by a script that could not be started.                    *)
WellSaid(row) ==
  \A i \in 1 .. Len(row.out) :
    /\ row.out[i] \in ExitLines => i = Len(row.out) /\ row.stage \notin Live
    /\ row.out[i] = "error" => row.stage = "stillborn"

(* What a row that was live may have become                                *)
Speaks(row, new) ==
  \/ /\ row.stage \in Live /\ new.stage = "stillborn"
     /\ new.out = <<"error", "exit1">>
  \/ /\ row.stage \in Live /\ new.stage \in Live
     /\ new.out = row.out
  \/ /\ row.stage \in Live /\ new.stage \in Live
     /\ \E line \in {"step", "complete", "failed"} : new.out = Append(row.out, line)
  \/ /\ row.stage \in Live /\ new.stage = "gone"
     /\ \E line \in ExitLines : new.out = Append(row.out, line)

(* Whatever a live row says, its pipe stays well said.                     *)
LEMMA SpeaksWell ==
  ASSUME NEW row \in ScriptRow, NEW new, WellSaid(row), Speaks(row, new)
  PROVE  WellSaid(new)
<1>1. row.out \in Seq(Lines) /\ Len(row.out) \in Nat
  BY DEF ScriptRow
<1>2. \A line \in Lines :
        /\ Len(Append(row.out, line)) = Len(row.out) + 1
        /\ Append(row.out, line)[Len(row.out) + 1] = line
        /\ \A i \in 1 .. Len(row.out) : Append(row.out, line)[i] = row.out[i]
  BY <1>1
<1>3. \A i \in 1 .. Len(row.out) : row.stage \in Live =>
        row.out[i] \notin ExitLines /\ row.out[i] # "error"
  BY DEF WellSaid, Live
<1>4. CASE new.stage = "stillborn" /\ new.out = <<"error", "exit1">>
  <2>1. Len(new.out) = 2 /\ new.out[1] = "error" /\ new.out[2] = "exit1"
    BY <1>4
  <2> QED  BY <1>4, <2>1 DEF WellSaid, ExitLines, Live
<1>5. CASE row.stage \in Live /\ new.stage \in Live /\ new.out = row.out
  BY <1>3, <1>5 DEF WellSaid
<1>6. CASE /\ row.stage \in Live /\ new.stage \in Live
           /\ \E line \in {"step", "complete", "failed"} : new.out = Append(row.out, line)
  <2> PICK line \in {"step", "complete", "failed"} : new.out = Append(row.out, line)
    BY <1>6
  <2>1. line \in Lines /\ line \notin ExitLines /\ line # "error"
    BY DEF Lines, ExitLines
  <2>a. /\ Len(new.out) = Len(row.out) + 1 /\ new.out[Len(row.out) + 1] = line
        /\ \A i \in 1 .. Len(row.out) : new.out[i] = row.out[i]
    BY <1>2, <2>1
  <2>b. \A i \in 1 .. Len(new.out) : i \in 1 .. Len(row.out) \/ i = Len(row.out) + 1
    BY <1>1, <2>a
  <2>2. \A i \in 1 .. Len(new.out) : new.out[i] \notin ExitLines /\ new.out[i] # "error"
    BY <1>3, <1>6, <2>1, <2>a, <2>b
  <2> QED  BY <2>2 DEF WellSaid
<1>7. CASE /\ row.stage \in Live /\ new.stage = "gone"
           /\ \E line \in ExitLines : new.out = Append(row.out, line)
  <2> PICK line \in ExitLines : new.out = Append(row.out, line)
    BY <1>7
  <2>1. line \in Lines /\ line # "error" /\ new.stage \notin Live
    BY <1>7 DEF Lines, ExitLines, Live
  <2>a. /\ Len(new.out) = Len(row.out) + 1 /\ new.out[Len(row.out) + 1] = line
        /\ \A i \in 1 .. Len(row.out) : new.out[i] = row.out[i]
    BY <1>2, <2>1
  <2>b. \A i \in 1 .. Len(new.out) : i \in 1 .. Len(row.out) \/ i = Len(row.out) + 1
    BY <1>1, <2>a
  <2>2. \A i \in 1 .. Len(new.out) :
          new.out[i] # "error" /\ (new.out[i] \in ExitLines => i = Len(new.out))
    BY <1>3, <1>7, <2>1, <2>a, <2>b
  <2> QED  BY <2>1, <2>2 DEF WellSaid
<1> QED  BY <1>4, <1>5, <1>6, <1>7 DEF Speaks

(* A pipe stays well said when its head is taken.                          *)
LEMMA TakenWell ==
  ASSUME NEW row \in ScriptRow, NEW new, WellSaid(row), row.out # <<>>,
         new.out = Tail(row.out), new.stage = row.stage
  PROVE  WellSaid(new)
<1>1. row.out \in Seq(Lines) /\ Len(row.out) \in Nat /\ Len(row.out) # 0
  BY DEF ScriptRow
<1>2. /\ Len(new.out) = Len(row.out) - 1
      /\ \A i \in 1 .. Len(new.out) : new.out[i] = row.out[i + 1]
  BY <1>1
<1>3. \A i \in 1 .. Len(new.out) : i + 1 \in 1 .. Len(row.out)
  BY <1>1, <1>2
<1> QED  BY <1>1, <1>2, <1>3 DEF WellSaid

(* Every step of a script is one of those.                                 *)
LEMMA RunsSpeak ==
  ASSUME Typed, NEW s \in Scripts, ScriptRuns(s)
  PROVE  Speaks(script[s], script'[s])
<1>0. script[s] \in ScriptRow /\ s \in DOMAIN script
  BY DEF Typed
<1>a. script[s] = [kind |-> script[s].kind, stage |-> script[s].stage,
                   holds |-> script[s].holds, since |-> script[s].since,
                   code |-> script[s].code, out |-> script[s].out]
  BY <1>0 DEF ScriptRow
<1>1. CASE SpawnFails(s)
  <2>1. script'[s] = [script[s] EXCEPT !.stage = "stillborn", !.out = <<"error", "exit1">>]
    BY <1>0, <1>1 DEF SpawnFails
  <2>2. script'[s].stage = "stillborn" /\ script'[s].out = <<"error", "exit1">>
    BY <1>a, <2>1
  <2> QED  BY <1>1, <2>2 DEF SpawnFails, Speaks, Live
<1>2. CASE TakeLock(s)
  <2>1. \/ /\ script'[s].stage = "working"
           /\ script'[s].out = Append(script[s].out, "step")
        \/ /\ script'[s].stage = "ending"
           /\ script'[s].out = Append(script[s].out, "failed")
    <3>1. CASE script' = [script EXCEPT ![s] =
                           [Said(script[s], "working", "step") EXCEPT !.holds = lockFile']]
      <4>1. script'[s] = [Said(script[s], "working", "step") EXCEPT !.holds = lockFile']
        BY <1>0, <3>1
      <4> QED  BY <1>a, <4>1 DEF Said
    <3>2. CASE script' = Turned(s, "ending", "failed")
      <4>1. script'[s] = Said(script[s], "ending", "failed")
        BY <1>0, <3>2 DEF Turned
      <4> QED  BY <1>a, <4>1 DEF Said
    <3> QED  BY <1>2, <3>1, <3>2 DEF TakeLock
  <2> QED  BY <1>2, <2>1 DEF TakeLock, Speaks, Live
<1>3. CASE OpBegins(s)
  <2>1. script'[s] = Said(script[s], "working", "step")
    BY <1>0, <1>3 DEF OpBegins, Turned
  <2>2. script'[s].stage = "working" /\ script'[s].out = Append(script[s].out, "step")
    BY <1>a, <2>1 DEF Said
  <2> QED  BY <1>3, <2>2 DEF OpBegins, Speaks, Live
<1>4. CASE WorkEnds(s)
  <2>1. \/ /\ script'[s].stage = "ending"
           /\ script'[s].out \in {Append(script[s].out, "complete"),
                                  Append(script[s].out, "failed"), script[s].out}
    <3>1. CASE script' = [script EXCEPT ![s] =
                           [Said(script[s], "ending", "complete") EXCEPT !.code = 0]]
      <4>1. script'[s] = [Said(script[s], "ending", "complete") EXCEPT !.code = 0]
        BY <1>0, <3>1
      <4> QED  BY <1>a, <4>1 DEF Said
    <3>2. CASE script' = Turned(s, "ending", "failed")
      <4>1. script'[s] = Said(script[s], "ending", "failed")
        BY <1>0, <3>2 DEF Turned
      <4> QED  BY <1>a, <4>1 DEF Said
    <3>3. CASE script' = [script EXCEPT ![s] = [@ EXCEPT !.stage = "ending"]]
      <4>1. script'[s] = [script[s] EXCEPT !.stage = "ending"]
        BY <1>0, <3>3
      <4> QED  BY <1>a, <4>1
    <3> QED  BY <1>4, <3>1, <3>2, <3>3 DEF WorkEnds
  <2> QED  BY <1>4, <2>1 DEF WorkEnds, Speaks, Live
<1>5. CASE Exits(s)
  <2>1. script'[s] = [Said(script[s], "gone", IF script[s].code = 0 THEN "exit0" ELSE "exit1")
                        EXCEPT !.holds = 0, !.code = 1]
    BY <1>0, <1>5 DEF Exits
  <2>2. /\ script'[s].stage = "gone"
        /\ script'[s].out \in {Append(script[s].out, "exit0"), Append(script[s].out, "exit1")}
    BY <1>a, <2>1 DEF Said
  <2> QED  BY <1>5, <2>2 DEF Exits, Speaks, Live, ExitLines
<1> QED  BY <1>1, <1>2, <1>3, <1>4, <1>5 DEF ScriptRuns

(* So is the kill of one.                                                  *)
LEMMA KillsSpeak ==
  ASSUME Typed, NEW p \in 0 .. MaxScripts, NEW s \in Scripts
  PROVE  Killed(p)[s] = script[s] \/ Speaks(script[s], Killed(p)[s])
<1>1. CASE p = 0 \/ script[p].stage \notin {"starting", "working"}
  BY <1>1 DEF Killed
<1>2. CASE p # 0 /\ script[p].stage \in {"starting", "working"}
  <2>0. script \in [Scripts -> ScriptRow] /\ p \in Scripts /\ script[p] \in ScriptRow
    BY <1>2 DEF Typed, Scripts
  <2>a. script[p] = [kind |-> script[p].kind, stage |-> script[p].stage,
                     holds |-> script[p].holds, since |-> script[p].since,
                     code |-> script[p].code, out |-> script[p].out]
    BY <2>0 DEF ScriptRow
  <2>1. CASE script[p].stage = "starting"
    <3>1. Killed(p) = [script EXCEPT ![p] = Said(script[p], "gone", "exit1")]
      BY <1>2, <2>1 DEF Killed, Turned
    <3>2. /\ Said(script[p], "gone", "exit1").stage = "gone"
          /\ Said(script[p], "gone", "exit1").out = Append(script[p].out, "exit1")
      BY <2>a DEF Said
    <3> QED  BY <2>0, <2>1, <3>1, <3>2 DEF Speaks, Live, ExitLines
  <2>2. CASE script[p].stage = "working"
    <3> DEFINE row == IF script[p].kind = "deploy" THEN Said(script[p], "orphan", "failed")
                      ELSE [script[p] EXCEPT !.stage = "orphan"]
    <3>1. Killed(p) = [script EXCEPT ![p] = row]
      BY <1>2, <2>2 DEF Killed, Turned
    <3>2. row.stage = "orphan" /\ row.out \in {script[p].out, Append(script[p].out, "failed")}
      BY <2>a DEF Said
    <3> HIDE DEF row
    <3> QED  BY <2>0, <2>2, <3>1, <3>2 DEF Speaks, Live
  <2> QED  BY <1>2, <2>1, <2>2
<1> QED  BY <1>1, <1>2

(* No reset yet, and every shell could be started                          *)
Calm == resets = 0 /\ \A s \in Scripts : script[s].stage # "stillborn"

(* While it is calm the only deploy with anything to say is the one the    *)
(* service holds, whose state the deploy state is.                         *)
VoiceInv ==
  /\ \A s \in Scripts : WellSaid(script[s])
  /\ Calm =>
       /\ \A s \in Scripts : script[s].kind = "deploy" /\ ExitAhead(s) => s = deployProcess
       /\ deployProcess # 0 => deploy.run = deployProcess
       /\ deploy.heard \subseteq {deploy.run}

(* A pipe that is empty is well said.                                      *)
LEMMA SilentWell == \A row : row.out = <<>> => WellSaid(row)
BY DEF WellSaid

(* A step of a script makes nobody else speak.                             *)
LEMMA VoiceRuns ==
  ASSUME Typed, VoiceInv, NEW s \in Scripts, ScriptRuns(s)
  PROVE  VoiceInv'
<1>1. RanOn(s) /\ Speaks(script[s], script'[s])
  BY RunsOn, RunsSpeak
<1>2. script[s] \in ScriptRow /\ script[s].stage \in Live
  BY <1>1 DEF Typed, Speaks
<1>3. \A t \in Scripts : WellSaid(script'[t])
  BY <1>1, <1>2, SpeaksWell DEF RanOn, VoiceInv
<1>4. Calm' => Calm
  BY <1>1, <1>2 DEF RanOn, Calm, Live
<1>5. \A t \in Scripts : AheadNext(t) => ExitAhead(t)
  BY <1>1, <1>2 DEF RanOn, ExitAhead, AheadNext, Live, Scripts
<1>6. \A t \in Scripts : script'[t].kind = script[t].kind
  BY <1>1 DEF RanOn
<1>7. \A t \in Scripts : ExitAhead(t)' <=> AheadNext(t)
  BY DEF ExitAhead, AheadNext, Live
<1> QED  BY <1>1, <1>3, <1>4, <1>5, <1>6, <1>7 DEF RanOn, memory, VoiceInv

(* The line that is taken is the held deploy's, and with its exit the      *)
(* service holds none and none has anything to say.                        *)
LEMMA VoiceTakes ==
  ASSUME Typed, AwaitInv, VoiceInv, NEW s \in Scripts, LineTaken(s)
  PROVE  VoiceInv'
<1>1. LineGone(s)
  BY HandlersTake
<1>2. script[s] \in ScriptRow /\ script[s].out \in Seq(Lines) /\ Len(script[s].out) \in Nat
  BY DEF Typed, ScriptRow
<1>3. \A t \in Scripts : WellSaid(script'[t])
  BY <1>1, <1>2, TakenWell DEF LineGone, VoiceInv
<1>4. Calm' => Calm
  BY <1>1 DEF LineGone, Calm
<1>5. \A t \in Scripts : AheadNext(t) => ExitAhead(t)
  BY <1>1 DEF LineGone, ExitAhead, AheadNext, Live, Scripts
<1>6. \A t \in Scripts : script'[t].kind = script[t].kind
  BY <1>1 DEF LineGone
<1>7. \A t \in Scripts : ExitAhead(t)' <=> AheadNext(t)
  BY DEF ExitAhead, AheadNext, Live
<1>8. 1 \in 1 .. Len(script[s].out) /\ Head(script[s].out) = script[s].out[1]
  BY <1>1, <1>2 DEF LineGone
<1>9. script[s].kind = "deploy" /\ Calm => s = deployProcess /\ s = deploy.run
  BY <1>1 DEF LineGone, VoiceInv, ExitAhead, Scripts
<1>10. deploy.heard \subseteq {deploy.run} /\ s = deploy.run =>
         deploy.heard \cup {s} \subseteq {deploy.run}
  OBVIOUS
<1>11. \A state \in States :
         /\ [deploy EXCEPT !.state = state, !.heard = @ \cup {s}].heard = deploy.heard \cup {s}
         /\ [deploy EXCEPT !.state = state, !.heard = @ \cup {s}].run = deploy.run
         /\ [deploy EXCEPT !.heard = @ \cup {s}].heard = deploy.heard \cup {s}
         /\ [deploy EXCEPT !.heard = @ \cup {s}].run = deploy.run
  BY DEF AwaitInv
<1>12. CASE DeployStep(s) \/ DeployMarker(s)
  <2>1. /\ deploy'.heard = deploy.heard \cup {s} /\ deploy'.run = deploy.run
        /\ deployProcess' = deployProcess /\ script[s].kind = "deploy"
    BY <1>11, <1>12 DEF DeployStep, DeployMarker, FinishDeploy, States
  <2> QED  BY <1>3, <1>4, <1>5, <1>6, <1>7, <1>9, <2>1 DEF VoiceInv
<1>13. CASE DeployError(s)
  <2>1. script[s].stage = "stillborn"
    BY <1>8, <1>13 DEF DeployError, Line, VoiceInv, WellSaid
  <2>2. ~Calm'
    BY <1>1, <2>1 DEF LineGone, Calm
  <2> QED  BY <1>3, <2>2 DEF VoiceInv
<1>14. CASE DeployExit(s)
  <2>1. Head(script[s].out) \in ExitLines /\ script[s].kind = "deploy" /\ deployProcess' = 0
    BY <1>14 DEF DeployExit, Line, ExitLines
  <2>2. 1 = Len(script[s].out) /\ script[s].stage \notin Live
    BY <1>8, <2>1 DEF VoiceInv, WellSaid
  <2>3. Tail(script[s].out) = <<>>
    <3>1. Tail(script[s].out) \in Seq(Lines) /\ Len(Tail(script[s].out)) = 0
      BY <1>2, <2>2
    <3>2. \A q \in Seq(Lines) : Len(q) = 0 => q = <<>>
      OBVIOUS
    <3> QED  BY <3>1, <3>2
  <2>4. ~AheadNext(s)
    BY <1>1, <2>2, <2>3 DEF LineGone, AheadNext
  <2>5. Calm => \A t \in Scripts : script'[t].kind = "deploy" => ~AheadNext(t)
    BY <1>5, <1>6, <1>9, <2>1, <2>4 DEF VoiceInv
  <2>6. deploy'.run = deploy.run /\ deploy'.heard \in {deploy.heard, deploy.heard \cup {s}}
    BY <1>11, <1>14 DEF DeployExit, FinishDeploy, States
  <2>7. Calm => deploy'.heard \subseteq {deploy'.run}
    BY <1>9, <2>1, <2>6 DEF VoiceInv
  <2> QED  BY <1>3, <1>4, <1>7, <2>1, <2>5, <2>7 DEF VoiceInv
<1>15. CASE OpStep(s) \/ OpMarker(s) \/ OpExit(s)
  <2>1. UNCHANGED <<deploy, deployProcess>>
    BY <1>15 DEF OpStep, OpMarker, OpExit, memory
  <2> QED  BY <1>3, <1>4, <1>5, <1>6, <1>7, <2>1 DEF VoiceInv
<1> QED  BY <1>12, <1>13, <1>14, <1>15 DEF LineTaken

(* A deploy starts when the service holds none, and a reset ends the calm. *)
LEMMA VoiceKept ==
  ASSUME Typed, Unborn, AwaitInv, VoiceInv, [Next]_vars
  PROVE  VoiceInv'
<1>0. deployProcess \in 0 .. MaxScripts /\ opProcess \in 0 .. MaxScripts
  BY DEF Typed
<1>1. \A t \in Scripts : script[t] \in ScriptRow /\ t # 0
  BY DEF Typed, Scripts
<1>2. \A t \in Scripts : ExitAhead(t)' <=> AheadNext(t)
  BY DEF ExitAhead, AheadNext, Live
<1>3. CASE \E s \in Scripts : ScriptRuns(s) \/ LineTaken(s)
  BY <1>3, VoiceRuns, VoiceTakes
<1>4. ASSUME NEW kind \in OpKinds \cup {"deploy"}, Spawns(kind)
      PROVE  /\ spawned + 1 \in Scripts /\ resets' = resets
             /\ \A t \in Scripts : t # spawned + 1 => script'[t] = script[t]
             /\ script'[spawned + 1].kind = kind
             /\ \A t \in Scripts : WellSaid(script'[t])
             /\ Calm' => Calm
  <2>1. /\ spawned + 1 \in Scripts /\ resets' = resets
        /\ \A t \in Scripts : t # spawned + 1 => script'[t] = script[t]
        /\ script'[spawned + 1].kind = kind
        /\ script'[spawned + 1].out = script[spawned + 1].out
    BY <1>4, SpawnRow DEF Spawns
  <2>2. script[spawned + 1].out = <<>> /\ script[spawned + 1].stage = "none"
    BY <2>1 DEF Unborn, Typed
  <2>3. WellSaid(script'[spawned + 1])
    BY <2>1, <2>2, SilentWell
  <2> QED  BY <2>1, <2>2, <2>3 DEF VoiceInv, Calm
<1>5. CASE TriggerDeploy /\ Spawns("deploy")
  <2>1. /\ deploy' = [state |-> "running", run |-> spawned + 1, heard |-> {}]
        /\ deployProcess' = spawned + 1 /\ deployProcess = 0
    BY <1>5 DEF TriggerDeploy, SpawnDeploy, CanDeploy
  <2>2. Calm => \A t \in Scripts : script[t].kind = "deploy" => ~ExitAhead(t)
    BY <1>1, <2>1 DEF VoiceInv
  <2>3. Calm => \A t \in Scripts : t # spawned + 1 /\ script'[t].kind = "deploy" => ~AheadNext(t)
    BY <1>4, <1>5, <2>2 DEF ExitAhead, AheadNext, Live
  <2> QED  BY <1>2, <1>4, <1>5, <2>1, <2>3 DEF VoiceInv
<1>6. CASE \E kind \in OpKinds : RunOpScript(kind) /\ Spawns(kind)
  <2> PICK kind \in OpKinds : RunOpScript(kind) /\ Spawns(kind)
    BY <1>6
  <2>1. deploy' = deploy /\ deployProcess' = deployProcess /\ kind # "deploy"
    BY DEF RunOpScript, OpKinds
  <2>2. \A t \in Scripts : t # spawned + 1 /\ AheadNext(t) => ExitAhead(t)
    BY <1>4 DEF ExitAhead, AheadNext, Live
  <2> QED  BY <1>2, <1>4, <2>1, <2>2 DEF VoiceInv
<1>7. ASSUME NEW p \in 0 .. MaxScripts, Kills(p)
      PROVE  \A t \in Scripts : WellSaid(script'[t])
  BY <1>1, <1>7, KillsSpeak, SpeaksWell DEF Kills, VoiceInv
<1>8. CASE ResetDeploy /\ Kills(deployProcess)
  <2>1. ~Calm'
    BY <1>8 DEF ResetDeploy, Calm, Typed
  <2> QED  BY <1>0, <1>7, <1>8, <2>1 DEF VoiceInv
<1>9. CASE CancelOp /\ Kills(opProcess)
  <2>1. /\ deploy' = deploy /\ deployProcess' = deployProcess /\ resets' = resets
        /\ script' = Killed(opProcess)
    BY <1>9 DEF CancelOp
  <2>2. \A t \in Scripts : script'[t] = script[t] \/ Speaks(script[t], script'[t])
    BY <1>0, <2>1, KillsSpeak
  <2>3. \A t \in Scripts : script'[t].kind = script[t].kind
    BY <1>0, <2>1, KilledRows
  <2>4. \A t \in Scripts : AheadNext(t) => ExitAhead(t)
    BY <1>1, <2>2 DEF Speaks, ExitAhead, AheadNext, Live
  <2>5. Calm' => Calm
    BY <2>1, <2>2 DEF Speaks, Calm, Live
  <2> QED  BY <1>0, <1>2, <1>7, <1>9, <2>1, <2>3, <2>4, <2>5 DEF VoiceInv
<1>10. CASE Restart
  <2>1. deploy' = FreshDeploy /\ deployProcess' = 0
    BY <1>10 DEF Restart
  <2>2. \A t \in Scripts :
          script'[t] = IF t <= spawned THEN Dead(script[t]) ELSE script[t]
    BY <1>10 DEF Restart
  <2>3. \A t \in Scripts : script'[t].out = <<>> /\ script'[t].stage \in {"none", "gone"}
    BY <1>1, <2>2, DeadRow DEF Unborn, Typed, Scripts
  <2>4. \A t \in Scripts : WellSaid(script'[t]) /\ ~AheadNext(t)
    BY <2>3, SilentWell DEF AheadNext, Live
  <2> QED  BY <1>2, <2>1, <2>4 DEF VoiceInv, FreshDeploy
<1>11. CASE /\ UNCHANGED <<script, resets>> /\ UNCHANGED <<deploy, deployProcess>>
  BY <1>11 DEF VoiceInv, WellSaid, Calm, ExitAhead
<1>12. SocketCancel /\ StandsStill =>
          UNCHANGED <<script, resets>> /\ UNCHANGED <<deploy, deployProcess>>
  BY DEF SocketCancel, StandsStill
<1>13. StandsStill /\ UNCHANGED memory =>
          UNCHANGED <<script, resets>> /\ UNCHANGED <<deploy, deployProcess>>
  BY DEF StandsStill, memory
<1> QED
  BY <1>3, <1>5, <1>6, <1>8, <1>9, <1>10, <1>11, <1>12, <1>13, StepKinds

(* Until a deploy is reset or a shell cannot be started, what a deploy     *)
(* shows as its steps and its end was said by its own script.              *)
THEOREM DeploysSpeakForThemselves == Spec => []OwnVoice
<1>1. Init => VoiceInv
  BY SilentWell DEF Init, VoiceInv, NoScript, FreshDeploy, ExitAhead
<1>2. Init => AwaitInv
  BY BoundsAssumption DEF Init, AwaitInv, RunningAwaited, NoScript, FreshDeploy, FreshOp, States
<1>3. /\ Typed /\ Unborn /\ AwaitInv /\ VoiceInv
      /\ [Next]_vars
      => Typed' /\ Unborn' /\ AwaitInv' /\ VoiceInv'
  BY TypesKept, UnbornKept, AwaitKept, VoiceKept
<1>4. VoiceInv => OwnVoice
  BY DEF VoiceInv, OwnVoice, Calm
<1> QED  BY <1>1, <1>2, <1>3, <1>4, TypesStart, PTL DEF Spec

-----------------------------------------------------------------------------
(* What the service sends                                                  *)

DeployTalk == [type : {"status"}, state : States] \cup [type : {"step"}]
OpTalk == [type : {"op_state"}, state : States] \cup [type : {"op_step"}]

(* Each page is sent its own messages.                                     *)
Wired ==
  /\ clients \subseteq Pages
  /\ wire \in [Pages -> Seq(Messages)]
  /\ wire["deploy"] \in Seq(DeployTalk) /\ wire["restore"] \in Seq(OpTalk)

(* The messages are of the pages' kinds.                                   *)
LEMMA MessagesTyped ==
  /\ DeployTalk \subseteq Messages /\ OpTalk \subseteq Messages
  /\ \A state \in States : Status(state) \in DeployTalk /\ OpState(state) \in OpTalk
  /\ [type |-> "step"] \in DeployTalk /\ [type |-> "op_step"] \in OpTalk
<1>1. /\ DeployTalk \subseteq Messages /\ OpTalk \subseteq Messages
  BY DEF DeployTalk, OpTalk, Messages
<1>2. \A state \in States : Status(state) \in DeployTalk /\ OpState(state) \in OpTalk
  BY DEF DeployTalk, OpTalk, Status, OpState
<1>3. [type |-> "step"] \in DeployTalk /\ [type |-> "op_step"] \in OpTalk
  BY DEF DeployTalk, OpTalk
<1> QED  BY <1>1, <1>2, <1>3

(* What a page with an open socket is told comes last, and no other page   *)
(* hears it.                                                               *)
LEMMA ToldLastly ==
  ASSUME Wired, NEW p \in Pages, NEW message \in Messages
  PROVE  /\ Told(p, message) \in [Pages -> Seq(Messages)]
         /\ \A q \in Pages : q # p \/ p \notin clients => Told(p, message)[q] = wire[q]
         /\ p \in clients => Told(p, message)[p] = Append(wire[p], message)
<1>1. wire[p] \in Seq(Messages) /\ Append(wire[p], message) \in Seq(Messages)
  BY DEF Wired
<1> QED  BY <1>1 DEF Told, Wired

(* Next, by what it does to the wires                                      *)
Broadcasts(p, message) == wire' = Told(p, message) /\ clients' = clients

(* A step tells the deploy page, tells the restore page, opens or closes a *)
(* socket, or is none that a page hears of.                                *)
LEMMA WireKinds ==
  ASSUME AwaitInv, [Next]_vars
  PROVE  \/ Broadcasts("deploy", Status(deploy'.state)) /\ deploy'.state \in States /\ op' = op
         \/ Broadcasts("deploy", [type |-> "step"]) /\ deploy'.state = deploy.state /\ op' = op
         \/ /\ Broadcasts("restore", OpState(op'.state)) /\ op'.state \in States
            /\ deploy' = deploy /\ (op'.op = "none" => op'.state # "running")
         \/ Broadcasts("restore", [type |-> "op_step"]) /\ deploy' = deploy /\ op' = op
         \/ \E p \in Pages : Connect(p) \/ Disconnect(p)
         \/ Restart
         \/ UNCHANGED <<wire, clients, deploy, op>>
<1>0. /\ deploy.state \in States
      /\ \A state \in States, s \in Scripts :
           /\ [deploy EXCEPT !.state = state, !.heard = @ \cup {s}].state = state
           /\ [deploy EXCEPT !.heard = @ \cup {s}].state = deploy.state
           /\ [op EXCEPT !.state = state].state = state
  BY DEF AwaitInv
<1>a. ASSUME NEW s \in Scripts, NEW state \in States, FinishDeploy(s, state),
             UNCHANGED <<op, clients>>
      PROVE  Broadcasts("deploy", Status(deploy'.state)) /\ deploy'.state \in States /\ op' = op
  BY <1>0, <1>a DEF FinishDeploy, Broadcasts
<1>b. ASSUME NEW state \in States \ {"running"}, FinishOp(state), UNCHANGED <<deploy, clients>>
      PROVE  /\ Broadcasts("restore", OpState(op'.state)) /\ op'.state \in States
             /\ deploy' = deploy /\ (op'.op = "none" => op'.state # "running")
  BY <1>0, <1>b DEF FinishOp, Broadcasts
<1>c. {"completed", "failed"} \subseteq States \ {"running"}
  BY DEF States
<1>1. CASE \E s \in Scripts : ScriptRuns(s)
  BY <1>1 DEF ScriptRuns, SpawnFails, TakeLock, OpBegins, WorkEnds, Exits, memory
<1>2. ASSUME NEW s \in Scripts, DeployStep(s) \/ DeployMarker(s) \/ DeployError(s) \/ DeployExit(s)
      PROVE  \/ Broadcasts("deploy", Status(deploy'.state)) /\ deploy'.state \in States /\ op' = op
             \/ Broadcasts("deploy", [type |-> "step"]) /\ deploy'.state = deploy.state /\ op' = op
             \/ UNCHANGED <<wire, clients, deploy, op>>
  <2>1. CASE DeployStep(s)
    BY <1>0, <2>1 DEF DeployStep, Line, Broadcasts
  <2>2. CASE DeployMarker(s)
    BY <1>a, <1>c, <2>2 DEF DeployMarker, Line
  <2>3. CASE DeployError(s)
    BY <1>a, <1>c, <2>3 DEF DeployError, Line
  <2>4. CASE DeployExit(s)
    BY <1>a, <1>c, <2>4 DEF DeployExit, Line
  <2> QED  BY <1>2, <2>1, <2>2, <2>3, <2>4
<1>3. ASSUME NEW s \in Scripts, OpStep(s) \/ OpMarker(s) \/ OpExit(s)
      PROVE  \/ /\ Broadcasts("restore", OpState(op'.state)) /\ op'.state \in States
                /\ deploy' = deploy /\ (op'.op = "none" => op'.state # "running")
             \/ Broadcasts("restore", [type |-> "op_step"]) /\ deploy' = deploy /\ op' = op
             \/ UNCHANGED <<wire, clients, deploy, op>>
  <2>1. CASE OpStep(s)
    BY <2>1 DEF OpStep, Line, Broadcasts, memory
  <2>2. CASE OpMarker(s)
    BY <1>b, <1>c, <2>2 DEF OpMarker, Line
  <2>3. CASE OpExit(s)
    BY <1>b, <1>c, <2>3 DEF OpExit, Line
  <2> QED  BY <1>3, <2>1, <2>2, <2>3
<1>4. CASE TriggerDeploy
  <2>1. deploy'.state = "running" /\ "running" \in States
    BY <1>4 DEF TriggerDeploy, SpawnDeploy, States
  <2> QED  BY <1>4, <2>1 DEF TriggerDeploy, SpawnDeploy, Broadcasts
<1>5. CASE ResetDeploy
  <2>1. deploy'.state = "idle" /\ "idle" \in States
    BY <1>5 DEF ResetDeploy, FreshDeploy, States
  <2> QED  BY <1>5, <2>1 DEF ResetDeploy, Broadcasts
<1>6. CASE CancelOp \/ SocketCancel
  BY <1>b, <1>c, <1>6 DEF CancelOp, SocketCancel
<1>7. ASSUME NEW kind \in OpKinds, RunOpScript(kind), clients' = clients
      PROVE  /\ Broadcasts("restore", OpState(op'.state)) /\ op'.state \in States
             /\ deploy' = deploy /\ (op'.op = "none" => op'.state # "running")
  <2>1. /\ op'.state = "running" /\ op'.op = kind /\ "running" \in States /\ kind # "none"
    BY <1>7 DEF RunOpScript, States, OpKinds
  <2> QED  BY <1>7, <2>1 DEF RunOpScript, Broadcasts
<1>8. CASE \E kind \in OpKinds : SocketOp(kind)
  BY <1>7, <1>8 DEF SocketOp
<1>9. CASE \E r \in OpRequests, kind \in OpKinds : OpRequestBody(r, kind)
  BY <1>7, <1>9 DEF OpRequestBody
<1>10. CASE \E r \in OpRequests : CheckOpRequest(r) \/ OpRequestRefused(r)
  BY <1>10 DEF CheckOpRequest, OpRequestRefused, memory
<1>11. CASE UNCHANGED vars
  BY <1>11 DEF vars, memory
<1>12. CASE \E s \in Scripts : LineTaken(s)
  BY <1>2, <1>3, <1>12 DEF LineTaken
<1>13. CASE HandlesRequest
  BY <1>4, <1>5, <1>6, <1>8, <1>9, <1>10, <1>13 DEF HandlesRequest
<1>14. CASE \E p \in Pages : Connect(p) \/ Disconnect(p)
  BY <1>14
<1>15. CASE Restart
  BY <1>15
<1> QED  BY <1>1, <1>11, <1>12, <1>13, <1>14, <1>15 DEF Next

(* What the deploy page, with a socket open after a step, was told in it   *)
DeployTold ==
  "deploy" \in clients' =>
    \/ wire'["deploy"] = <<Status(deploy'.state)>> /\ deploy'.state \in States
    \/ /\ "deploy" \in clients
       /\ \/ /\ deploy'.state \in States
             /\ wire'["deploy"] = Append(wire["deploy"], Status(deploy'.state))
          \/ /\ deploy'.state = deploy.state
             /\ wire'["deploy"] \in {wire["deploy"], Append(wire["deploy"], [type |-> "step"])}

(* What the restore page was told                                          *)
OpTold ==
  "restore" \in clients' /\ op'.state = "running" =>
    \/ wire'["restore"] = <<OpState("running")>>
    \/ /\ "restore" \in clients
       /\ \/ wire'["restore"] = Append(wire["restore"], OpState("running"))
          \/ /\ op.state = "running"
             /\ wire'["restore"] \in {wire["restore"],
                                      Append(wire["restore"], [type |-> "op_step"])}

(* Each page is sent its own messages, a deploy page is told of every      *)
(* change of the deploy's state, and a restore page of every start.        *)
LEMMA PagesTold ==
  ASSUME AwaitInv, Wired, (op.op = "none" => op.state # "running"), [Next]_vars
  PROVE  /\ Wired' /\ DeployTold /\ OpTold
         /\ op'.op = "none" => op'.state # "running"
<1>0. /\ "deploy" \in Pages /\ "restore" \in Pages /\ Pages = {"deploy", "restore"}
      /\ wire \in [Pages -> Seq(Messages)]
      /\ wire["deploy"] \in Seq(DeployTalk) /\ wire["restore"] \in Seq(OpTalk)
      /\ deploy.state \in States /\ op.state \in States
  BY DEF Pages, Wired, AwaitInv
<1>a. /\ \A m \in DeployTalk : Append(wire["deploy"], m) \in Seq(DeployTalk)
      /\ \A m \in OpTalk : Append(wire["restore"], m) \in Seq(OpTalk)
      /\ \A m \in DeployTalk : <<m>> \in Seq(DeployTalk)
      /\ \A m \in OpTalk : <<m>> \in Seq(OpTalk)
      /\ \A m \in Messages : <<m>> \in Seq(Messages)
      /\ <<>> \in Seq(DeployTalk) /\ <<>> \in Seq(OpTalk) /\ <<>> \in Seq(Messages)
  BY <1>0
<1>1. ASSUME NEW m \in DeployTalk, Broadcasts("deploy", m)
      PROVE  /\ Wired' /\ clients' = clients /\ wire'["restore"] = wire["restore"]
             /\ "deploy" \in clients => wire'["deploy"] = Append(wire["deploy"], m)
  <2>1. /\ Told("deploy", m) \in [Pages -> Seq(Messages)]
        /\ Told("deploy", m)["restore"] = wire["restore"]
        /\ "deploy" \in clients => Told("deploy", m)["deploy"] = Append(wire["deploy"], m)
        /\ "deploy" \notin clients => Told("deploy", m)["deploy"] = wire["deploy"]
    BY <1>0, ToldLastly, MessagesTyped
  <2>2. Append(wire["deploy"], m) \in Seq(DeployTalk)
    BY <1>a
  <2> QED  BY <1>1, <2>1, <2>2 DEF Broadcasts, Wired
<1>2. ASSUME NEW m \in OpTalk, Broadcasts("restore", m)
      PROVE  /\ Wired' /\ clients' = clients /\ wire'["deploy"] = wire["deploy"]
             /\ "restore" \in clients => wire'["restore"] = Append(wire["restore"], m)
  <2>1. /\ Told("restore", m) \in [Pages -> Seq(Messages)]
        /\ Told("restore", m)["deploy"] = wire["deploy"]
        /\ "restore" \in clients => Told("restore", m)["restore"] = Append(wire["restore"], m)
        /\ "restore" \notin clients => Told("restore", m)["restore"] = wire["restore"]
    BY <1>0, ToldLastly, MessagesTyped
  <2>2. Append(wire["restore"], m) \in Seq(OpTalk)
    BY <1>a
  <2> QED  BY <1>2, <2>1, <2>2 DEF Broadcasts, Wired
<1>3. CASE Broadcasts("deploy", Status(deploy'.state)) /\ deploy'.state \in States /\ op' = op
  <2>1. Status(deploy'.state) \in DeployTalk
    BY <1>3, MessagesTyped
  <2>2. /\ Wired' /\ clients' = clients /\ wire'["restore"] = wire["restore"]
        /\ "deploy" \in clients =>
             wire'["deploy"] = Append(wire["deploy"], Status(deploy'.state))
    BY <1>1, <1>3, <2>1
  <2> QED  BY <1>3, <2>2 DEF DeployTold, OpTold
<1>4. CASE Broadcasts("deploy", [type |-> "step"]) /\ deploy'.state = deploy.state /\ op' = op
  <2>2. /\ Wired' /\ clients' = clients /\ wire'["restore"] = wire["restore"]
        /\ "deploy" \in clients => wire'["deploy"] = Append(wire["deploy"], [type |-> "step"])
    BY <1>1, <1>4, MessagesTyped
  <2> QED  BY <1>4, <2>2 DEF DeployTold, OpTold
<1>5. CASE /\ Broadcasts("restore", OpState(op'.state)) /\ op'.state \in States
           /\ deploy' = deploy /\ (op'.op = "none" => op'.state # "running")
  <2>1. OpState(op'.state) \in OpTalk
    BY <1>5, MessagesTyped
  <2>2. /\ Wired' /\ clients' = clients /\ wire'["deploy"] = wire["deploy"]
        /\ "restore" \in clients =>
             wire'["restore"] = Append(wire["restore"], OpState(op'.state))
    BY <1>2, <1>5, <2>1
  <2> QED  BY <1>5, <2>2 DEF DeployTold, OpTold
<1>6. CASE Broadcasts("restore", [type |-> "op_step"]) /\ deploy' = deploy /\ op' = op
  <2>2. /\ Wired' /\ clients' = clients /\ wire'["deploy"] = wire["deploy"]
        /\ "restore" \in clients => wire'["restore"] = Append(wire["restore"], [type |-> "op_step"])
    BY <1>2, <1>6, MessagesTyped
  <2> QED  BY <1>6, <2>2 DEF DeployTold, OpTold
<1>7. ASSUME NEW p \in Pages, Connect(p)
      PROVE  Wired' /\ DeployTold /\ OpTold /\ op' = op
  <2>0. clients' = clients \cup {p} /\ deploy' = deploy /\ op' = op /\ p \notin clients
    BY <1>7 DEF Connect, memory
  <2>1. CASE p = "deploy"
    <3>1. wire' = [wire EXCEPT !["deploy"] = <<Status(deploy.state)>>]
      BY <1>7, <2>1 DEF Connect
    <3>2. Status(deploy.state) \in DeployTalk /\ Status(deploy.state) \in Messages
      BY <1>0, MessagesTyped
    <3>3. <<Status(deploy.state)>> \in Seq(DeployTalk) /\ <<Status(deploy.state)>> \in Seq(Messages)
      BY <1>a, <3>2
    <3>4. /\ wire'["deploy"] = <<Status(deploy.state)>> /\ wire'["restore"] = wire["restore"]
          /\ wire' \in [Pages -> Seq(Messages)]
      BY <1>0, <3>1, <3>3
    <3> QED  BY <1>0, <2>0, <2>1, <3>3, <3>4 DEF Wired, DeployTold, OpTold
  <2>2. CASE p = "restore"
    <3> DEFINE told == IF op.op # "none" THEN <<OpState(op.state)>> ELSE <<>>
    <3>1. wire' = [wire EXCEPT !["restore"] = told]
      BY <1>7, <2>2 DEF Connect
    <3>2. OpState(op.state) \in OpTalk /\ OpState(op.state) \in Messages
      BY <1>0, MessagesTyped
    <3>3. told \in Seq(OpTalk) /\ told \in Seq(Messages)
      BY <1>a, <3>2
    <3>4. op.state = "running" => told = <<OpState("running")>>
      OBVIOUS
    <3> HIDE DEF told
    <3>5. /\ wire'["restore"] = told /\ wire'["deploy"] = wire["deploy"]
          /\ wire' \in [Pages -> Seq(Messages)]
      BY <1>0, <3>1, <3>3
    <3> QED  BY <1>0, <2>0, <2>2, <3>3, <3>4, <3>5 DEF Wired, DeployTold, OpTold
  <2> QED  BY <1>0, <2>1, <2>2
<1>8. ASSUME NEW p \in Pages, Disconnect(p)
      PROVE  Wired' /\ DeployTold /\ OpTold /\ op' = op
  <2>0. /\ clients' = clients \ {p} /\ deploy' = deploy /\ op' = op
        /\ wire' = [wire EXCEPT ![p] = <<>>]
    BY <1>8 DEF Disconnect, memory
  <2>1. /\ wire' \in [Pages -> Seq(Messages)] /\ wire'[p] = <<>>
        /\ \A q \in Pages : q # p => wire'[q] = wire[q]
    BY <1>0, <1>a, <2>0
  <2>2. Wired'
    BY <1>0, <1>a, <2>0, <2>1 DEF Wired
  <2>3. DeployTold
    BY <1>0, <2>0, <2>1 DEF DeployTold
  <2>4. OpTold
    BY <1>0, <2>0, <2>1 DEF OpTold
  <2> QED  BY <2>0, <2>2, <2>3, <2>4
<1>9. CASE Restart
  <2>1. clients' = {} /\ wire' = [p \in Pages |-> <<>>] /\ op' = FreshOp
    BY <1>9 DEF Restart
  <2>2. wire' \in [Pages -> Seq(Messages)] /\ wire'["deploy"] = <<>> /\ wire'["restore"] = <<>>
    BY <1>0, <1>a, <2>1
  <2> QED  BY <1>a, <2>1, <2>2 DEF Wired, DeployTold, OpTold, FreshOp
<1>10. CASE UNCHANGED <<wire, clients, deploy, op>>
  BY <1>10 DEF Wired, DeployTold, OpTold
<1> QED  BY <1>3, <1>4, <1>5, <1>6, <1>7, <1>8, <1>9, <1>10, WireKinds

-----------------------------------------------------------------------------
(* The pages beside the service                                            *)

(* What the pages remember *)
PageRows == [type : States, asking : {"none", "start", "reset"}, guess : BOOLEAN]

PagesTyped ==
  /\ page \in PageRows
  /\ opPage \in States
  /\ uplink \in {"none", "start", "reset", "rest start", "rest reset", "reset done"}
  /\ posted \subseteq OpRequests
  /\ drops \in 0 .. MaxDrops

(* What a page may do without a message: guess, or ask; and the restore    *)
(* page may take it that its operation runs.                               *)
PageActs ==
  /\ page'.guess \/ (page'.type = page.type /\ page'.guess = page.guess)
  /\ opPage' \in {opPage, "running"}

(* A page that handles a message changes nothing of the service's.         *)
ServiceStill == UNCHANGED <<memory, scripts, request, resets, restarts, clients>>

(* Every step is one of the service, with whatever a page does by itself,  *)
(* or a page's that handles a message.                                     *)
LEMMA ConsoleMoves ==
  ASSUME PagesTyped, [ConsoleNext]_allVars
  PROVE  ([Next]_vars /\ PageActs) \/ PageReceives \/ OpPageReceives
<1>0. page = [type |-> page.type, asking |-> page.asking, guess |-> page.guess]
  BY DEF PagesTyped, PageRows
<1>1. CASE ServiceStep
  BY <1>1 DEF ServiceStep, consoleVars, Next, PageActs
<1>2. CASE Click("start") \/ Click("reset")
  <2>1. PICK what : page' = [page EXCEPT !.asking = what]
    BY <1>2 DEF Click
  <2>2. page'.type = page.type /\ page'.guess = page.guess
    BY <1>0, <2>1
  <2> QED  BY <1>2, <2>2 DEF Click, PageActs
<1>3. CASE NoTicket
  <2>2. page'.type = page.type /\ page'.guess = page.guess
    BY <1>0, <1>3 DEF NoTicket
  <2> QED  BY <1>3, <2>2 DEF NoTicket, PageActs
<1>4. CASE StartSent
  BY <1>4 DEF StartSent, PageActs
<1>5. CASE ResetSent
  <2>1. \/ page' = [page EXCEPT !.type = "idle", !.asking = "none", !.guess = TRUE]
        \/ page' = [page EXCEPT !.asking = "none"]
    BY <1>5 DEF ResetSent
  <2>2. page'.guess = TRUE \/ (page'.type = page.type /\ page'.guess = page.guess)
    <3>1. CASE page' = [page EXCEPT !.type = "idle", !.asking = "none", !.guess = TRUE]
      BY <1>0, <3>1
    <3>2. CASE page' = [page EXCEPT !.asking = "none"]
      BY <1>0, <3>2
    <3> QED  BY <2>1, <3>1, <3>2
  <2> QED  BY <1>5, <2>2 DEF ResetSent, PageActs
<1>6. CASE StartRead \/ ResetRead
  BY <1>6 DEF StartRead, ResetRead, Next, HandlesRequest, PageActs
<1>7. CASE ResetAnswered
  <2>1. page'.guess = TRUE
    BY <1>0, <1>7 DEF ResetAnswered
  <2> QED  BY <1>7, <2>1 DEF ResetAnswered, PageActs
<1>8. CASE RequestLost
  BY <1>8 DEF RequestLost, PageActs
<1>9. CASE \E r \in OpRequests : PostAnswered(r)
  BY <1>9 DEF PostAnswered, PageActs
<1>10. CASE \E p \in Pages : SocketLost(p)
  BY <1>10 DEF SocketLost, Next, PageActs
<1>11. CASE ServiceRestarts
  BY <1>11 DEF ServiceRestarts, Next, PageActs
<1>12. CASE UNCHANGED allVars
  BY <1>12 DEF allVars, consoleVars, PageActs
<1> QED
  BY <1>1, <1>2, <1>3, <1>4, <1>5, <1>6, <1>7, <1>8, <1>9, <1>10, <1>11, <1>12 DEF ConsoleNext

(* What the deploy page was told last is the deploy's state, with nothing  *)
(* but steps after it.                                                     *)
ToldLast(queue, state) ==
  \E i \in 1 .. Len(queue) :
    /\ queue[i].type = "status" /\ queue[i].state = state
    /\ \A j \in 1 .. Len(queue) : j > i => queue[j].type = "step"

StepsOnly(queue) == \A i \in 1 .. Len(queue) : queue[i].type = "step"

(* It has been told the state, or shows it unless it guesses.              *)
PageInv ==
  "deploy" \in clients =>
    \/ ToldLast(wire["deploy"], deploy.state)
    \/ StepsOnly(wire["deploy"]) /\ (~page.guess => page.type = deploy.state)

SaysRunning(message) == message.type = "op_step" \/ message.state = "running"

(* The last a restore page was told of an operation that runs says so, and *)
(* when it has handled everything it shows so.                             *)
OpPageInv ==
  /\ op.op = "none" => op.state # "running"
  /\ "restore" \in clients /\ op.state = "running" =>
       IF wire["restore"] = <<>> THEN opPage = "running"
       ELSE SaysRunning(wire["restore"][Len(wire["restore"])])

(* A queue that is longer by the state, or by a step, and one without its  *)
(* head.                                                                   *)
LEMMA QueueTold ==
  ASSUME NEW queue \in Seq(DeployTalk), NEW state \in States
  PROVE  /\ ToldLast(Append(queue, Status(state)), state)
         /\ ToldLast(<<Status(state)>>, state)
         /\ ToldLast(queue, state) => ToldLast(Append(queue, [type |-> "step"]), state)
         /\ StepsOnly(queue) => StepsOnly(Append(queue, [type |-> "step"]))
<1>0. Len(queue) \in Nat
  OBVIOUS
<1>1. \A m : /\ Len(Append(queue, m)) = Len(queue) + 1
             /\ Append(queue, m)[Len(queue) + 1] = m
             /\ \A i \in 1 .. Len(queue) : Append(queue, m)[i] = queue[i]
  OBVIOUS
<1>2. Status(state).type = "status" /\ Status(state).state = state
  BY DEF Status
<1>3. ToldLast(Append(queue, Status(state)), state)
  <2> DEFINE q == Append(queue, Status(state))
  <2>1. Len(q) = Len(queue) + 1 /\ q[Len(q)] = Status(state)
    BY <1>1
  <2> HIDE DEF q
  <2>2. Len(q) \in 1 .. Len(q) /\ \A j \in 1 .. Len(q) : ~(j > Len(q))
    BY <1>0, <2>1
  <2> QED  BY <1>2, <2>1, <2>2 DEF ToldLast, q
<1>4. ToldLast(<<Status(state)>>, state)
  <2> DEFINE q == <<Status(state)>>
  <2>1. Len(q) = 1 /\ q[1] = Status(state)
    OBVIOUS
  <2> HIDE DEF q
  <2>2. ToldLast(q, state)
    BY <1>2, <2>1 DEF ToldLast
  <2> QED  BY <2>2 DEF q
<1> DEFINE longer == Append(queue, [type |-> "step"])
<1>5. /\ Len(longer) = Len(queue) + 1
      /\ longer[Len(queue) + 1].type = "step"
      /\ \A i \in 1 .. Len(queue) : longer[i] = queue[i]
  BY <1>1
<1> HIDE DEF longer
<1>6. /\ 1 .. Len(queue) \subseteq 1 .. Len(longer)
      /\ \A i \in 1 .. Len(longer) : i \in 1 .. Len(queue) \/ i = Len(queue) + 1
  BY <1>0, <1>5
<1>7. ToldLast(queue, state) => ToldLast(longer, state)
  BY <1>5, <1>6 DEF ToldLast
<1>8. StepsOnly(queue) => StepsOnly(longer)
  BY <1>5, <1>6 DEF StepsOnly
<1> QED  BY <1>3, <1>4, <1>7, <1>8 DEF longer

(* A page that takes the head of its queue has been told the rest, or the  *)
(* head was the state.                                                     *)
LEMMA QueueTaken ==
  ASSUME NEW queue \in Seq(DeployTalk), NEW state, queue # <<>>
  PROVE  /\ StepsOnly(queue) => StepsOnly(Tail(queue)) /\ Head(queue).type = "step"
         /\ ToldLast(queue, state) =>
              \/ ToldLast(Tail(queue), state)
              \/ /\ Head(queue).type = "status" /\ Head(queue).state = state
                 /\ StepsOnly(Tail(queue))
<1>1. /\ Len(queue) \in Nat /\ Len(queue) # 0 /\ Len(Tail(queue)) = Len(queue) - 1
      /\ Head(queue) = queue[1]
  OBVIOUS
<1>2. \A i \in 1 .. Len(queue) - 1 : Tail(queue)[i] = queue[i + 1]
  OBVIOUS
<1>3. StepsOnly(queue) => StepsOnly(Tail(queue)) /\ Head(queue).type = "step"
  <2>1. \A i \in 1 .. Len(Tail(queue)) :
          Tail(queue)[i] = queue[i + 1] /\ i + 1 \in 1 .. Len(queue)
    BY <1>1, <1>2
  <2> QED  BY <1>1, <2>1 DEF StepsOnly
<1>4. ASSUME NEW i \in 1 .. Len(queue),
             queue[i].type = "status", queue[i].state = state,
             \A j \in 1 .. Len(queue) : j > i => queue[j].type = "step"
      PROVE  \/ ToldLast(Tail(queue), state)
             \/ /\ Head(queue).type = "status" /\ Head(queue).state = state
                /\ StepsOnly(Tail(queue))
  <2>0. \A j \in 1 .. Len(Tail(queue)) :
          Tail(queue)[j] = queue[j + 1] /\ j + 1 \in 1 .. Len(queue)
    BY <1>1, <1>2
  <2>1. CASE i = 1
    <3>1. \A j \in 1 .. Len(Tail(queue)) : j + 1 > i
      BY <1>1, <2>1
    <3> QED  BY <1>1, <1>4, <2>0, <2>1, <3>1 DEF StepsOnly
  <2>2. CASE i # 1
    <3>1. i - 1 \in 1 .. Len(Tail(queue)) /\ (i - 1) + 1 = i
      BY <1>1, <2>2
    <3>2. Tail(queue)[i - 1].type = "status" /\ Tail(queue)[i - 1].state = state
      BY <1>4, <2>0, <3>1
    <3>3. \A j \in 1 .. Len(Tail(queue)) : j > i - 1 => Tail(queue)[j].type = "step"
      BY <1>1, <1>4, <2>0
    <3> QED  BY <3>1, <3>2, <3>3 DEF ToldLast
  <2> QED  BY <2>1, <2>2
<1> QED  BY <1>3, <1>4 DEF ToldLast

(* What the service does keeps the pages right, and what a page does by    *)
(* itself is a guess, or that its operation runs.                          *)
LEMMA ServiceKeepsPages ==
  ASSUME PagesTyped, AwaitInv, Wired, PageInv, OpPageInv, [Next]_vars, PageActs
  PROVE  Wired' /\ PageInv' /\ OpPageInv'
<1>1. Wired' /\ DeployTold /\ OpTold /\ (op'.op = "none" => op'.state # "running")
  BY PagesTold DEF OpPageInv
<1>2. /\ wire["deploy"] \in Seq(DeployTalk) /\ wire["restore"] \in Seq(OpTalk)
      /\ deploy.state \in States
  BY DEF Wired, AwaitInv
<1>3. PageInv'
  <2>1. SUFFICES ASSUME "deploy" \in clients'
                 PROVE  \/ ToldLast(wire'["deploy"], deploy'.state)
                        \/ /\ StepsOnly(wire'["deploy"])
                           /\ ~page'.guess => page'.type = deploy'.state
    BY DEF PageInv, ToldLast, StepsOnly
  <2>2. CASE wire'["deploy"] = <<Status(deploy'.state)>> /\ deploy'.state \in States
    BY <1>2, <2>2, QueueTold
  <2>3. CASE /\ "deploy" \in clients /\ deploy'.state \in States
             /\ wire'["deploy"] = Append(wire["deploy"], Status(deploy'.state))
    BY <1>2, <2>3, QueueTold
  <2>4. CASE /\ "deploy" \in clients /\ deploy'.state = deploy.state
             /\ wire'["deploy"] \in {wire["deploy"], Append(wire["deploy"], [type |-> "step"])}
    <3>1. \/ ToldLast(wire["deploy"], deploy.state)
          \/ StepsOnly(wire["deploy"]) /\ (~page.guess => page.type = deploy.state)
      BY <2>4 DEF PageInv
    <3>2. ToldLast(wire["deploy"], deploy.state) => ToldLast(wire'["deploy"], deploy.state)
      BY <1>2, <2>4, QueueTold
    <3>3. StepsOnly(wire["deploy"]) => StepsOnly(wire'["deploy"])
      BY <1>2, <2>4, QueueTold
    <3> QED  BY <2>4, <3>1, <3>2, <3>3 DEF PageActs, PagesTyped, PageRows
  <2> QED  BY <1>1, <2>1, <2>2, <2>3, <2>4 DEF DeployTold
<1>4. OpPageInv'
  <2>1. SUFFICES ASSUME "restore" \in clients', op'.state = "running"
                 PROVE  IF wire'["restore"] = <<>> THEN opPage' = "running"
                        ELSE SaysRunning(wire'["restore"][Len(wire'["restore"])])
    BY <1>1 DEF OpPageInv, SaysRunning
  <2>2. SaysRunning(OpState("running")) /\ SaysRunning([type |-> "op_step"])
    BY DEF SaysRunning, OpState
  <2>3. \A m : /\ Append(wire["restore"], m) # <<>>
               /\ Append(wire["restore"], m)[Len(Append(wire["restore"], m))] = m
    BY <1>2
  <2>4. CASE wire'["restore"] = <<OpState("running")>>
    <3>1. \A m : <<m>> # <<>> /\ <<m>>[Len(<<m>>)] = m
      OBVIOUS
    <3> QED  BY <2>2, <2>4, <3>1
  <2>5. CASE wire'["restore"] \in {Append(wire["restore"], OpState("running")),
                                   Append(wire["restore"], [type |-> "op_step"])}
    BY <2>2, <2>3, <2>5
  <2>6. CASE "restore" \in clients /\ op.state = "running" /\ wire'["restore"] = wire["restore"]
    BY <2>6 DEF OpPageInv, PageActs
  <2> QED  BY <1>1, <2>1, <2>4, <2>5, <2>6 DEF OpTold
<1> QED  BY <1>1, <1>3, <1>4

(* A page that handles a message has one message less, of its kind.        *)
LEMMA ReceivedOne ==
  ASSUME Wired, NEW p \in Pages, Received(p)
  PROVE  /\ Wired' /\ wire[p] # <<>> /\ wire'[p] = Tail(wire[p])
         /\ \A q \in Pages : q # p => wire'[q] = wire[q]
<1>1. /\ wire \in [Pages -> Seq(Messages)] /\ wire[p] # <<>>
      /\ wire["deploy"] \in Seq(DeployTalk) /\ wire["restore"] \in Seq(OpTalk)
      /\ wire' = [wire EXCEPT ![p] = Tail(wire[p])] /\ clients' = clients
  BY DEF Wired, Received
<1>2. Tail(wire[p]) \in Seq(Messages)
  BY <1>1
<1>3. /\ wire' \in [Pages -> Seq(Messages)] /\ wire'[p] = Tail(wire[p])
      /\ \A q \in Pages : q # p => wire'[q] = wire[q]
  BY <1>1, <1>2
<1>4. /\ p = "deploy" => Tail(wire["deploy"]) \in Seq(DeployTalk)
      /\ p = "restore" => Tail(wire["restore"]) \in Seq(OpTalk)
  BY <1>1
<1>5. p \in {"deploy", "restore"} /\ {"deploy", "restore"} \subseteq Pages
  BY DEF Pages
<1> QED  BY <1>1, <1>3, <1>4, <1>5 DEF Wired

(* A page that handles a message stays right.                              *)
LEMMA ReceivingKeepsPages ==
  ASSUME PagesTyped, AwaitInv, Wired, PageInv, OpPageInv, PageReceives \/ OpPageReceives
  PROVE  Wired' /\ PageInv' /\ OpPageInv'
<1>0. /\ "deploy" \in Pages /\ "restore" \in Pages
      /\ wire["deploy"] \in Seq(DeployTalk) /\ wire["restore"] \in Seq(OpTalk)
      /\ UNCHANGED <<deploy, op, clients>>
  BY DEF Pages, Wired, PageReceives, OpPageReceives, Received, memory
<1>1. CASE PageReceives
  <2>1. /\ Wired' /\ wire["deploy"] # <<>> /\ wire'["deploy"] = Tail(wire["deploy"])
        /\ wire'["restore"] = wire["restore"]
    BY <1>0, <1>1, ReceivedOne DEF PageReceives
  <2>2. opPage' = opPage
    BY <1>1 DEF PageReceives
  <2>3. OpPageInv'
    BY <1>0, <2>1, <2>2 DEF OpPageInv, SaysRunning
  <2>4. \/ /\ Head(wire["deploy"]).type = "status"
           /\ page'.type = Head(wire["deploy"]).state /\ page'.guess = FALSE
        \/ Head(wire["deploy"]).type = "step" /\ page' = page
    BY <1>1 DEF PageReceives, PagesTyped, PageRows
  <2>5. "deploy" \in clients =>
          \/ ToldLast(wire'["deploy"], deploy.state)
          \/ StepsOnly(wire'["deploy"]) /\ (~page'.guess => page'.type = deploy.state)
    <3>1. StepsOnly(wire["deploy"]) =>
            StepsOnly(wire'["deploy"]) /\ Head(wire["deploy"]).type = "step"
      BY <1>0, <2>1, QueueTaken
    <3>2. ToldLast(wire["deploy"], deploy.state) =>
            \/ ToldLast(wire'["deploy"], deploy.state)
            \/ /\ Head(wire["deploy"]).type = "status"
               /\ Head(wire["deploy"]).state = deploy.state
               /\ StepsOnly(wire'["deploy"])
      BY <1>0, <2>1, QueueTaken
    <3> QED  BY <2>4, <3>1, <3>2 DEF PageInv
  <2>6. PageInv'
    BY <1>0, <2>5 DEF PageInv, ToldLast, StepsOnly
  <2> QED  BY <2>1, <2>3, <2>6
<1>2. CASE OpPageReceives
  <2>1. /\ Wired' /\ wire["restore"] # <<>> /\ wire'["restore"] = Tail(wire["restore"])
        /\ wire'["deploy"] = wire["deploy"]
    BY <1>0, <1>2, ReceivedOne DEF OpPageReceives
  <2>2. page' = page
    BY <1>2 DEF OpPageReceives
  <2>3. PageInv'
    BY <1>0, <2>1, <2>2 DEF PageInv, ToldLast, StepsOnly
  <2>4. \A queue \in Seq(OpTalk) : queue # <<>> =>
          /\ Tail(queue) # <<>> => Tail(queue)[Len(Tail(queue))] = queue[Len(queue)]
          /\ Tail(queue) = <<>> => Head(queue) = queue[Len(queue)]
    <3> SUFFICES ASSUME NEW queue \in Seq(OpTalk), queue # <<>>
                 PROVE  /\ Tail(queue) # <<>> =>
                             Tail(queue)[Len(Tail(queue))] = queue[Len(queue)]
                        /\ Tail(queue) = <<>> => Head(queue) = queue[Len(queue)]
      OBVIOUS
    <3>1. /\ Len(queue) \in Nat /\ Len(queue) # 0 /\ Len(Tail(queue)) = Len(queue) - 1
          /\ Head(queue) = queue[1] /\ Tail(queue) \in Seq(OpTalk)
      OBVIOUS
    <3>2. \A i \in 1 .. Len(queue) - 1 : Tail(queue)[i] = queue[i + 1]
      OBVIOUS
    <3>3. Len(Tail(queue)) = 0 => Tail(queue) = <<>>
      <4>1. \A q \in Seq(OpTalk) : Len(q) = 0 => q = <<>>
        OBVIOUS
      <4> QED  BY <3>1, <4>1
    <3>4. Tail(queue) = <<>> => Len(Tail(queue)) = 0
      <4>1. Len(<<>>) = 0
        OBVIOUS
      <4> QED  BY <4>1, Zenon
    <3> QED  BY <3>1, <3>2, <3>3, <3>4
  <2>5. opPage' = IF Head(wire["restore"]).type = "op_step" THEN "running"
                  ELSE Head(wire["restore"]).state
    BY <1>2 DEF OpPageReceives
  <2>6. "restore" \in clients /\ op.state = "running" =>
          IF wire'["restore"] = <<>> THEN opPage' = "running"
          ELSE SaysRunning(wire'["restore"][Len(wire'["restore"])])
    BY <1>0, <2>1, <2>4, <2>5 DEF OpPageInv, SaysRunning
  <2>7. OpPageInv'
    BY <1>0, <2>6 DEF OpPageInv, SaysRunning
  <2> QED  BY <2>1, <2>3, <2>7
<1> QED  BY <1>1, <1>2

(* What the service remembers besides                                      *)
CountsTyped ==
  /\ request \in [OpRequests -> {"new", "checked", "refused", "accepted"}]
  /\ restarts \in 0 .. MaxRestarts

(* Every step keeps the types of what the proofs above left out.           *)
LEMMA CountsKept ==
  ASSUME CountsTyped, [Next]_vars
  PROVE  CountsTyped'
<1>1. CASE HandlesRequest
  <2>1. CASE \E r \in OpRequests : \/ CheckOpRequest(r) \/ OpRequestRefused(r)
                                   \/ \E kind \in OpKinds : OpRequestBody(r, kind)
    BY <2>1 DEF CheckOpRequest, OpRequestRefused, OpRequestBody, CountsTyped
  <2>2. CASE ~\E r \in OpRequests : \/ CheckOpRequest(r) \/ OpRequestRefused(r)
                                    \/ \E kind \in OpKinds : OpRequestBody(r, kind)
    BY <1>1, <2>2 DEF HandlesRequest, TriggerDeploy, ResetDeploy, CancelOp, SocketCancel, SocketOp,
                      CountsTyped
  <2> QED  BY <2>1, <2>2
<1>2. CASE \E s \in Scripts : ScriptRuns(s)
  BY <1>2 DEF ScriptRuns, SpawnFails, TakeLock, OpBegins, WorkEnds, Exits, CountsTyped
<1>3. CASE \E s \in Scripts : LineTaken(s)
  <2>1. UNCHANGED <<request, restarts>>
    BY <1>3 DEF LineTaken, DeployStep, DeployMarker, DeployError, DeployExit, OpStep, OpMarker,
                OpExit, Line
  <2> QED  BY <2>1 DEF CountsTyped
<1>4. CASE \E p \in Pages : Connect(p) \/ Disconnect(p)
  BY <1>4 DEF Connect, Disconnect, CountsTyped
<1>5. CASE Restart
  <2>1. request' \in [OpRequests -> {"new", "checked", "refused", "accepted"}]
    BY <1>5 DEF Restart, CountsTyped
  <2> QED  BY <1>5, <2>1, BoundsAssumption DEF Restart, CountsTyped
<1>6. CASE UNCHANGED vars
  BY <1>6 DEF vars, CountsTyped
<1> QED  BY <1>1, <1>2, <1>3, <1>4, <1>5, <1>6 DEF Next

(* Every step of the pages keeps theirs.                                   *)
LEMMA PagesTypesKept ==
  ASSUME PagesTyped, AwaitInv, Wired, [ConsoleNext]_allVars
  PROVE  PagesTyped'
<1>0. /\ page = [type |-> page.type, asking |-> page.asking, guess |-> page.guess]
      /\ page.type \in States /\ page.asking \in {"none", "start", "reset"}
      /\ page.guess \in BOOLEAN /\ {"idle", "running"} \subseteq States
  BY DEF PagesTyped, PageRows, States
<1>a. \A type \in States, asking \in {"none", "start", "reset"} :
        /\ [type |-> type, asking |-> asking, guess |-> page.guess] \in PageRows
        /\ [type |-> type, asking |-> asking, guess |-> TRUE] \in PageRows
        /\ [type |-> type, asking |-> asking, guess |-> FALSE] \in PageRows
  BY <1>0 DEF PageRows
<1>1. CASE ServiceStep
  BY <1>1 DEF ServiceStep, consoleVars, PagesTyped
<1>2. CASE Click("start") \/ Click("reset")
  <2>1. page' \in {[page EXCEPT !.asking = "start"], [page EXCEPT !.asking = "reset"]}
    BY <1>2 DEF Click
  <2>2. page' \in {[type |-> page.type, asking |-> "start", guess |-> page.guess],
                   [type |-> page.type, asking |-> "reset", guess |-> page.guess]}
    BY <1>0, <2>1
  <2>9. page' \in PageRows
    BY <1>0, <1>a, <2>2
  <2> QED  BY <1>2, <2>9 DEF Click, PagesTyped
<1>3. CASE NoTicket
  <2>1. page' = [type |-> page.type, asking |-> "none", guess |-> page.guess]
    BY <1>0, <1>3 DEF NoTicket
  <2>9. page' \in PageRows
    BY <1>0, <1>a, <2>1
  <2> QED  BY <1>3, <2>9 DEF NoTicket, PagesTyped
<1>4. CASE StartSent
  BY <1>0, <1>a, <1>4 DEF StartSent, PagesTyped
<1>5. CASE ResetSent
  <2>1. page' \in {[page EXCEPT !.type = "idle", !.asking = "none", !.guess = TRUE],
                   [page EXCEPT !.asking = "none"]}
    BY <1>5 DEF ResetSent
  <2>2. page' \in {[type |-> "idle", asking |-> "none", guess |-> TRUE],
                   [type |-> page.type, asking |-> "none", guess |-> page.guess]}
    BY <1>0, <2>1
  <2>9. page' \in PageRows
    BY <1>0, <1>a, <2>2
  <2> QED  BY <1>5, <2>9 DEF ResetSent, PagesTyped
<1>6. CASE StartRead \/ ResetRead
  BY <1>6 DEF StartRead, ResetRead, PagesTyped
<1>7. CASE ResetAnswered
  <2>1. page' = [type |-> "idle", asking |-> page.asking, guess |-> TRUE]
    BY <1>0, <1>7 DEF ResetAnswered
  <2>9. page' \in PageRows
    BY <1>0, <1>a, <2>1
  <2> QED  BY <1>7, <2>9 DEF ResetAnswered, PagesTyped
<1>8. CASE RequestLost
  BY <1>8 DEF RequestLost, PagesTyped
<1>9. CASE PageReceives
  <2>1. Head(wire["deploy"]) \in DeployTalk
    BY <1>9 DEF PageReceives, Received, Wired
  <2>2. \/ page' = page
        \/ /\ Head(wire["deploy"]).type = "status"
           /\ page' = [page EXCEPT !.type = Head(wire["deploy"]).state, !.guess = FALSE]
    BY <1>9 DEF PageReceives
  <2>3. Head(wire["deploy"]).type = "status" => Head(wire["deploy"]).state \in States
    BY <2>1 DEF DeployTalk
  <2>4. \/ page' = page
        \/ \E state \in States :
             page' = [type |-> state, asking |-> page.asking, guess |-> FALSE]
    BY <1>0, <2>2, <2>3
  <2>9. page' \in PageRows
    BY <1>0, <1>a, <2>4 DEF PagesTyped
  <2> QED  BY <1>9, <2>9 DEF PageReceives, PagesTyped
<1>10. CASE \E r \in OpRequests : PostAnswered(r)
  BY <1>0, <1>10 DEF PostAnswered, PagesTyped
<1>11. CASE OpPageReceives
  <2>1. Head(wire["restore"]) \in OpTalk
    BY <1>11 DEF OpPageReceives, Received, Wired
  <2>2. Head(wire["restore"]).type # "op_step" => Head(wire["restore"]).state \in States
    BY <2>1 DEF OpTalk
  <2> QED  BY <1>0, <1>11, <2>2 DEF OpPageReceives, PagesTyped
<1>12. CASE \E p \in Pages : SocketLost(p)
  <2> PICK p \in Pages : SocketLost(p)
    BY <1>12
  <2>0. drops < MaxDrops /\ drops' = drops + 1 /\ UNCHANGED <<page, opPage, posted>>
    BY DEF SocketLost
  <2>1. drops' \in 0 .. MaxDrops
    <3>1. drops \in 0 .. MaxDrops /\ MaxDrops \in Nat
      BY DropsAssumption DEF PagesTyped
    <3>2. drops < MaxDrops /\ drops' = drops + 1
      BY <2>0
    <3>3. \A d \in 0 .. MaxDrops : d < MaxDrops => d + 1 \in 0 .. MaxDrops
      BY <3>1
    <3> QED  BY <3>1, <3>2, <3>3
  <2>2. uplink' = "none" \/ uplink' = uplink
    BY DEF SocketLost
  <2> QED  BY <2>0, <2>1, <2>2 DEF PagesTyped
<1>13. CASE ServiceRestarts
  BY <1>13 DEF ServiceRestarts, PagesTyped
<1>14. CASE UNCHANGED allVars
  BY <1>14 DEF allVars, consoleVars, PagesTyped
<1> QED  BY <1>1, <1>2, <1>3, <1>4, <1>5, <1>6, <1>7, <1>8, <1>9, <1>10, <1>11, <1>12, <1>13, <1>14
         DEF ConsoleNext

(* The service's own part of the invariant, whatever the pages do          *)
ServiceInv == Typed /\ Unborn /\ LockInv /\ AwaitInv /\ VoiceInv /\ CountsTyped

ConsoleInv == ServiceInv /\ Wired /\ PagesTyped /\ PageInv /\ OpPageInv

(* A page that handles a message leaves what the service knows.            *)
LEMMA StillKept ==
  ASSUME ServiceInv, ServiceStill
  PROVE  ServiceInv'
<1>1. UNCHANGED <<deploy, deployProcess, op, opProcess, spawned, script, lockFile, request,
                  resets, restarts>>
  BY DEF ServiceStill, memory, scripts
<1>2. Typed' /\ Unborn' /\ CountsTyped'
  BY <1>1 DEF ServiceInv, Typed, Unborn, CountsTyped
<1>3. LockInv'
  BY <1>1 DEF ServiceInv, LockInv, Opened
<1>4. AwaitInv' /\ VoiceInv'
  BY <1>1 DEF ServiceInv, AwaitInv, RunningAwaited, VoiceInv, WellSaid, Calm, ExitAhead
<1> QED  BY <1>2, <1>3, <1>4 DEF ServiceInv

(* The invariant of the service and its pages holds at the start, and      *)
(* every step keeps it.                                                    *)
LEMMA ConsoleInvHolds == ConsoleSpec => []ConsoleInv
<1>1. ConsoleInit => ConsoleInv
  <2> SUFFICES ASSUME ConsoleInit  PROVE ConsoleInv
    OBVIOUS
  <2>1. Init
    BY DEF ConsoleInit
  <2>2. Typed /\ Unborn
    BY <2>1, TypesStart
  <2>3. LockInv /\ AwaitInv
    BY <2>1, BoundsAssumption
       DEF Init, LockInv, AwaitInv, RunningAwaited, NoScript, FreshDeploy, FreshOp, States
  <2>4. VoiceInv
    BY <2>1, SilentWell DEF Init, VoiceInv, NoScript, FreshDeploy, ExitAhead
  <2>5. CountsTyped
    BY <2>1, BoundsAssumption DEF Init, CountsTyped
  <2>6. Wired
    <3>1. <<>> \in Seq(Messages) /\ <<>> \in Seq(DeployTalk) /\ <<>> \in Seq(OpTalk)
      OBVIOUS
    <3> QED  BY <2>1, <3>1 DEF Init, Wired, Pages
  <2>7. PagesTyped
    BY DropsAssumption DEF ConsoleInit, PagesTyped, PageRows, States
  <2>8. PageInv /\ OpPageInv
    BY <2>1 DEF Init, PageInv, OpPageInv, FreshOp
  <2> QED  BY <2>2, <2>3, <2>4, <2>5, <2>6, <2>7, <2>8 DEF ConsoleInv, ServiceInv
<1>2. ConsoleInv /\ [ConsoleNext]_allVars => ConsoleInv'
  <2> SUFFICES ASSUME ConsoleInv, [ConsoleNext]_allVars  PROVE ConsoleInv'
    OBVIOUS
  <2>1. PagesTyped'
    BY PagesTypesKept DEF ConsoleInv, ServiceInv
  <2>2. CASE [Next]_vars /\ PageActs
    <3>1. ServiceInv'
      BY <2>2, TypesKept, UnbornKept, LockKept, AwaitKept, VoiceKept, CountsKept
         DEF ConsoleInv, ServiceInv
    <3>2. Wired' /\ PageInv' /\ OpPageInv'
      BY <2>2, ServiceKeepsPages DEF ConsoleInv, ServiceInv
    <3> QED  BY <2>1, <3>1, <3>2 DEF ConsoleInv
  <2>3. CASE PageReceives \/ OpPageReceives
    <3>1. ServiceInv'
      BY <2>3, StillKept DEF ConsoleInv, ServiceStill, PageReceives, OpPageReceives, Received
    <3>2. Wired' /\ PageInv' /\ OpPageInv'
      BY <2>3, ReceivingKeepsPages DEF ConsoleInv, ServiceInv
    <3> QED  BY <2>1, <3>1, <3>2 DEF ConsoleInv
  <2> QED  BY <2>2, <2>3, ConsoleMoves DEF ConsoleInv
<1> QED  BY <1>1, <1>2, PTL DEF ConsoleSpec

(* The service, its scripts, the wires and the pages keep their types.     *)
THEOREM ConsoleTyped == ConsoleSpec => []ConsoleTypeOK
<1>1. ConsoleInv => ConsoleTypeOK
  <2> SUFFICES ASSUME ConsoleInv  PROVE ConsoleTypeOK
    OBVIOUS
  <2>1. TypeOK
    BY DEF ConsoleInv, ServiceInv, Typed, AwaitInv, CountsTyped, Wired, TypeOK, ScriptRow
  <2> QED  BY <2>1 DEF ConsoleInv, PagesTyped, PageRows, ConsoleTypeOK
<1> QED  BY <1>1, ConsoleInvHolds, PTL

(* The pages' clicks, tickets, lost requests and sockets add nothing to    *)
(* what can become of the scripts.                                         *)
THEOREM ServiceSafeBesidePages ==
  ConsoleSpec => [](OneDeploySinceReset /\ RunningAwaited /\ OwnVoice)
<1>1. ConsoleInv => OneDeploySinceReset /\ RunningAwaited /\ OwnVoice
  BY LockInvEnough DEF ConsoleInv, ServiceInv, AwaitInv, VoiceInv, OwnVoice, Calm
<1> QED  BY <1>1, ConsoleInvHolds, PTL

(* A deploy page that has handled every message and does not guess shows   *)
(* the state of the service, after any reset, kill, failure, takeover and  *)
(* reconnection.                                                           *)
THEOREM DeployPageAlwaysAgrees == ConsoleSpec => []DeployPageAgrees
<1>1. ConsoleInv => DeployPageAgrees
  BY DEF ConsoleInv, PageInv, DeployPageAgrees, ToldLast
<1> QED  BY <1>1, ConsoleInvHolds, PTL

(* A restore page that has handled every message never shows an operation  *)
(* as ended that still runs, whatever answers cross its messages.          *)
THEOREM OpPageNeverTooSoon == ConsoleSpec => []NeverDoneTooSoon
<1>1. ConsoleInv => NeverDoneTooSoon
  BY DEF ConsoleInv, OpPageInv, NeverDoneTooSoon
<1> QED  BY <1>1, ConsoleInvHolds, PTL
=============================================================================
