SPECIFICATION SceneSpec
CONSTANTS
  MaxScripts = 3
  MaxResets = 1
  MaxRestarts = 1
  OpRequests = {r1}
  MaxWire = 2
  MaxDrops = 1
  Scenes = {"resets", "operations", "late body", "deploy page", "restore page"}
INVARIANT ConsoleTypeOK
INVARIANT OneDeploySinceReset
INVARIANT RunningAwaited
INVARIANT OwnVoice
INVARIANT DeployPageAgrees
INVARIANT NeverDoneTooSoon
PROPERTY RunsEnd
CHECK_DEADLOCK FALSE
