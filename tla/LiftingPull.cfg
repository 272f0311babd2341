SPECIFICATION SceneSpec
CONSTANTS
  r1 = r1
  r2 = r2
  h1 = h1
  Records = {r1, r2}
  Houses = {h1}
  HouseOf <- HouseOfRecords
  Starts = {1, 2}
  MaxJobs = 2
  MaxRows = 2
  MaxHalfHours = 1
  MaxCrashes = 1
  ErrorPages = FALSE
  Scenes = {"two pulls", "window"}
INVARIANT OneDriver
INVARIANT OnePending
INVARIANT UndecidedIsMarked
INVARIANT CreatedIsKept
PROPERTY HousesFreed
PROPERTY ModalEnds
CHECK_DEADLOCK FALSE
