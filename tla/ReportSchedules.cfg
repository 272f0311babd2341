SPECIFICATION SceneSpec
CONSTANTS
  daily = daily
  often = often
  photo = photo
  Schedules = {daily, often, photo}
  Config <- MCConfig
  Broken = {photo}
  DayLength = 3
  Days = 2
  MaxSpan = 2
  MaxFaults = 1
  MaxEdits = 1
  Scenes <- MCScenes
INVARIANT CopiesBounded
PROPERTY NoTightRetry
PROPERTY DailyDelivered
PROPERTY NotStarved
