SPECIFICATION ClockSpec
CONSTANTS
  Pids = {1, 2}
  Registered = {1, 2}
  Empire <- OneKingdom
  Tier <- OneTier
  LowLevel = {2}
  Kingdoms = 1
  Hosted = {1}
  Want <- OneEach
  Droppers <- Nobody
  Late <- OneEach
  Batches = 2
  Second = 1
  Minute = 1
  Handles = {1, 2, 3}
  MaxStale = 1
  Envs <- ReturnWorlds
PROPERTIES CohortReturns BannedLeave
CHECK_DEADLOCK FALSE
