SPECIFICATION Spec
CONSTANTS
  Pids = {1, 2}
  Registered = {1, 2}
  Empire <- OneKingdom
  Tier <- VeteranFirst
  LowLevel = {2}
  Kingdoms = 1
  Hosted = {1}
  Want <- OneEach
  Droppers <- Nobody
  Late <- Nobody
  Batches = 2
  Second = 1
  Minute = 2
  Handles = {1, 2, 3, 4}
  MaxStale = 0
  Envs <- QuietWorld
INVARIANTS SliderOrder
CHECK_DEADLOCK FALSE
