SPECIFICATION Spec
CONSTANTS
  Pids = {1, 2, 3}
  Registered = {1, 2}
  Empire <- OneKingdom
  Tier <- OneTier
  LowLevel = {2}
  Kingdoms = 1
  Hosted = {1}
  Want <- OneEach
  Droppers <- OneEach
  Late <- Nobody
  Batches = 2
  Second = 2
  Minute = 3
  Handles = {1, 2, 3, 4}
  MaxStale = 2
  Envs <- FaultWorlds
INVARIANTS HandlesAgree OwnCharacter AnswersAreTaken
PROPERTIES KeepsPresence
