SPECIFICATION Spec
CONSTANTS
  Pids = {1, 2, 3}
  Registered = {1, 2, 3}
  Empire <- TwoKingdoms
  Tier <- OneTier
  LowLevel = {2}
  Kingdoms = 3
  Hosted = {1, 2}
  Want <- OneEach
  Droppers <- SecondOnly
  Late <- Nobody
  Batches = 2
  Second = 2
  Minute = 1
  Handles = {1, 2, 3}
  MaxStale = 1
  Envs <- ListWorlds
INVARIANTS LoadsAreAsked RestersAreOut BudgetKept WindowKept
PROPERTIES BannedAreNotAsked
