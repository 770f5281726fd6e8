SPECIFICATION FairSpec
CONSTANTS
  Queries = {1, 2, 3, 4}
  Returning = {1, 2, 4}
  MaxRetries = 2
INVARIANTS NoLostWakeup ShutdownDrains
PROPERTIES KeepsOrder PushedFinishes QuitReturns
CHECK_DEADLOCK FALSE
