SPECIFICATION FairSpec
CONSTANTS
  Percents = {0, 50, 100}
  Rates = {0, 100, 130}
  Moves = {0, 70, 150}
  MaxMoves = 2
  Ceiling = 260
  Envs <- MCEnvs
INVARIANTS RateIsRaised NormRestored MovedIsLeft SafeToRepeat
PROPERTIES BackToNorm
CHECK_DEADLOCK FALSE
