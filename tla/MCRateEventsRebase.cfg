SPECIFICATION Spec
CONSTANTS
  Percents = {0, 50, 100}
  Rates = {0, 100, 130}
  Moves = {0, 70, 150}
  MaxMoves = 0
  Ceiling = 260
  Envs <- MCRebased
INVARIANT RateFollowsFigure
CHECK_DEADLOCK FALSE
