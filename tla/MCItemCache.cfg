SPECIFICATION FairSpec
CONSTANTS
  p1 = p1
  p2 = p2
  b1 = b1
  i1 = i1
  Items = {i1}
  Players = {p1, p2, b1}
  Bots = {b1}
  Keeper = p1
  Box = Box
  Ground = Ground
  Nobody = Nobody
  MaxVer = 2
  MaxQueue = 2
INVARIANTS SetsAreOwned DirtyIsListed NothingForgotten LoadSeesLatest
PROPERTIES WrittenInTheEnd
CHECK_DEADLOCK FALSE
