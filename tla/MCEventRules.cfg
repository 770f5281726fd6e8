SPECIFICATION Spec
CONSTANTS
  Day = 3
  Week = 3
  Until = {2, 7}
  Horizon = 19
INVARIANTS OnWhileAnOpeningLasts
PROPERTIES EndsAsAnnounced StartsAsShown
CHECK_DEADLOCK FALSE
