SPECIFICATION FairSpec
CONSTANTS
  MaxTotal = 10
  MaxRegistered = 5
INVARIANTS BudgetIsSpent SharesAreEven
PROPERTIES Ends
CHECK_DEADLOCK FALSE
