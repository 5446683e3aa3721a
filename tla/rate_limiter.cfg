SPECIFICATION FairSpec
CONSTANTS
  Window = 3
  Limit = 2
  MaxTime = 12
  MaxRefusals = 2
INVARIANTS TypeOK NeverTooMany
PROPERTIES RefusedOnlyWhenFull DecidesByTheWindow QuietClientIsForgotten
CHECK_DEADLOCK FALSE
