CONSTANTS
  MaxVersion = 2
  MaxPolicySteps = 5
SPECIFICATION PolicySpec
INVARIANTS UntouchedFollowsCurrent
CHECK_DEADLOCK FALSE
