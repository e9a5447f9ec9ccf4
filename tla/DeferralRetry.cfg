SPECIFICATION Spec
CONSTANTS
  Issues = {1}
  Needs <- NoNeeds
  MaxTime = 4
  MaxChanges = 0
  MaxFaults = 0
  MaxRounds = 0
  MaxRetries = 2
  RetryAfter = 1
  MaxTotal = 2
  MaxForge = 1
INVARIANT DeferralRetried
CHECK_DEADLOCK FALSE
