SPECIFICATION FairSpec
CONSTANTS
  Attempts = {a1}
  NoAttempt = NoAttempt
  MaxEndpoints = 1
CHECK_DEADLOCK FALSE
INVARIANT TimeoutIsReported
