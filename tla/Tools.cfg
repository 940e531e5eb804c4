SPECIFICATION FairToolSpec
CONSTANTS
  Attempts = {a1, a2}
  NoAttempt = NoAttempt
  MaxEndpoints = 3
  Variables = {v1, v2}
  Values = 3
  MaxStray = 1
CHECK_DEADLOCK FALSE
INVARIANTS
  ToolTypeOK
  ReportedOnce
  OneLoop
  ReadsWhatItWrote
PROPERTIES
  AttemptEnds
  ChainsGoOn
  ToolEnds
