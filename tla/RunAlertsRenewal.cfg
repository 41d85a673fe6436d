SPECIFICATION Spec
CONSTANTS
  RunStates <- Readable
  Refresh = 1
  Lifetime = 5
  MaxTime = 9
  MaxChanges = 2
  MaxMissed = 3
  MayDisable = FALSE
  MayBeLate = FALSE
  Prompt = TRUE
CHECK_DEADLOCK FALSE
INVARIANT NoLapse
