SPECIFICATION FairSpec
CONSTANTS
  RunStates <- Mixed
  Refresh = 1
  Lifetime = 2
  MaxTime = 2
  MaxChanges = 3
  MaxMissed = 1
  MayDisable = TRUE
  MayBeLate = TRUE
  Prompt = FALSE
CHECK_DEADLOCK FALSE
INVARIANT TypeOK
INVARIANT QueueIsHistory
INVARIANT AlertmanagerAgrees
PROPERTY ObservationsInOrder
PROPERTY NothingSkipped
PROPERTY EventuallyAgrees
