SPECIFICATION FairSpec
CONSTANTS
  Relays = {r1, r2}
  Notes = {1, 2}
  MaxAttempts = 3
  Batch = 2
INVARIANTS DispatchesAreBounded
PROPERTIES OutcomeIsFinal EveryNotificationSettles
CHECK_DEADLOCK FALSE
