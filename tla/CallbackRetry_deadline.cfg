\* Master mode: one delivery without a shouldRetry function, sent by a
\* worker that may be lost; no crash.
CONSTANTS
  c1 = c1
  c2 = c2
  CbIds <- MCCbIds1
  HasPredicate <- MCHasPredicate1
  MinDelay = 1
  MaxDelay = 2
  Timeout = 3
  MaxCrashes = 0
  Modes = {"master"}
  InitMayFail = FALSE
  WorkerCbs = {c1}
SPECIFICATION FairSpec
PROPERTY DeliveryTerminates
\* the node may go idle once every delivery has ended
CHECK_DEADLOCK FALSE
