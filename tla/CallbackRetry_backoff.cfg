\* One delivery without a shouldRetry function, no crash.
CONSTANTS
  c1 = c1
  c2 = c2
  CbIds <- MCCbIds1
  HasPredicate <- MCHasPredicate1
  MinDelay = 1
  MaxDelay = 2
  Timeout = 3
  MaxCrashes = 0
  Modes = {"standalone"}
  InitMayFail = FALSE
  WorkerCbs = {}
SPECIFICATION Spec
PROPERTY BackoffRespected
\* the node may go idle once every delivery has ended
CHECK_DEADLOCK FALSE
