\* Both modes, no crash: c1 is called in this process, c2 (with a shouldRetry function) is sent by a worker in master mode.
CONSTANTS
  c1 = c1
  c2 = c2
  CbIds <- MCCbIds
  HasPredicate <- MCHasPredicate
  MinDelay = 1
  MaxDelay = 2
  Timeout = 3
  MaxCrashes = 0
  Modes = {"standalone", "master"}
  InitMayFail = FALSE
  WorkerCbs = {c2}
SPECIFICATION Spec
INVARIANT OneLoopPerRecord
\* the node may go idle once every delivery has ended
CHECK_DEADLOCK FALSE
