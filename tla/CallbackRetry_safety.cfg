\* Two deliveries, one with a shouldRetry function, one crash, both modes;
\* in master mode the second is sent by a worker; a start-up step of
\* initialize may fail.
CONSTANTS
  c1 = c1
  c2 = c2
  CbIds <- MCCbIds
  HasPredicate <- MCHasPredicate
  MinDelay = 1
  MaxDelay = 1
  Timeout = 2
  MaxCrashes = 1
  Modes = {"standalone", "master"}
  InitMayFail = TRUE
  WorkerCbs = {c2}
SPECIFICATION Spec
INVARIANT TypeOK
PROPERTY DeliverySpec
\* the node may go idle once every delivery has ended
CHECK_DEADLOCK FALSE
