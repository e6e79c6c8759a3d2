\* Two calls of callbackToClient (each with or without retry), backoff of
\* one or two ticks, one crash or exit after shutdown.
CONSTANTS
  r1 = r1
  r2 = r2
  CbIds <- MCCbIds
  MinDelay = 1
  MaxDelay = 2
  MaxCrashes = 1
SPECIFICATION FairSpec
INVARIANT TypeOK
PROPERTIES DeliverySpec RecordRetried
\* the server may go idle once every delivery has ended
CHECK_DEADLOCK FALSE
