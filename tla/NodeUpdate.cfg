\* Two updateNode calls, every input shape and every ledger and callback outcome.
CONSTANTS
  r1 = r1
  r2 = r2
  Refs <- MCRefs
SPECIFICATION FairSpec
INVARIANT NoPrematureSuccess
PROPERTY SubmittedAnswered
\* the node is idle once every call has ended
CHECK_DEADLOCK FALSE
