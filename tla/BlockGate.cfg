\* Two messages at heights 1 and 2, the ledger going from height 1 to 3.
CONSTANTS
  m1 = m1
  m2 = m2
  Msgs <- MCMsgs
  HeightOf <- MCHeightOf
  MaxHeight = 3
SPECIFICATION FairSpec
PROPERTY MessageEventuallyProcessed
\* the node is idle once every message is processed and the last block seen
CHECK_DEADLOCK FALSE
