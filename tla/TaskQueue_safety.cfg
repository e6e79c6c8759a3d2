\* The task queue in either mode, fair scheduling: three tasks on one request id, one crash.
CONSTANTS
  k1 = k1
  k2 = k2
  t1 = t1
  t2 = t2
  t3 = t3
  NoQueue = NoQueue
  NoTask = NoTask
  Keys <- MCKeys1
  Tasks <- MCTasks
  KeyOf <- MCKeyOf1
  Modes = {"standalone", "master"}
  MaxCrashes = 1
SPECIFICATION FairSpec
INVARIANT OneRunningPerKey
INVARIANT StoreReconcilable
PROPERTY QueuedTaskEventuallyDone
\* The node is idle once every task has run: the queue may stop.
CHECK_DEADLOCK FALSE
