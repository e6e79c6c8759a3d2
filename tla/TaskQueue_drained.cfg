\* A task persisted while cleanUpQueue deletes its queue is never pushed: its record outlives the drained queue.
CONSTANTS
  k1 = k1
  k2 = k2
  t1 = t1
  t2 = t2
  t3 = t3
  NoQueue = NoQueue
  NoTask = NoTask
  Keys <- MCKeys1
  Tasks <- MCTasks
  KeyOf <- MCKeyOf1
  Modes = {"standalone", "master"}
  MaxCrashes = 0
SPECIFICATION Spec
INVARIANT DrainedQueueLeavesNoRecord
CHECK_DEADLOCK FALSE
