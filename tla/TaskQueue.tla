------------------------------ MODULE TaskQueue ------------------------------
(***************************************************************************)
(* The per-request task queue of the NDID API node (src/unnamed/part_000,  *)
(* lines 551-846): addTaskToQueue, executeTaskInQueue,                     *)
(* onTaskExecutionFinished, cleanUpQueue and                               *)
(* restoreTaskFromPersistentQueue.                                         *)
(*                                                                         *)
(* Node.js runs one callback at a time, so each action is one synchronous  *)
(* stretch of JavaScript between two suspension points: an await on the    *)
(* cache DB, a setImmediate turn, or the completion of a task body.        *)
(* Cache DB calls are issued into one FIFO connection (cacheDbOps) and     *)
(* take effect, together with the continuation that awaited them, when     *)
(* they reach its head.  A crash loses the process memory and an arbitrary *)
(* prefix of the calls in flight reaches the store.                        *)
(***************************************************************************)
EXTENDS Naturals, Sequences, SequencesExt, FiniteSets

CONSTANTS
  Keys,        \* request ids tasks are serialised on
  Tasks,       \* tasks, each added once
  KeyOf,       \* the request id of each task
  Modes,       \* values config.mode may take: "standalone", "master"
  MaxCrashes,  \* bound on process crashes
  NoQueue,     \* requestQueue[requestId] == null
  NoTask       \* task field of a DB call that carries none

ASSUME /\ KeyOf \in [Tasks -> Keys]
       /\ Modes \subseteq {"standalone", "master"} /\ Modes # {}
       /\ MaxCrashes \in Nat

VARIABLES
  requestQueue,              \* in-memory queue per request id, or NoQueue
  requestQueueRunning,       \* a task of the request id is executing
  scheduled,                 \* setImmediate(executeTaskInQueue, k) pending
  executing,                 \* tasks whose body (or worker call) is running
  removeDone,                \* last removePersistentQueuePromise resolved
  awaitingRemoval,           \* finished tasks waiting on that promise
  persistentQueue,           \* the cache DB persistent queue per request id
  cacheDbOps,                \* cache DB calls issued and not yet answered
  pendingTasksInQueueCount,
  processingTasksCount,
  requestsInQueueCount,
  mode,                      \* config.mode, fixed for the process's life
  up,                        \* the process is running
  crashes,
  added,                     \* history: tasks addTaskToQueue was called for
  appended,                  \* history: tasks in the order they were persisted
  doneSeq                    \* history: first completions, in order, per key

queueVars == <<requestQueue, requestQueueRunning, scheduled, executing,
               removeDone, awaitingRemoval>>
metricVars == <<pendingTasksInQueueCount, processingTasksCount,
                requestsInQueueCount>>
histVars == <<added, appended, doneSeq>>
vars == <<queueVars, persistentQueue, cacheDbOps, metricVars, mode, up,
          crashes, histVars>>

DbOp == [op : {"addTask", "removeFirst"}, key : Keys, task : Tasks \cup {NoTask}]

TypeOK ==
  /\ requestQueue \in [Keys -> Seq(Tasks) \cup {NoQueue}]
  /\ requestQueueRunning \in [Keys -> BOOLEAN]
  /\ scheduled \in [Keys -> Nat]
  /\ executing \subseteq Tasks
  /\ removeDone \in [Keys -> BOOLEAN]
  /\ awaitingRemoval \in [Keys -> Nat]
  /\ persistentQueue \in [Keys -> Seq(Tasks)]
  /\ cacheDbOps \in Seq(DbOp)
  /\ pendingTasksInQueueCount \in Int
  /\ processingTasksCount \in Int
  /\ requestsInQueueCount \in Int
  /\ mode \in Modes
  /\ up \in BOOLEAN
  /\ crashes \in 0..MaxCrashes
  /\ added \subseteq Tasks
  /\ appended \in [Keys -> Seq(Tasks)]
  /\ doneSeq \in [Keys -> Seq(Tasks)]

Done(t) == t \in ToSet(doneSeq[KeyOf[t]])
Queued(t) == LET q == requestQueue[KeyOf[t]] IN q # NoQueue /\ t \in ToSet(q)
Accepted(t) == t \in ToSet(appended[KeyOf[t]])

\* Mutation: the removal pops the last task of the list instead of the first.
ApplyDbOpPopLast(pq, o) ==
  IF o.op = "addTask"
    THEN [pq EXCEPT ![o.key] = Append(@, o.task)]
    ELSE [pq EXCEPT ![o.key] = IF @ = <<>> THEN @ ELSE Front(@)]

\* The effect of one cache DB call on the persistent queues.
ApplyDbOp(pq, o) ==
  IF o.op = "addTask"
    THEN [pq EXCEPT ![o.key] = Append(@, o.task)]
    ELSE [pq EXCEPT ![o.key] = IF @ = <<>> THEN @ ELSE Tail(@)]

\* The tasks a sequence of DB calls appends to the queue of k, in order.
AppendsOf(ops, k) ==
  LET adds == SelectSeq(ops, LAMBDA o : o.op = "addTask" /\ o.key = k)
  IN  [i \in 1..Len(adds) |-> adds[i].task]

Init ==
  /\ requestQueue = [k \in Keys |-> NoQueue]
  /\ requestQueueRunning = [k \in Keys |-> FALSE]
  /\ scheduled = [k \in Keys |-> 0]
  /\ executing = {}
  /\ removeDone = [k \in Keys |-> TRUE]
  /\ awaitingRemoval = [k \in Keys |-> 0]
  /\ persistentQueue = [k \in Keys |-> <<>>]
  /\ cacheDbOps = <<>>
  /\ pendingTasksInQueueCount = 0
  /\ processingTasksCount = 0
  /\ requestsInQueueCount = 0
  /\ mode \in Modes
  /\ up = TRUE
  /\ crashes = 0
  /\ added = {}
  /\ appended = [k \in Keys |-> <<>>]
  /\ doneSeq = [k \in Keys |-> <<>>]

-----------------------------------------------------------------------------
(* addTaskToQueue, up to its await: create the queue of the request id if   *)
(* it has none, then issue addTaskToPersistentQueue.                       *)
AddTaskToQueue(t) ==
  LET k == KeyOf[t] IN
  /\ up
  /\ t \notin added
  /\ IF requestQueue[k] = NoQueue
       THEN /\ requestQueue' = [requestQueue EXCEPT ![k] = <<>>]
            /\ requestsInQueueCount' = requestsInQueueCount + 1
       ELSE UNCHANGED <<requestQueue, requestsInQueueCount>>
  /\ cacheDbOps' = Append(cacheDbOps, [op |-> "addTask", key |-> k, task |-> t])
  /\ added' = added \cup {t}
  /\ UNCHANGED <<requestQueueRunning, scheduled, executing, removeDone,
                 awaitingRemoval, persistentQueue, pendingTasksInQueueCount,
                 processingTasksCount, up, crashes, mode, appended, doneSeq>>

(* addTaskToPersistentQueue is answered and addTaskToQueue resumes: push   *)
(* the task and schedule executeTaskInQueue.  If the queue was deleted by  *)
(* cleanUpQueue meanwhile, requestQueue[requestId].push throws.            *)
AddTaskPersisted ==
  LET o == Head(cacheDbOps)
      k == o.key
  IN
  /\ up
  /\ cacheDbOps # <<>>
  /\ o.op = "addTask"
  /\ persistentQueue' = ApplyDbOp(persistentQueue, o)
  /\ cacheDbOps' = Tail(cacheDbOps)
  /\ appended' = [appended EXCEPT ![k] = Append(@, o.task)]
  /\ \/ /\ requestQueue[k] # NoQueue
        /\ requestQueue' = [requestQueue EXCEPT ![k] = Append(@, o.task)]
        /\ pendingTasksInQueueCount' = pendingTasksInQueueCount + 1
        /\ scheduled' = [scheduled EXCEPT ![k] = @ + 1]
     \/ /\ requestQueue[k] = NoQueue
        /\ UNCHANGED <<requestQueue, pendingTasksInQueueCount, scheduled>>
  /\ UNCHANGED <<requestQueueRunning, executing, removeDone, awaitingRemoval,
                 processingTasksCount, requestsInQueueCount, up, crashes, mode,
                 added, doneSeq>>

-----------------------------------------------------------------------------
(* executeTaskInQueue, one setImmediate turn.  Its four outcomes are the   *)
(* four actions below.                                                     *)

\* A task of the request id is running: return at once.
ExecuteWhileRunning(k) ==
  /\ up
  /\ scheduled[k] > 0
  /\ requestQueueRunning[k]
  /\ scheduled' = [scheduled EXCEPT ![k] = @ - 1]
  /\ UNCHANGED <<requestQueue, requestQueueRunning, executing, removeDone,
                 awaitingRemoval, persistentQueue, cacheDbOps, metricVars,
                 up, crashes, mode, histVars>>

\* The queue was deleted: requestQueue[requestId].shift() throws.
ExecuteOnDeletedQueue(k) ==
  /\ up
  /\ scheduled[k] > 0
  /\ ~requestQueueRunning[k]
  /\ requestQueue[k] = NoQueue
  /\ scheduled' = [scheduled EXCEPT ![k] = @ - 1]
  /\ UNCHANGED <<requestQueue, requestQueueRunning, executing, removeDone,
                 awaitingRemoval, persistentQueue, cacheDbOps, metricVars,
                 up, crashes, mode, histVars>>

\* The queue is empty: cleanUpQueue.
ExecuteOnEmptyQueue(k) ==
  /\ up
  /\ scheduled[k] > 0
  /\ ~requestQueueRunning[k]
  /\ requestQueue[k] = <<>>
  /\ scheduled' = [scheduled EXCEPT ![k] = @ - 1]
  /\ requestQueue' = [requestQueue EXCEPT ![k] = NoQueue]
  /\ requestsInQueueCount' = requestsInQueueCount - 1
  /\ UNCHANGED <<requestQueueRunning, executing, removeDone, awaitingRemoval,
                 persistentQueue, cacheDbOps, pendingTasksInQueueCount,
                 processingTasksCount, up, crashes, mode, histVars>>

(* Shift the head task, mark the request id running, start the task (in   *)
(* process, or delegateToWorker in master mode) and issue                  *)
(* removeFirstTaskFromPersistentQueue.  In standalone mode a listener for  *)
(* the removal is registered first.                                        *)
StartHeadTask(k) ==
  /\ scheduled' = [scheduled EXCEPT ![k] = @ - 1]
  /\ requestQueue' = [requestQueue EXCEPT ![k] = Tail(@)]
  /\ requestQueueRunning' = [requestQueueRunning EXCEPT ![k] = TRUE]
  /\ executing' = executing \cup {Head(requestQueue[k])}
  /\ pendingTasksInQueueCount' = pendingTasksInQueueCount - 1
  /\ processingTasksCount' = processingTasksCount + 1
  /\ removeDone' = IF mode = "standalone"
                     THEN [removeDone EXCEPT ![k] = FALSE]
                     ELSE removeDone
  /\ cacheDbOps' = Append(cacheDbOps,
                          [op |-> "removeFirst", key |-> k, task |-> NoTask])
  /\ UNCHANGED <<awaitingRemoval, persistentQueue, requestsInQueueCount, up,
                 crashes, mode, histVars>>

\* Mutation: the `if (requestQueueRunning[requestId]) return;` check is lost.
ExecuteTaskIgnoringRunning(k) ==
  /\ up
  /\ scheduled[k] > 0
  /\ requestQueue[k] \notin {NoQueue, <<>>}
  /\ StartHeadTask(k)

ExecuteTask(k) ==
  /\ up
  /\ scheduled[k] > 0
  /\ ~requestQueueRunning[k]
  /\ requestQueue[k] \notin {NoQueue, <<>>}
  /\ StartHeadTask(k)

\* Mutation: the emit resolves the promise but nobody schedules the next task.
RemoveFirstTaskDoneNoWakeup ==
  LET o == Head(cacheDbOps) IN
  /\ up
  /\ cacheDbOps # <<>>
  /\ o.op = "removeFirst"
  /\ persistentQueue' = ApplyDbOp(persistentQueue, o)
  /\ cacheDbOps' = Tail(cacheDbOps)
  /\ removeDone' = [removeDone EXCEPT ![o.key] = TRUE]
  /\ awaitingRemoval' = [awaitingRemoval EXCEPT ![o.key] = 0]
  /\ UNCHANGED <<requestQueue, requestQueueRunning, scheduled, executing,
                 metricVars, up, crashes, mode, histVars>>

(* removeFirstTaskFromPersistentQueue is answered: emit the request id,    *)
(* which resolves every removal promise registered for it; each finished   *)
(* task waiting on one schedules executeTaskInQueue.                       *)
RemoveFirstTaskDone ==
  LET o == Head(cacheDbOps)
      k == o.key
  IN
  /\ up
  /\ cacheDbOps # <<>>
  /\ o.op = "removeFirst"
  /\ persistentQueue' = ApplyDbOp(persistentQueue, o)
  /\ cacheDbOps' = Tail(cacheDbOps)
  /\ IF mode = "standalone"
       THEN /\ removeDone' = [removeDone EXCEPT ![k] = TRUE]
            /\ scheduled' = [scheduled EXCEPT ![k] = @ + awaitingRemoval[k]]
            /\ awaitingRemoval' = [awaitingRemoval EXCEPT ![k] = 0]
       ELSE UNCHANGED <<removeDone, scheduled, awaitingRemoval>>
  /\ UNCHANGED <<requestQueue, requestQueueRunning, executing, metricVars,
                 up, crashes, mode, histVars>>

-----------------------------------------------------------------------------
(* onTaskExecutionFinished for request id k: clear the running flag, then *)
(* clean the queue up, or schedule the next task after the removal        *)
(* promise in standalone mode and at once in master mode                   *)
(* (onTaskExecutionCallback passes no promise).                            *)
\* Mutation: the next task is never scheduled after a task finishes.
OnTaskExecutionFinishedNoReschedule(k) ==
  /\ requestQueueRunning' = [requestQueueRunning EXCEPT ![k] = FALSE]
  /\ \/ /\ requestQueue[k] = <<>>
        /\ requestQueue' = [requestQueue EXCEPT ![k] = NoQueue]
        /\ requestsInQueueCount' = requestsInQueueCount - 1
        /\ UNCHANGED <<scheduled, awaitingRemoval>>
     \/ /\ requestQueue[k] # <<>>
        /\ UNCHANGED <<requestQueue, requestsInQueueCount, scheduled,
                       awaitingRemoval>>

OnTaskExecutionFinished(k) ==
  /\ requestQueueRunning' = [requestQueueRunning EXCEPT ![k] = FALSE]
  /\ \/ /\ requestQueue[k] = <<>>
        /\ requestQueue' = [requestQueue EXCEPT ![k] = NoQueue]
        /\ requestsInQueueCount' = requestsInQueueCount - 1
        /\ UNCHANGED <<scheduled, awaitingRemoval>>
     \/ /\ requestQueue[k] # <<>>
        /\ mode = "master" \/ removeDone[k]
        /\ scheduled' = [scheduled EXCEPT ![k] = @ + 1]
        /\ UNCHANGED <<requestQueue, requestsInQueueCount, awaitingRemoval>>
     \/ /\ requestQueue[k] # <<>>
        /\ mode = "standalone" /\ ~removeDone[k]
        /\ awaitingRemoval' = [awaitingRemoval EXCEPT ![k] = @ + 1]
        /\ UNCHANGED <<requestQueue, requestsInQueueCount, scheduled>>

(* The task body settles, successfully or not (the outcome only feeds the  *)
(* metrics: onTaskExecutionSuccess or onTaskExecutionFail), its            *)
(* onCallbackFinished runs, then onTaskExecutionFinished.                  *)
TaskExecutionFinished(t) ==
  LET k == KeyOf[t] IN
  /\ up
  /\ t \in executing
  /\ executing' = executing \ {t}
  /\ processingTasksCount' = processingTasksCount - 1
  /\ doneSeq' = IF Done(t) THEN doneSeq
                ELSE [doneSeq EXCEPT ![k] = Append(@, t)]
  /\ OnTaskExecutionFinished(k)
  /\ UNCHANGED <<removeDone, persistentQueue, cacheDbOps,
                 pendingTasksInQueueCount, up, crashes, mode, added, appended>>

-----------------------------------------------------------------------------
(* The process dies.  Memory, timers and module-level counters are lost;   *)
(* of the cache DB calls in flight, a prefix reaches the store.            *)
Crash ==
  /\ up
  /\ crashes < MaxCrashes
  /\ \E n \in 0..Len(cacheDbOps) :
       LET applied == SubSeq(cacheDbOps, 1, n) IN
       /\ persistentQueue' = FoldLeft(ApplyDbOp, persistentQueue, applied)
       /\ appended' = [k \in Keys |-> appended[k] \o AppendsOf(applied, k)]
  /\ cacheDbOps' = <<>>
  /\ requestQueue' = [k \in Keys |-> NoQueue]
  /\ requestQueueRunning' = [k \in Keys |-> FALSE]
  /\ scheduled' = [k \in Keys |-> 0]
  /\ executing' = {}
  /\ removeDone' = [k \in Keys |-> TRUE]
  /\ awaitingRemoval' = [k \in Keys |-> 0]
  /\ pendingTasksInQueueCount' = 0
  /\ processingTasksCount' = 0
  /\ requestsInQueueCount' = 0
  /\ up' = FALSE
  /\ crashes' = crashes + 1
  /\ UNCHANGED <<added, doneSeq, mode>>

(* The process starts again and restoreTaskFromPersistentQueue runs.     *)
(* Its callback is written forEach((requestId, tasks) => ...), but Array   *)
(* and Map pass the value first: for the first stored entry it sets        *)
(* requestQueue[<value>] (not a request id) and then calls forEach on the  *)
(* key or index, which throws.  A plain object has no forEach at all.      *)
(* Either way no queue is rebuilt, nothing is counted and no               *)
(* executeTaskInQueue is scheduled; the records stay in the store.         *)
RestoreTaskFromPersistentQueue ==
  /\ ~up
  /\ up' = TRUE
  /\ UNCHANGED <<queueVars, persistentQueue, cacheDbOps, metricVars,
                 crashes, mode, histVars>>

-----------------------------------------------------------------------------
Next ==
  \/ \E t \in Tasks : AddTaskToQueue(t)
  \/ AddTaskPersisted
  \/ \E k \in Keys :
       \/ ExecuteWhileRunning(k)
       \/ ExecuteOnDeletedQueue(k)
       \/ ExecuteOnEmptyQueue(k)
       \/ ExecuteTask(k)
  \/ RemoveFirstTaskDone
  \/ \E t \in Tasks : TaskExecutionFinished(t)
  \/ Crash
  \/ RestoreTaskFromPersistentQueue

(* setImmediate callbacks run, the cache DB answers, task bodies settle    *)
(* and a crashed process is restarted.  Adding tasks is up to the          *)
(* environment and crashing is never forced.                               *)
Fairness ==
  /\ \A k \in Keys : WF_vars(ExecuteWhileRunning(k) \/ ExecuteOnDeletedQueue(k)
                               \/ ExecuteOnEmptyQueue(k) \/ ExecuteTask(k))
  /\ WF_vars(AddTaskPersisted \/ RemoveFirstTaskDone)
  /\ \A t \in Tasks : WF_vars(TaskExecutionFinished(t))
  /\ WF_vars(RestoreTaskFromPersistentQueue)

Spec == Init /\ [][Next]_vars
FairSpec == Spec /\ Fairness

-----------------------------------------------------------------------------
(* Properties.                                                             *)

(* executeTaskInQueue never starts a task of a request id while another    *)
(* task of the same request id is executing: requestQueueRunning is the    *)
(* only guard, and it is cleared by onTaskExecutionFinished.               *)
OneRunningPerKey ==
  \A t1, t2 \in executing : KeyOf[t1] = KeyOf[t2] => t1 = t2

(* The in-memory queue of every request id is a suffix of its persistent   *)
(* queue: addTaskToQueue pushes only after addTaskToPersistentQueue is     *)
(* answered and removeFirstTaskFromPersistentQueue only drops tasks that   *)
(* have left memory.  A record of a task that is still waiting in memory  *)
(* is therefore never removed in its place.                                *)
StoreReconcilable ==
  \A k \in Keys : requestQueue[k] # NoQueue =>
                    IsSuffix(requestQueue[k], persistentQueue[k])

(* Every task pushed on an in-memory queue is eventually executed and its  *)
(* onCallbackFinished run, unless the process crashes first: no           *)
(* interleaving of setImmediate turns, removal promises and cleanUpQueue   *)
(* leaves a queued task without a scheduled executeTaskInQueue.  Tasks      *)
(* that were only in the store at a restart are not queued (the restore    *)
(* rebuilds nothing), so this says nothing about them.                     *)
QueuedTaskEventuallyDone ==
  \A t \in Tasks, c \in 0..MaxCrashes :
    (Queued(t) /\ crashes = c) ~> (Done(t) \/ crashes > c)

(* Spec 8: once the queue of a request id has drained and its in-memory   *)
(* structure is removed (cleanUpQueue), no persisted task record remains   *)
(* for it, when no cache DB call for it is still in flight.                *)
DrainedQueueLeavesNoRecord ==
  \A k \in Keys :
    (/\ up
     /\ requestQueue[k] = NoQueue
     /\ \A i \in 1..Len(cacheDbOps) : cacheDbOps[i].key # k)
    => persistentQueue[k] = <<>>

(* At-least-once execution across crashes (spec 4.1, startup recovery): a *)
(* persisted task is done, or still in the persistent queue for            *)
(* restoreTaskFromPersistentQueue, or held by the running process.         *)
AtLeastOnce ==
  \A t \in Tasks : Accepted(t) =>
    \/ Done(t)
    \/ t \in ToSet(persistentQueue[KeyOf[t]])
    \/ up /\ (t \in executing \/ Queued(t))

(* The requestsInQueueCount gauge equals the number of request ids that    *)
(* have an in-memory queue (spec 6, metrics surface).                      *)
RequestsGaugeMatchesQueues ==
  requestsInQueueCount = Cardinality({k \in Keys : requestQueue[k] # NoQueue})

=============================================================================
