------------------------------ MODULE BlockGate ------------------------------
(***************************************************************************)
(* The block gate of src/unnamed/part_000: a message from the message     *)
(* queue that names a ledger height the node has not passed yet is saved  *)
(* in the cache DB under messageProcessLock and admitted later, either by  *)
(* its own handler (handleMessageFromMqWithBlockWait re-checks the height  *)
(* after saving it) or by the sweep that runs when the height advances     *)
(* (processMessageInBlocks).  Admission is addTaskToQueue; the task queue  *)
(* is abstracted here to what the gate sees of it: the task is persisted,  *)
(* its record is removed when it starts, and onCallbackFinished            *)
(* (releaseLock or releaseLockAndCleanUp) runs when it ends.               *)
(*                                                                         *)
(* The cache DB is one connection: requests, reads included, complete in  *)
(* the order they are issued (dbOps).                                      *)
(***************************************************************************)
EXTENDS Naturals, Sequences, SequencesExt, FiniteSets

CONSTANTS
  Msgs,       \* message ids received from the message queue
  HeightOf,   \* message.height of each message
  MaxHeight   \* bound on tendermint.latestBlockHeight

ASSUME HeightOf \in [Msgs -> Nat] /\ MaxHeight \in Nat

Paths == {"direct", "sweep"}   \* who called addTaskToQueue
MaxAdmissions == 3             \* bound on admissions of one message
\* a task: the message, who admitted it, and which admission of it it is
TaskIds == [m : Msgs, path : Paths, n : 1..MaxAdmissions]

DbOps ==
       [op : {"setMsg", "setIdx", "rmMsg", "rmIdx"}, m : Msgs,
        by : {"gate", "cleanup"}]
  \cup [op : {"getIds"}, h : 1..MaxHeight]
  \cup [op : {"getMsg"}, m : Msgs]
  \cup [op : {"addTask", "rmTask"}, t : TaskIds]

VARIABLES
  latest,     \* tendermint.latestBlockHeight
  lock,       \* message ids with messageProcessLock[messageId] set
  direct,     \* direct[m]: where handleMessageFromMqWithBlockWait (and its
              \* caller) is suspended for m
  mqStore,    \* message ids saved by setMessageFromMQ
  idx,        \* message ids in the process-at-block index
  taskStore,  \* tasks in the persistent task queue
  queued,     \* tasks added to requestQueue, not started
  running,    \* tasks executing
  dbOps,      \* cache DB requests in flight, in order
  missingSwept, \* initialize has called processMissingBlocks
  \* history, not program state
  arrived,    \* messages received
  stored,     \* messages whose setMessageFromMQ completed
  admitted,   \* admitted[m]: number of addTaskToQueue calls for m
  done        \* tasks whose execution ended

vars == <<latest, lock, direct, mqStore, idx, taskStore, queued,
          running, dbOps, missingSwept, arrived, stored, admitted, done>>

TypeOK ==
  /\ latest \in 1..MaxHeight
  /\ lock \subseteq Msgs
  /\ direct \in [Msgs -> {"none", "persisting", "removing", "adding"}]
  /\ mqStore \subseteq Msgs /\ idx \subseteq Msgs
  /\ taskStore \subseteq TaskIds /\ queued \subseteq TaskIds
  /\ running \subseteq TaskIds
  /\ dbOps \in Seq(DbOps)
  /\ missingSwept \in BOOLEAN
  /\ arrived \subseteq Msgs /\ stored \subseteq Msgs
  /\ admitted \in [Msgs -> 0..MaxAdmissions]
  /\ done \subseteq TaskIds

Gate(op, m) == [op |-> op, m |-> m, by |-> "gate"]
CleanUp(op, m) == [op |-> op, m |-> m, by |-> "cleanup"]

\* effect of a completed cache DB write on the stores
ApplyWrite(o) ==
  /\ mqStore' = CASE o.op = "setMsg" -> mqStore \cup {o.m}
                  [] o.op = "rmMsg"  -> mqStore \ {o.m}
                  [] OTHER           -> mqStore
  /\ idx' = CASE o.op = "setIdx" -> idx \cup {o.m}
              [] o.op = "rmIdx"  -> idx \ {o.m}
              [] OTHER           -> idx
  /\ taskStore' = CASE o.op = "addTask" -> taskStore \cup {o.t}
                    [] o.op = "rmTask"  -> taskStore \ {o.t}
                    [] OTHER            -> taskStore

(* The height test of handleMessageFromMqWithBlockWait, made on arrival    *)
(* and again after the message is saved: still waiting for its block.      *)
WaitsForBlock(m) == latest <= HeightOf[m]

(* addTaskToQueue up to its await of addTaskToPersistentQueue.             *)
AddTaskToQueue(ops, m, path) ==
  /\ admitted[m] < MaxAdmissions
  /\ dbOps' = Append(ops, [op |-> "addTask",
                           t |-> [m |-> m, path |-> path, n |-> admitted[m] + 1]])
  /\ admitted' = [admitted EXCEPT ![m] = @ + 1]

Init ==
  /\ latest = 1
  /\ lock = {}
  /\ direct = [m \in Msgs |-> "none"]
  /\ mqStore = {} /\ idx = {} /\ taskStore = {}
  /\ queued = {} /\ running = {}
  /\ dbOps = << >>
  /\ missingSwept = FALSE
  /\ arrived = {} /\ stored = {}
  /\ admitted = [m \in Msgs |-> 0]
  /\ done = {}

(***************************************************************************)
(* A message arrives: handleMessageFromMqWithBlockWait up to its first     *)
(* await, or, when the height is passed, its return of true and the        *)
(* caller's addMqMessageTaskToQueue.                                       *)
(***************************************************************************)
HandleMessageFromMq(m) ==
  /\ m \notin arrived
  /\ arrived' = arrived \cup {m}
  /\ \/ /\ WaitsForBlock(m)
        /\ lock' = lock \cup {m}
        /\ dbOps' = dbOps \o <<Gate("setMsg", m), Gate("setIdx", m)>>
        /\ direct' = [direct EXCEPT ![m] = "persisting"]
        /\ UNCHANGED admitted
     \/ /\ ~WaitsForBlock(m)
        /\ AddTaskToQueue(dbOps, m, "direct")
        /\ direct' = [direct EXCEPT ![m] = "adding"]
        /\ UNCHANGED lock
  /\ UNCHANGED <<latest, missingSwept, mqStore, idx, taskStore, queued, running,
                 stored, done>>

(* Both saves done: the height is tested again.  Still waiting: release   *)
(* the lock and return false.  Passed: remove the saved message.           *)
DirectSaved ==
  /\ dbOps # << >> /\ Head(dbOps) \in {Gate("setIdx", m) : m \in Msgs}
  /\ LET m == Head(dbOps).m IN
       /\ ApplyWrite(Head(dbOps))
       /\ \/ /\ WaitsForBlock(m)
             /\ lock' = lock \ {m}
             /\ direct' = [direct EXCEPT ![m] = "none"]
             /\ dbOps' = Tail(dbOps)
          \/ /\ ~WaitsForBlock(m)
             /\ direct' = [direct EXCEPT ![m] = "removing"]
             /\ dbOps' = Tail(dbOps) \o <<Gate("rmMsg", m), Gate("rmIdx", m)>>
             /\ UNCHANGED lock
  /\ UNCHANGED <<latest, missingSwept, queued, running, arrived, stored, admitted,
                 done>>

(* Both removals done: return true; the caller admits the message with     *)
(* releaseLock as onCallbackFinished.                                      *)
DirectRemoved ==
  /\ dbOps # << >> /\ Head(dbOps) \in {Gate("rmIdx", m) : m \in Msgs}
  /\ LET m == Head(dbOps).m IN
       /\ ApplyWrite(Head(dbOps))
       /\ AddTaskToQueue(Tail(dbOps), m, "direct")
       /\ direct' = [direct EXCEPT ![m] = "adding"]
  /\ UNCHANGED <<latest, missingSwept, lock, queued, running, arrived, stored, done>>

(* The height advances by one block; the new-block handler sweeps the     *)
(* heights the new block covers (message heights below the new height).    *)
(* The handler is outside src/ and modelled from spec 4.2.                 *)
SweptHeightsOffByOne(old) == {old + 1}
SweptHeights(old) == {old}

NewBlock ==
  /\ latest < MaxHeight
  /\ latest' = latest + 1
  /\ dbOps' = dbOps \o SetToSeq({[op |-> "getIds", h |-> h] :
                                  h \in SweptHeights(latest) \cap 1..MaxHeight})
  /\ UNCHANGED <<lock, direct, mqStore, idx, taskStore, queued,
                 running, missingSwept, arrived, stored, admitted, done>>

(* initialize calls tendermint.processMissingBlocks once, which sweeps the *)
(* heights passed while the node was not listening, while the new-block    *)
(* handler goes on sweeping.  The range comes from the ledger client,      *)
(* outside src/; here it is every height already covered.                  *)
ProcessMissingBlocks ==
  /\ ~missingSwept /\ latest > 1
  /\ missingSwept' = TRUE
  /\ dbOps' = dbOps \o SetToSeq({[op |-> "getIds", h |-> h] : h \in 1..(latest - 1)})
  /\ UNCHANGED <<latest, lock, direct, mqStore, idx, taskStore, queued,
                 running, arrived, stored, admitted, done>>

(* getMessageIdsToProcessAtBlock completes: every listed message whose     *)
(* lock is not held is fetched with getMessageFromMQ (the map callbacks     *)
(* run up to their first await together).                                 *)
SweepListed ==
  /\ dbOps # << >> /\ Head(dbOps).op = "getIds"
  /\ LET fetch == {m \in idx : HeightOf[m] = Head(dbOps).h} \ lock IN
       /\ dbOps' = Tail(dbOps) \o SetToSeq({[op |-> "getMsg", m |-> m] : m \in fetch})
  /\ UNCHANGED <<latest, missingSwept, lock, direct, mqStore, idx, taskStore, queued, running,
                 arrived, stored, admitted, done>>

(* getMessageFromMQ completes: a message already removed is skipped, else  *)
(* it is admitted with releaseLockAndCleanUp as onCallbackFinished.        *)
SweepGot ==
  /\ dbOps # << >> /\ Head(dbOps).op = "getMsg"
  /\ LET m == Head(dbOps).m IN
       \/ /\ m \notin mqStore
          /\ dbOps' = Tail(dbOps)
          /\ UNCHANGED admitted
       \/ /\ m \in mqStore
          /\ AddTaskToQueue(Tail(dbOps), m, "sweep")
  /\ UNCHANGED <<latest, missingSwept, lock, direct, mqStore, idx, taskStore, queued, running,
                 arrived, stored, done>>

(* addTaskToPersistentQueue completes: the task is queued and the awaiting *)
(* caller (the MQ handler or the sweep callback) returns.                  *)
TaskAdded ==
  /\ dbOps # << >> /\ Head(dbOps).op = "addTask"
  /\ LET t == Head(dbOps).t IN
       /\ ApplyWrite(Head(dbOps))
       /\ queued' = queued \cup {t}
       /\ direct' = IF t.path = "direct" THEN [direct EXCEPT ![t.m] = "none"]
                                         ELSE direct
  /\ dbOps' = Tail(dbOps)
  /\ UNCHANGED <<latest, missingSwept, lock, running, arrived, stored, admitted, done>>

(* The task queue starts the task and removes its persisted record.        *)
TaskStart(t) ==
  /\ t \in queued
  /\ queued' = queued \ {t}
  /\ running' = running \cup {t}
  /\ dbOps' = Append(dbOps, [op |-> "rmTask", t |-> t])
  /\ UNCHANGED <<latest, missingSwept, lock, direct, mqStore, idx, taskStore,
                 arrived, stored, admitted, done>>

(* onCallbackFinished of the task: releaseLock for a direct admission,    *)
(* releaseLockAndCleanUp for a sweep admission, whose cleanUpMessage issues *)
(* both removals without being awaited.                                    *)
CleanUpMessageSkipped(t) == << >>
CleanUpMessage(t) ==
  IF t.path = "sweep" THEN <<CleanUp("rmMsg", t.m), CleanUp("rmIdx", t.m)>>
                      ELSE << >>

(* The task ends and its onCallbackFinished runs.                          *)
TaskFinished(t) ==
  /\ t \in running
  /\ running' = running \ {t}
  /\ done' = done \cup {t}
  /\ lock' = lock \ {t.m}
  /\ dbOps' = dbOps \o CleanUpMessage(t)
  /\ UNCHANGED <<latest, missingSwept, direct, mqStore, idx, taskStore, queued,
                 arrived, stored, admitted>>

(* A cache DB write nobody waits on at this point completes: the first of  *)
(* a Promise.all pair, a cleanUpMessage removal, a task record removal.    *)
WriteApplied ==
  /\ dbOps # << >>
  /\ Head(dbOps).op \in {"setMsg", "rmMsg", "rmIdx", "rmTask"}
  /\ Head(dbOps).op = "rmIdx" => Head(dbOps).by = "cleanup"
  /\ ApplyWrite(Head(dbOps))
  /\ stored' = IF Head(dbOps).op = "setMsg" THEN stored \cup {Head(dbOps).m}
                                            ELSE stored
  /\ dbOps' = Tail(dbOps)
  /\ UNCHANGED <<latest, missingSwept, lock, direct, queued, running, arrived,
                 admitted, done>>

Next ==
  \/ \E m \in Msgs : HandleMessageFromMq(m)
  \/ DirectSaved \/ DirectRemoved \/ NewBlock \/ SweepListed \/ SweepGot
  \/ TaskAdded \/ WriteApplied \/ ProcessMissingBlocks
  \/ \E t \in TaskIds : TaskStart(t) \/ TaskFinished(t)

Spec == Init /\ [][Next]_vars

(* The cache DB answers, the ledger keeps producing blocks up to the      *)
(* bound, and the task queue starts and ends every task (TaskQueue checks  *)
(* that it does).  No fairness on messages arriving.                       *)
Fairness ==
  /\ WF_vars(DirectSaved) /\ WF_vars(DirectRemoved) /\ WF_vars(NewBlock)
  /\ WF_vars(SweepListed) /\ WF_vars(SweepGot) /\ WF_vars(TaskAdded)
  /\ WF_vars(WriteApplied)
  /\ \A t \in TaskIds : WF_vars(TaskStart(t)) /\ WF_vars(TaskFinished(t))

FairSpec == Spec /\ Fairness

-----------------------------------------------------------------------------
Ended(m) == \E t \in done : t.m = m

(* A message is admitted (handed to addTaskToQueue) at most once, although *)
(* two paths may admit it: its own handler after saving it, and the sweep  *)
(* of the block that covers it; messageProcessLock is the only arbiter     *)
(* (spec 3 and 8).                                                          *)
AdmittedOnce == \A m \in Msgs : admitted[m] <= 1

(* Every message received is eventually processed, and no saved copy of it *)
(* is left in the cache DB afterwards (spec 3: admitted exactly once and    *)
(* the deferred record deleted).                                            *)
MessageEventuallyProcessed ==
  \A m \in Msgs : m \in arrived ~> (Ended(m) /\ m \notin mqStore \cup idx)

=============================================================================
