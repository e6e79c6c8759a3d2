# TLA+ models of the ndid platform API task and delivery engine

This directory holds TLA+ specifications for the asynchronous engine of the
ndid platform API. They are checked with TLC. The identity protocol itself
(what a task does, what a callback says) is business logic on top of that
engine and is treated as opaque.

## 1. The system: parts, state, interactions

| Part | Source | State it keeps | Operations |
|---|---|---|---|
| Per-key task queue | `src/unnamed/part_000` 669-846 | `requestQueue[requestId]` (array of tasks), `requestQueueRunning[requestId]`, `removePersistentQueueEmitter`, counters `pendingTasksInQueueCount`, `processingTasksCount`, `requestsInQueueCount`; in the cache DB, one persistent queue per request id | `addTaskToQueue`, `executeTaskInQueue` (one `setImmediate` turn), `onTaskExecutionSuccess/Fail`, `onTaskExecutionCallback` (master), `onTaskExecutionFinished`, `cleanUpQueue`, `restoreTaskFromPersistentQueue` |
| Block gate | `src/unnamed/part_000` 561-667 | `messageProcessLock[messageId]`; in the cache DB, deferred messages and a height index | `handleMessageFromMqWithBlockWait`, `processMessageInBlocks`, `releaseLock`, `releaseLockAndCleanUp`, `cleanUpMessage`, `addMqMessageTaskToQueue` |
| Callback delivery with retry | `src/main-server/src/utils/callback.js` 36-413, `wait` 758-768 | `waitPromises`, `stopCallbackRetry`, `pendingCallbacksCount`, `pendingCallback` (worker mode); in the cache DB, one retry record per `cbId` | `callbackToClient`, `callbackWithRetry` (loop), `resumeCallbackToClient`, `handleCallbackWorkerLost`, `stopAllCallbackRetries` |
| Startup and shutdown | `src/main-server/src/utils/callback.js` 487-710 | `shutDownCalledOnce` | `initialize` (resumes retries), `shutDown` (stops retries, closes DBs; a second signal exits at once) |
| Legacy callback delivery | `src/src/utils/callback.js` | same shape, no timeout | `callbackToClient`, `callbackWithRetry`, `stopAllCallbackRetries` |
| MQ send socket map | `src/src/mq/mqsendsocket.js` | `socketMap` by sequence id | `send`, `cleanUp` |
| Node update flow | `src/main-server/src/core/node.js` | none in memory; result callbacks | `updateNode`, `updateNodeInternalAsync(AfterBlockchain)` |
| Identity proof (ZK) | `src/main-server/src/utils/callback.js` 832-945 | none; pure arithmetic on big numbers | `generateIdentityProof`, `verifyZKProof`, with `powerMod`, `stringToBigInt`, `euclideanGCD`, `moduloMultiplicativeInverse` |
| RP business logic, ledger client, routes, other crypto utilities | `part_000` 1-550, `part_001`, `part_002`, `src/src/routes`, `src/src/core/common.js`, `callback.js` 770-830 and 946-1024 | - | not modelled (see section 5) |

How they interact: a message from the message queue goes through the block
gate. It is deferred until the ledger height covers it, then admitted as a
task into the per-key queue under its request id. The queue runs one task per
request id at a time. In standalone mode the task body runs in-process; in
master mode it is delegated to a worker and finished by
`onTaskExecutionCallback`. Task bodies send callbacks to the client
application through the delivery engine. Both the queue and the delivery
engine persist their state in the cache DB before acting, and rebuild it at
startup.

The hard behaviours are these:
- every `await` is a point where another handler runs;
- `setImmediate` wakeups are queued per request id, several at once;
- cache DB writes are sometimes not awaited;
- the process can crash between any two DB operations;
- restart rebuilds memory from whatever records remain;
- retries interleave with shutdown.

## 2. Modules

### TaskQueue (with MC_TaskQueue)

State: one variable per module-level map of `part_000` (`requestQueue`,
`requestQueueRunning`, the three counters). Further state:
- `persistentQueue` is the cache DB queue per request id.
- `cacheDbOps` is the FIFO of DB requests in flight. The cache DB is a single
  connection, so requests complete in the order they are issued.
- `scheduled[k]` counts pending `setImmediate(executeTaskInQueue, k)`.
- `removeDone` and `awaitingRemoval` model the once-listeners on
  `removePersistentQueueEmitter`.
- `executing` is the set of running task bodies.

Each action is one synchronous stretch of a handler, between two awaits:

| Action | Code |
|---|---|
| `AddTaskToQueue(t)` | `addTaskToQueue` up to its `await` |
| `AddTaskPersisted` | the continuation after the await. It pushes, or throws when the queue was deleted meanwhile. |
| `ExecuteWhileRunning`, `ExecuteOnDeletedQueue`, `ExecuteOnEmptyQueue`, `ExecuteTask` | the four paths of one `executeTaskInQueue` turn |
| `RemoveFirstTaskDone` | completion of `removeFirstTaskFromPersistentQueue` followed by `emit` |
| `TaskExecutionFinished` | the task body settling, then `onTaskExecutionSuccess/Fail` or `onTaskExecutionCallback`, and `onTaskExecutionFinished` with its rescheduling and `cleanUpQueue` |
| `Crash` | applies a prefix of the in-flight DB operations and loses memory |
| `RestoreTaskFromPersistentQueue` | startup: `restoreTaskFromPersistentQueue` as written rebuilds nothing (see below) |

`config.mode` is chosen in `Init` from `Modes`, so one run covers standalone
and master mode.

The restore passes `forEach` a callback `(requestId, tasks)`. Array and Map
pass the value first, so on the first stored entry the code calls `forEach`
on a key or index and throws; a plain object has no `forEach` at all. So the
process comes back up with empty memory, nothing scheduled, and the records
left in the store. Spec 4.1's reading, which reloads and schedules every
queue, is not what the code does, and the model follows the code. Neither
the cache DB module nor the restore's caller is in the repository.

### CallbackRetry (with MC_CallbackRetry)

It models the delivery engine of `src/main-server/src/utils/callback.js` and
the parts of `initialize` and `shutDown` that act on it. Its state:
- `stopCallbackRetry` and `pendingCallbacksCount`, as in the code;
- `loop[<<cbId, origin>>]`, where each async function of a `cbId` is suspended
  (`persisting`, `once`, `posting`, `deciding`, `sleeping`), with its backoff
  state, its relative clocks and whether it got a deadline. The origin tells
  the loop started by `callbackToClient` or `handleCallbackWorkerLost`
  (`"call"`) from the one started by `resumeCallbackToClient` (`"resume"`), so
  a duplicate loop is visible;
- `store`, the retry records in the cache DB, and `dbOps`, the cache DB
  requests in flight, in order;
- `initDone` and `shut` for the progress of `initialize` and `shutDown`;
- `mode`, and in master mode `workerRunning` and `workerPending`: the worker
  loops running and the worker's `pendingCallback` entries;
- history: `accepted` (records ever written), `outcome` (last terminal outcome
  per `cbId`) and `age` (time since the record was written).

| Action | Code |
|---|---|
| `CallbackToClient(cb, retry)` | `callbackToClient` up to its awaited `setCallbackWithRetryData`, or up to `httpPost` without retry |
| `OnceSettled` | the post without retry settling |
| `Persisted` | the continuation after the write, running `callbackWithRetry` up to `httpPost` |
| `PostSucceeded`, `PostTooLarge`, `PostFailed` | the three ways `httpPost` settles, each with its whole branch: predicate, timeout check (skipped when a deadline has passed), or sleep |
| `PostStep` | the common guard of those three: a post is in flight and `httpPost` (lines 72-99: fetch with the body-size limit, then `response.text()`) settles as one await |
| `Decided` | the shouldRetry function settling |
| `WakeUp` | the continuation after `await waitPromise` |
| `RemoveApplied` | an un-awaited record removal completing |
| `ResumeCallbackToClient`, `ResumeListed` | the end of `initialize`, and the listing completing with a loop for every record |
| `InitializeFailed` | a start-up step of `initialize` throwing (the catch only logs) |
| `ShutDown`, `CloseCacheDb` | `shutDown` up to `stopAllCallbackRetries`, and its end closing the cache DB |
| `Crash`, `Restart` | the process ending (a kill, or `process.exit(1)` on a second signal), and starting again |
| `WorkerCallbackToClient`, `WorkerCallbackFinished` | a worker's delivery: record written and `pendingCallback` set; the loop ending (the entry deleted only on success) |
| `WorkerLost`, `WorkerCallbackFetched` | the master's worker-loss handler (not in `src/`, modelled from spec 4.3) and `handleCallbackWorkerLost` |
| `Tick` | time passing |

Time and the event loop:
- Time is relative and capped where comparisons stop changing: the elapsed
  time of a loop at `Timeout`, the time since its last failure at `MaxDelay`,
  the age of a record at `Timeout + 1`. Only clocks that a check reads move.
- `wait(ms, true)` returns `{promise, stopWaiting}`, and the loop awaits that
  object, so the wakeup is a microtask.
- Node runs microtasks before any timer or I/O callback. So while a loop is
  `sleeping`, no I/O-driven action and no `Tick` is enabled
  (`MicrotaskPending`).
- A closed cache DB rejects requests: a removal sent after `CloseCacheDb` is
  lost, and `callbackToClient` with retry throws.

The refinement: `Abs == INSTANCE DeliveryAbstract WITH records <- store,
concluded <- {cb : outcome[cb] # "none"}`, and `DeliverySpec == Abs!Spec` is
checked as a property.

### DeliveryAbstract

What a delivery engine promises (spec 4.4, 7). `records` are the durable
retry records, `accepted` the deliveries ever accepted, `concluded` those that
reached a terminal outcome at least once. One action, `Step`: new deliveries
are accepted, accepted ones conclude, and records of concluded ones are
forgotten, several at once (a crash lands several writes together). So a
record is never lost before its delivery concluded, never comes back, and no
delivery is accepted twice. Concluding twice is allowed (at-least-once).

### LegacyCallback (with MC_LegacyCallback)

It models `src/src/utils/callback.js`, the first API version's engine: no
timeout, no predicate, and a real timer sleep. Its state is that of
CallbackRetry without timeout clocks, worker mode and shutdown stages. A loop
can also be `halted`: `stopAllCallbackRetries` clears the timer it waits on,
so it never resumes. `delivered` records the `cbId`s a loop got an HTTP answer
for.

| Action | Code |
|---|---|
| `CallbackToClient(cb, retry)`, `OnceSettled` | `callbackToClient` with retry (up to `addCallbackWithRetryData`) or without (one post) |
| `Persisted`, `RemoveApplied`, `ResumeListed` | DB requests completing |
| `PostResolved`, `PostRejected`, `WakeUp` | the loop: answer (record removal not awaited), failure (backoff and timer), timer firing |
| `ResumeCallbackToClient`, `StopAllCallbackRetries` | the two lifecycle functions of the file |
| `Crash`, `Restart`, `Tick` | the process ending and starting (server code not in the repository), time |

The DB module and the server start-up are not in the repository. The DB is
taken to answer in order, like the main server's cache DB, and resume is
called once per start, at any point after callbacks can be requested.
`LegacyCallback` also refines `DeliveryAbstract`, with `concluded <- delivered`.

### BlockGate (with MC_BlockGate)

It models the block-height gate of `part_000` 561-667. Its state:
- `latest`, the ledger height the node has seen;
- `lock`, the `messageProcessLock` map;
- `direct[m]`, where the MQ handler for `m` is suspended;
- `mqStore` and `idx`, the cache DB's saved messages and height index;
- `taskStore`, the persisted tasks;
- `dbOps`, the FIFO of DB requests in flight;
- `queued`, `running` and `done`, an abstract task queue (persist, start, finish).
  TaskQueue checks that queue in full.
- The history variables `arrived`, `stored` and `admitted`.

A task is identified by message, path (`direct` or `sweep`) and admission
number, so a duplicate admission is a distinct task.

| Action | Code |
|---|---|
| `HandleMessageFromMq(m)` | `handleMessageFromMqWithBlockWait` up to its first await: it defers the message (lock, save, index) or admits it at once |
| `DirectSaved`, `DirectRemoved` | the continuations after the saves (re-check of the height) and after the removals (return, then `addMqMessageTaskToQueue`) |
| `NewBlock`, `ProcessMissingBlocks` | the ledger's new-block handler and `initialize`'s `processMissingBlocks` call, both modelled from spec 4.2 because their code is not under `src/` |
| `SweepListed`, `SweepGot` | `processMessageInBlocks`: the id listing with its lock check, then each fetched message admitted |
| `TaskAdded`, `TaskStart`, `TaskFinished` | the task persisted, started (record removed), and finished through `releaseLock` or `releaseLockAndCleanUp` |
| `WriteApplied` | a DB write completing, including the un-awaited removals of `cleanUpMessage` |

The chain-id check is left out. It raises a validation error and changes no
state.

### NodeUpdate (with MC_NodeUpdate)

It models the node update flow of `src/main-server/src/core/node.js`. There
is no module-level state, so the state is the progress of each call:
- `req[r]` holds the await point of call `r`, whether it is synchronous, and
  whether the options object was passed at all;
- `http[r]` records how `updateNode` ended: pending, resolved or rejected;
- `committed` is the set of updates that took effect on the ledger;
- `results` is the set of `update_node_result` records the callback engine
  accepted, each with its success flag;
- `lost` is the set of calls whose failure result the engine refused.

The ledger client and the callback engine (`../callback`) are not in the
repository. Each of their awaits settles with any outcome the interface
allows. A ledger transaction takes effect exactly when it reports success:
synchronously in sync mode, or through the after-blockchain call in async mode.

| Action | Code |
|---|---|
| `UpdateNode(r)` | `updateNode` up to its first await: key checks (any may throw), the `getNodeInfo` await when a URL type list is given, otherwise the call of `updateNodeInternalAsync` |
| `NodeInfoReturned(r)` | the node info check (missing, not an IdP, or a failed query throws), then the call of `updateNodeInternalAsync` |
| `TransactSettled(r)` | `tendermintNdid.updateNode` settling in `updateNodeInternalAsync`, with its catch |
| `BlockCommitted(r)` | the ledger calling `updateNodeInternalAsyncAfterBlockchain` with the outcome |
| `CallbackAccepted(r)`, `CallbackRejected(r)` | a `callbackToClient` call settling, in either function, and what its caller does next |

`StartInternal` translates `updateNodeInternalAsync(...arguments, {nodeId})`.
Called without the options object, the third parameter is undefined and its
destructuring rejects before the body runs.

### ZkProof (with MC_ZkProof)

It models the identity proof of `src/main-server/src/utils/callback.js`.
The IdP holds `secret`, an e-th root modulo n of the hashed sid (the verify
equation needs `secret^e = hashedSid mod n`). It draws random bytes `k` and
returns `[k^e mod n, k * secret^challenge mod n]`. The verifier checks the
private proof against the hash published on the ledger. It then computes the
inverse of the hashed sid with the recursive extended Euclid and accepts when
`privateProof^e * inverse^challenge mod n` equals the blockchain proof.

The inputs (key, hashed sid, secret, `k`, challenge) are chosen in `Init`.
`GenerateIdentityProof` and `VerifyZKProof` are one step each. The verifier
may be handed the IdP's private proof, any other residue, or the IdP's value
plus n. The ledger hash may be of the IdP's proof or of the one handed over.
The data is modelled by what the code does to it:
- `ToBuffer` is bignum's `toBuffer`: big-endian bytes, one zero byte for zero.
- `StringToBigInt` folds the bytes back into a number. Base64 text is held as
  the bytes it encodes, since every such string is decoded before use.
- `BigMod` is bignum's `mod`. Whether it keeps the sign of a negative dividend
  depends on the library build, so both conventions are initial choices.
- `PowerMod` reduces its base first, as OpenSSL's `BN_mod_exp` does for an
  odd modulus.
- `EuclideanGCD` is the code's recursion: the recursive result is
  destructured as `[g, y, x]`, and the quotient is computed as
  `(b - b mod a) / a`.
- `hash` lives in `./crypto`, which is not in the repository. It is modelled
  as collision-free.

`Expected` is the reference: a reference gcd, and acceptance exactly for a
private proof congruent to `k * secret^challenge`. That residue is computed
with plain powers, not the code's `powerMod`.

## 3. Runs

| Run | cfg | Expect | What it shows |
|---|---|---|---|
| queue_safety | TaskQueue_safety.cfg | pass | Three tasks on one id, one crash, both modes, fair scheduling. Checks `OneRunningPerKey`, `StoreReconcilable`, and `QueuedTaskEventuallyDone`: a pushed task eventually runs unless a crash comes first. Tasks that were only in the store at the restart are not rebuilt by the restore, so the property says nothing about them. |
| queue_drained_record | TaskQueue_drained.cfg | violation | A drained queue can leave a persisted task (push onto a deleted queue). |
| callback_safety | CallbackRetry_safety.cfg | pass | `DeliverySpec`: the cache DB records behave as `DeliveryAbstract` allows. Two deliveries (one with a predicate; in master mode the second is a worker's), one crash, both modes, `initialize` may fail. |
| callback_live | CallbackRetry_live.cfg | pass | `DeliveryTerminates`: a delivery without a predicate ends by the timeout even if the endpoint always fails, also after a crash and resume. |
| callback_no_backoff | CallbackRetry_backoff.cfg | violation | Retries are sent with no sleep: the loop awaits the `{promise, stopWaiting}` object. |
| callback_deadline_unbounded | CallbackRetry_deadline.cfg | violation | A delivery taken over from a lost worker after its deadline retries for ever. |
| callback_resume_duplicate | CallbackRetry_resume.cfg | violation | `resumeCallbackToClient` starts a second loop for a record whose loop runs. In standalone mode this happens to a callback requested before `initialize` reaches the resume. In master mode it happens to a record a worker is still delivering, which is the shortest counterexample. |
| legacy_delivery | LegacyCallback.cfg | pass | `DeliverySpec` for the first-version engine, and `RecordRetried`: a stored record with no answer is always posted again, unless retries were stopped. |
| gate | BlockGate.cfg | pass | `MessageEventuallyProcessed`: every arrived message ends, with no saved copy left. |
| gate_admitted_once | BlockGate_once.cfg | violation | The startup sweep and a new-block sweep both admit the same deferred message. |
| node_update | NodeUpdate.cfg | pass | `NoPrematureSuccess`: a success result, or a synchronous `updateNode` resolving, only for a committed update. `SubmittedAnswered`: every submitted asynchronous update ends with a result held by the engine, unless the engine refused its failure result too. |
| zk_proof | ZkProof.cfg | pass | `VerifierAcceptsExactlyHonestProofs`: `verifyZKProof` accepts exactly the private proofs congruent to the IdP's, throws only for a hashed sid sharing a factor with n, and rejects a proof whose hash is not the published one. |

Bounds:
- Three tasks on one request id is the least number that lets a task be added
  while another runs and a third arrives after the queue drained. It is also
  what makes `ExecuteOnEmptyQueue` reachable.
- One crash is enough for every restart path.
- CallbackRetry uses `MinDelay = 1`, `MaxDelay = 2` and `Timeout = 3` ticks in
  the liveness and violation runs: the backoff doubles once and saturates, and
  a delivery times out after a few attempts. The safety run, which has two
  deliveries, both modes, a worker, a crash and a failing `initialize`, uses
  `MaxDelay = 1` and `Timeout = 2` to stay in reach (about 1.4 million
  states). Its property is about records, not about delays. Jitter (plus or
  minus 20%) is left out: it moves the timeout boundary but not which paths
  exist.
- The liveness run of CallbackRetry has one delivery: with two, the fairness
  conditions of eight loops put the check out of reach. The deliveries do not
  share anything but the cache DB connection, which callback_safety covers.
- LegacyCallback uses two calls, each with or without retry, `MinDelay = 1`,
  `MaxDelay = 2`, one crash: a record can be resumed while its own loop runs,
  and a crash can land part of the add and removal requests.
- BlockGate uses two messages at heights 1 and 2, with the ledger going from
  height 1 to 3. This makes both orders reachable: a message arriving before
  its block and after it, and a block arriving while the handler is between
  its save and its re-check. The startup sweep covers the heights below the
  first seen height. `MaxAdmissions = 3` bounds the duplicate admissions.
- NodeUpdate uses two calls, over every input shape (sync or not, options
  passed or not, keys valid or not, URL type list or not) and every outcome
  of the ledger and the engine. The calls share only the ledger, and no
  code orders them.
- ZkProof uses the RSA keys (15, 3), (35, 5), (35, 7) and (323, 5). Hashed
  sids are 1, 2, 3, 5, 17, 34, 256 and 300, each used with the keys it is
  below: 3, 5 and 17 share a factor with some modulus. `k` is one byte (zero
  included) or two bytes (one with a leading zero), with challenges 0 to 2. Every
  residue is tried as the received proof. This reaches a negative Bezout
  coefficient (so a negative inverse under the truncated convention), zero
  proofs, and two-byte proofs. Real keys are 2048-bit;
  the code is the same for any size.

## 4. Fairness

Weak fairness is assumed on:
- each `executeTaskInQueue` turn of a request id: Node runs every queued
  `setImmediate`;
- each DB completion: the cache DB answers;
- each task settling: a task body eventually resolves or rejects;
- restart.

In BlockGate every step is weakly fair except message arrival.

There is no fairness on new tasks or on crashes. The TaskQueue liveness
property allows one crash: it claims completion only for tasks that no crash
interrupts. The BlockGate liveness run
allows no crash.

In NodeUpdate, the ledger's answers (node info, transaction, after-blockchain
call) and the engine's answer to `callbackToClient` are weakly fair; which
outcome they have is not constrained. Calls are not forced.

In CallbackRetry, cache DB completions, post results, predicate results,
`Tick`, the resume at the end of `initialize` and the closing of the cache DB
are strongly fair. They are disabled only while a microtask is pending, and
the event loop reaches them once microtasks drain; time always advances.
`WakeUp` and `Restart` are weakly fair, and so is the end of a worker's loop
for a delivery without predicate (the worker has the same timeout). There is
no fairness on which result a post has (the endpoint may fail for ever), on
requests, signals, worker loss or crashes. A crash is allowed in the liveness
run: the restart and the resume must then pick the delivery up.

LegacyCallback assumes weak fairness on DB completions, timers, `Tick`, post
settling, restart and the resume at start-up, and none on which result a post
has. Neither engine gives `fetch` a timeout: that every post settles is an
assumption about the network (the OS ends a dead connection), listed as a
hazard.

ZkProof has no fairness and no liveness property: a verification is one
synchronous call, and the run checks what it returns. Its cfg turns off the
deadlock check because the model stops once the proof is verified.

## Findings

- `part_000:713`: a task added while its queue drains is dropped at the push
  and stays persisted (queue_drained_record). The restore does not bring it
  back either.
- `part_000:771` (not checked by a run): the record is removed when the task
  starts, so a crash loses the task. That is what spec 3 says; spec 4.1's
  at-least-once recovery contradicts it. `TaskQueue.AtLeastOnce` states 4.1.
- `part_000:673` (not checked by a run): the restore's `forEach` callback
  takes its arguments in the wrong order and throws on the first stored
  entry. Tasks persisted before a crash never run. The next task of the same
  request id then makes `removeFirstTaskFromPersistentQueue` drop a stale
  record instead of its own. `TaskQueue.AtLeastOnce` (spec 4.1) is broken by
  any restart with a stored record.
- `part_000:612`: `processMessageInBlocks` tests `messageProcessLock` but never
  takes it, so two overlapping sweeps admit a message twice
  (gate_admitted_once).
- `part_000:590` (not checked by a run): the direct path removes the saved
  message before the caller persists the task, so a crash in between loses it.
- `callback.js:264`: no backoff sleep (callback_no_backoff).
- `callback.js:239`: an expired deadline disables the timeout check, so a
  delivery taken over from a lost worker retries for ever
  (callback_deadline_unbounded).
- `callback.js:641`: resume runs after requests are accepted and starts a
  second loop for a record whose own loop runs
  (callback_resume_duplicate). In master mode the same happens to records a
  worker is delivering.
- `callback.js:376` (not checked by a run): resume restarts the retry budget
  with a fresh `startTime`.
- `callback.js:159` (not checked by a run): a loop that returns on
  `stopCallbackRetry` never decrements `pendingCallbacksCount`.
- `node.js:209` (not checked by a run): when the success result's
  `callbackToClient` rejects, the catch sends a failure result for an update
  the ledger committed.
- `node.js:111` (not checked by a run): `updateNode` called without its
  options object makes `updateNodeInternalAsync` reject at its parameter list.
  The update is then neither submitted nor answered, although `updateNode`
  resolved. Whether any caller does this depends on the HTTP route, which is
  not in the repository.

## 5. Not modelled

- The RP business logic: what a task does is opaque.
- The ledger HTTP client, the express routes and the ledger query wrappers:
  pure I/O with no shared state.
- The crypto utilities other than the identity proof:
  - `extractParameterFromPublicKey` parses openssl's text output through a
    temporary file; `ZkProof` takes n and e as given.
  - The encryption and signature wrappers call `./crypto` and external
    services, which are not in the repository.
  - `getNonce` counts up from `Date.now() % 10000` per process. Whether two
    processes' nonces may collide depends on the ledger's nonce rule, which
    is not in the repository.
  - `hashWithRandomSalt`/`compareSaltedHash` have no caller: the one call in
    `src/src/core/common.js` is commented out. The pair cannot work as
    written. `compareSaltedHash` takes `saltStringLength = 16` characters as
    the salt, but 8 salt bytes in base64 are 12 characters, so it never
    accepts a value `hashWithRandomSalt` produced.
- The worker process itself and the job master: not in this repository. The
  master's worker-loss handler is modelled from spec 4.3 as `WorkerLost`.
- `MQSendSocket` (`src/src/mq/mqsendsocket.js`): a map from sequence id to
  socket, with `send` setting an entry and `cleanUp` closing and deleting
  one. What can go wrong there (a reused sequence id leaking a socket, a
  second `cleanUp` throwing) depends only on which ids its caller passes and
  when. That caller, the first version's MQ module, is not in the repository,
  and the spec keeps the transport out of scope.
- The first version's HTTP routes (`src/src/routes/ndid.js`) and ledger
  wrappers (`src/src/core/common.js`): each handler forwards one call and maps
  its outcome to a status code. They keep no state.
