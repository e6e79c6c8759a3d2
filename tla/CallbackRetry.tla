---------------------------- MODULE CallbackRetry ----------------------------
(***************************************************************************)
(* The callback delivery engine of the main server                        *)
(* (src/main-server/src/utils/callback.js) inside the server's lifecycle:  *)
(* callbackToClient persists a retry record in the cache DB and starts     *)
(* callbackWithRetry, whose loop posts to the client until success, an    *)
(* oversized body, a predicate veto or a timeout.  initialize resumes the  *)
(* loop of every record once its other start-up steps are done (by then   *)
(* new callbacks may already be running); shutDown stops the loops and     *)
(* closes the cache DB; in master mode a worker's callbacks are taken over *)
(* by handleCallbackWorkerLost with the worker's deadline.                 *)
(*                                                                         *)
(* A loop is identified by its callback id and by who started it: "call"  *)
(* (callbackToClient or handleCallbackWorkerLost) or "resume"             *)
(* (resumeCallbackToClient).  Time is relative: every running loop keeps   *)
(* the time since its startTime and since its last failed attempt, every   *)
(* record the time since it was written, each capped.  The cache          *)
(* DB is one connection whose requests complete in order (dbOps); a crash  *)
(* applies a prefix of them.                                               *)
(***************************************************************************)
EXTENDS Naturals, Sequences, SequencesExt, FiniteSets

CONSTANTS
  CbIds,         \* callback ids (cbId) of the deliveries requested
  HasPredicate,  \* HasPredicate[cb]: the caller gave a shouldRetryFnName
  MinDelay,      \* ExponentialBackoff min, in ticks
  MaxDelay,      \* ExponentialBackoff max, in ticks
  Timeout,       \* config.callbackRetryTimeout, in ticks
  MaxCrashes,    \* bound on crashes and restarts
  Modes,         \* config.mode values to check: standalone and/or master
  WorkerCbs,     \* master mode: the callback ids a worker sends (others are
                 \* sent by this process)
  InitMayFail    \* whether a start-up step of initialize may throw

ASSUME HasPredicate \in [CbIds -> BOOLEAN]
ASSUME MinDelay \in Nat \ {0} /\ MaxDelay \in Nat /\ MinDelay <= MaxDelay
ASSUME Timeout \in Nat /\ MaxCrashes \in Nat /\ InitMayFail \in BOOLEAN
ASSUME Modes \subseteq {"standalone", "master"} /\ Modes # {}
ASSUME WorkerCbs \subseteq CbIds

\* Clocks stop where their comparisons no longer change: the elapsed time
\* of a loop is only compared as elapsed + next > Timeout, the time since
\* its last failure with a delay of at most MaxDelay, the age of a record
\* with Timeout.
ElapsedCap == Timeout
AgeCap == Timeout + 1

Outcomes == {"none", "success", "tooLarge", "vetoed", "timedOut"}

\* where an asynchronous function for a callback id is suspended
Pcs == {"none",        \* no loop
        "persisting",  \* callbackToClient awaits setCallbackWithRetryData
        "once",        \* callbackToClient without retry awaits httpPost
        "posting",     \* the loop awaits httpPost
        "deciding",    \* the loop awaits the shouldRetry function
        "sleeping"}    \* the loop awaits the result of wait(nextRetry, true)

Active == {"posting", "deciding", "sleeping"}

Origins == {"call", "resume"}
LoopIds == CbIds \X Origins

\* deadline: callbackWithRetry got a deadline (from handleCallbackWorkerLost)
Loops == [pc : Pcs, elapsed : 0..ElapsedCap, sinceFail : 0..MaxDelay,
          next : MinDelay..MaxDelay, delay : 0..MaxDelay, deadline : BOOLEAN]

NoLoop == [pc |-> "none", elapsed |-> 0, sinceFail |-> 0,
           next |-> MinDelay, delay |-> 0, deadline |-> FALSE]

\* set/remove/get of a retry record, and the listing of all records
DbOp == [op : {"set", "remove", "get"}, cb : CbIds] \cup [op : {"list"}]

\* progress of shutDown: not called, retries stopped (and awaiting the MQ
\* and worker shutdown), cache DB closed
ShutStages == {"none", "stopped", "closed"}

VARIABLES
  up,             \* the server process is running
  initDone,       \* initialize has passed resumeCallbackToClient or failed
  shut,           \* progress of shutDown (shutDownCalledOnce = shut # "none")
  stopCallbackRetry,
  pendingCallbacksCount,
  loop,           \* loop[<<cb, origin>>]: state of that async function
  mode,           \* config.mode
  store,          \* cb ids with a callbackWithRetry record in the cache DB
  dbOps,          \* cache DB requests in flight, in order
  workerRunning,  \* master mode: cb ids whose loop runs in a worker
  workerPending,  \* master mode: cb ids in a worker's pendingCallback
  crashes,
  \* history, not program state
  accepted,       \* cb ids whose record was ever written
  outcome,        \* last terminal outcome reached for a cb id
  age             \* time since the record of cb was written, capped

memVars == <<initDone, shut, stopCallbackRetry, pendingCallbacksCount, loop>>
workerVars == <<workerRunning, workerPending>>
vars == <<up, memVars, mode, store, dbOps, workerVars, crashes,
          accepted, outcome, age>>

TypeOK ==
  /\ up \in BOOLEAN /\ initDone \in BOOLEAN /\ shut \in ShutStages
  /\ stopCallbackRetry \in BOOLEAN
  /\ pendingCallbacksCount \in Nat
  /\ loop \in [LoopIds -> Loops]
  /\ mode \in Modes
  /\ store \subseteq CbIds
  /\ dbOps \in Seq(DbOp)
  /\ workerRunning \subseteq workerPending /\ workerPending \subseteq CbIds
  /\ crashes \in 0..MaxCrashes
  /\ accepted \subseteq CbIds
  /\ outcome \in [CbIds -> Outcomes]
  /\ age \in [CbIds -> 0..AgeCap]

\* Node runs every pending microtask before any timer or I/O callback: a
\* loop resuming from its await of the wait object blocks the macrotasks.
MicrotaskPending == \E l \in LoopIds : loop[l].pc = "sleeping"

Capped(n, cap) == IF n < cap THEN n ELSE cap

\* effect of one completed cache DB request on the set of records
ApplyOpClearAll(st, o) ==
  CASE o.op = "set" -> st \cup {o.cb} [] o.op = "remove" -> {} [] OTHER -> st
ApplyOp(st, o) ==
  CASE o.op = "set" -> st \cup {o.cb} [] o.op = "remove" -> st \ {o.cb}
    [] OTHER -> st

\* cacheDb.close() has not been called
dbOpen == shut # "closed"

\* A request to the cache DB; once cacheDb.close() was called it is
\* rejected at once and never reaches the DB.
Request(ops) == IF dbOpen THEN dbOps \o ops ELSE dbOps

RemoveRecord(cb) == Request(<<[op |-> "remove", cb |-> cb]>>)

\* no request for cb is in flight and no loop exists for it
Fresh(cb) ==
  /\ cb \notin accepted
  /\ \A o \in Origins : loop[<<cb, o>>].pc = "none"
  /\ \A i \in 1..Len(dbOps) : dbOps[i].op # "list" => dbOps[i].cb # cb

Init ==
  /\ up = TRUE /\ initDone = FALSE /\ shut = "none"
  /\ stopCallbackRetry = FALSE
  /\ pendingCallbacksCount = 0
  /\ loop = [l \in LoopIds |-> NoLoop]
  /\ mode \in Modes
  /\ store = {} /\ dbOps = << >>
  /\ workerRunning = {} /\ workerPending = {}
  /\ crashes = 0
  /\ accepted = {}
  /\ outcome = [cb \in CbIds |-> "none"]
  /\ age = [cb \in CbIds |-> 0]

(***************************************************************************)
(* callbackToClient, with retry up to its await of setCallbackWithRetryData,*)
(* without retry up to its await of httpPost (the MQ handlers and the HTTP *)
(* server are running before initialize reaches resumeCallbackToClient,    *)
(* and until shutDown closes them).                                        *)
(***************************************************************************)
CallbackToClient(cb, retry) ==
  /\ up /\ ~MicrotaskPending /\ cb \notin WorkerCbs /\ Fresh(cb)
  /\ IF retry
     THEN /\ dbOpen   \* else the request is rejected and the call throws
          /\ loop' = [loop EXCEPT ![<<cb, "call">>].pc = "persisting"]
          /\ dbOps' = Append(dbOps, [op |-> "set", cb |-> cb])
     ELSE /\ loop' = [loop EXCEPT ![<<cb, "call">>].pc = "once"]
          /\ UNCHANGED dbOps
  /\ UNCHANGED <<up, initDone, shut, stopCallbackRetry, pendingCallbacksCount,
                 mode, store, workerVars, crashes, accepted, outcome,
                 age>>

(* The post without retry settles: the response callback on an answer or  *)
(* an oversized body, a log line on any other error.                       *)
OnceSettled(cb) ==
  /\ up /\ ~MicrotaskPending /\ loop[<<cb, "call">>].pc = "once"
  /\ loop' = [loop EXCEPT ![<<cb, "call">>] = NoLoop]
  /\ UNCHANGED <<up, initDone, shut, stopCallbackRetry, pendingCallbacksCount,
                 mode, store, dbOps, workerVars, crashes, accepted, outcome,
                 age>>

(* The loop head of callbackWithRetry: return if stopCallbackRetry, else   *)
(* post.                                                                   *)
LoopTopRestartingClock(l) ==
  [l EXCEPT !.pc = IF stopCallbackRetry THEN "none" ELSE "posting", !.elapsed = 0]
LoopTop(l) == [l EXCEPT !.pc = IF stopCallbackRetry THEN "none" ELSE "posting"]

(* incrementPendingCallbacksCount                                          *)
StartLoopNoIncrement(n, k) == n
StartLoop(n, k) == n + k

(* callbackWithRetry from its start to its first await: count the pending  *)
(* callback, take startTime, create the backoff, enter the loop.           *)
CallbackWithRetry(hasDeadline) ==
  LoopTop([NoLoop EXCEPT !.pc = "posting", !.deadline = hasDeadline])

(* The head request of the cache DB completes.                             *)
DbStep ==
  /\ up /\ ~MicrotaskPending /\ dbOps # << >>
  /\ dbOps' = Tail(dbOps)
  /\ store' = ApplyOp(store, Head(dbOps))

(* setCallbackWithRetryData completes; callbackToClient goes on to call    *)
(* callbackWithRetry, which runs up to httpPost.                           *)
Persisted ==
  /\ DbStep /\ Head(dbOps).op = "set"
  /\ LET cb == Head(dbOps).cb IN
       /\ accepted' = accepted \cup {cb}
       /\ age' = [age EXCEPT ![cb] = 0]
       /\ loop' = [loop EXCEPT ![<<cb, "call">>] = CallbackWithRetry(FALSE)]
  /\ pendingCallbacksCount' = StartLoop(pendingCallbacksCount, 1)
  /\ UNCHANGED <<up, initDone, shut, stopCallbackRetry, mode,
                 workerVars, crashes, outcome>>

(* An un-awaited removeCallbackWithRetryData completes.                    *)
RemoveApplied ==
  /\ DbStep /\ Head(dbOps).op = "remove"
  /\ UNCHANGED <<up, memVars, mode, workerVars, crashes, accepted,
                 outcome, age>>

(* getAllCallbackWithRetryData completes: resumeCallbackToClient calls     *)
(* callbackWithRetry, with no deadline, for every record it lists.         *)
ResumeListed ==
  /\ DbStep /\ Head(dbOps).op = "list"
  /\ loop' = [l \in LoopIds |->
                IF l[2] = "resume" /\ l[1] \in store
                THEN CallbackWithRetry(FALSE) ELSE loop[l]]
  /\ pendingCallbacksCount' = StartLoop(pendingCallbacksCount, Cardinality(store))
  /\ UNCHANGED <<up, initDone, shut, stopCallbackRetry, mode,
                 workerVars, crashes, accepted, outcome, age>>

(* handleCallbackWorkerLost: getCallbackWithRetryData completes; if the    *)
(* record exists, callbackWithRetry runs with the worker's deadline.       *)
WorkerCallbackFetched ==
  /\ DbStep /\ Head(dbOps).op = "get"
  /\ LET cb == Head(dbOps).cb IN
       IF cb \in store
       THEN /\ loop' = [loop EXCEPT ![<<cb, "call">>] = CallbackWithRetry(TRUE)]
            /\ pendingCallbacksCount' = StartLoop(pendingCallbacksCount, 1)
       ELSE UNCHANGED <<loop, pendingCallbacksCount>>
  /\ UNCHANGED <<up, initDone, shut, stopCallbackRetry, mode,
                 workerVars, crashes, accepted, outcome, age>>

(* A terminal outcome of loop l: count down, remove the record without     *)
(* awaiting it, return.                                                    *)
Finish(l, o) ==
  /\ pendingCallbacksCount' = pendingCallbacksCount - 1
  /\ dbOps' = RemoveRecord(l[1])
  /\ outcome' = [outcome EXCEPT ![l[1]] = o]
  /\ loop' = [loop EXCEPT ![l] = NoLoop]

(* httpPost settles for loop l: fetch with size RESPONSE_BODY_SIZE_LIMIT  *)
(* and response.text() are one await here.                                *)
PostStep(l) == up /\ ~MicrotaskPending /\ loop[l].pc = "posting"

(* httpPost resolves: the success path of the try block (the response     *)
(* callback is called and the loop returns).                               *)
PostSucceeded(l) ==
  /\ PostStep(l) /\ Finish(l, "success")
  /\ UNCHANGED <<up, initDone, shut, stopCallbackRetry, mode, store,
                 workerVars, crashes, accepted, age>>

(* httpPost rejects with the FetchError of type max-size (the response    *)
(* body is over RESPONSE_BODY_SIZE_LIMIT).                                 *)
PostTooLarge(l) ==
  /\ PostStep(l) /\ Finish(l, "tooLarge")
  /\ UNCHANGED <<up, initDone, shut, stopCallbackRetry, mode, store,
                 workerVars, crashes, accepted, age>>

(* The timeout check of the no-predicate branch is skipped when a deadline *)
(* was given and has passed (!deadline || Date.now() < deadline).  The     *)
(* deadline of a worker's callback is the worker's startTime plus the      *)
(* timeout, the time its record was written.                               *)
TimeoutApplies(l) == ~loop[l].deadline \/ age[l[1]] < Timeout

TimedOut(lp) == lp.elapsed + lp.next > Timeout

(* Sleep before the next attempt: wait(nextRetry, true) returns an object, *)
(* pushed on waitPromises and awaited.                                     *)
Sleep(lp) == [lp EXCEPT !.pc = "sleeping", !.sinceFail = 0, !.delay = lp.next,
                        !.next = IF 2 * lp.next > MaxDelay THEN MaxDelay
                                 ELSE 2 * lp.next]

(* httpPost rejects with any other error: backoff.next(), then the        *)
(* predicate, the timeout, or the sleep.                                   *)
PostFailed(l) ==
  /\ PostStep(l)
  /\ LET lp == loop[l] IN
       \/ /\ HasPredicate[l[1]]
          /\ loop' = [loop EXCEPT ![l] = [Sleep(lp) EXCEPT !.pc = "deciding"]]
          /\ UNCHANGED <<pendingCallbacksCount, dbOps, outcome>>
       \/ /\ ~HasPredicate[l[1]] /\ TimeoutApplies(l) /\ TimedOut(lp)
          /\ Finish(l, "timedOut")
       \/ /\ ~HasPredicate[l[1]] /\ ~(TimeoutApplies(l) /\ TimedOut(lp))
          /\ loop' = [loop EXCEPT ![l] = Sleep(lp)]
          /\ UNCHANGED <<pendingCallbacksCount, dbOps, outcome>>
  /\ UNCHANGED <<up, initDone, shut, stopCallbackRetry, mode, store,
                 workerVars, crashes, accepted, age>>

(* The shouldRetry function resolves (an exception counts as TRUE).        *)
Decided(l) ==
  /\ up /\ ~MicrotaskPending /\ loop[l].pc = "deciding"
  /\ \/ Finish(l, "vetoed")
     \/ /\ loop' = [loop EXCEPT ![l].pc = "sleeping"]
        /\ UNCHANGED <<pendingCallbacksCount, dbOps, outcome>>
  /\ UNCHANGED <<up, initDone, shut, stopCallbackRetry, mode, store,
                 workerVars, crashes, accepted, age>>

(* The await on the wait object resumes.  The object is not a promise, so  *)
(* the await resumes on the next microtask whatever the delay.  Then the   *)
(* splice from waitPromises and the loop head.                             *)
WakeUp(l) ==
  /\ up /\ loop[l].pc = "sleeping"
  /\ loop' = [loop EXCEPT ![l] = LoopTop(loop[l])]
  /\ UNCHANGED <<up, initDone, shut, stopCallbackRetry, pendingCallbacksCount,
                 mode, store, dbOps, workerVars, crashes, accepted,
                 outcome, age>>

(* Time passes for every running loop, here and in a worker, and for every *)
(* record (a timer or I/O event, so not while a microtask is pending).     *)
(* Only the clocks of deliveries without a predicate are read by a timeout *)
(* check, and the time since a failure is only read when the sleep after  *)
(* it ends, so it only runs between the failure and the next post.  The    *)
(* other clocks are left as they are.                                      *)
Tick ==
  /\ up /\ ~MicrotaskPending
  /\ (\E l \in LoopIds : loop[l].pc \in Active) \/ workerRunning # {}
  /\ loop' = [l \in LoopIds |->
                IF loop[l].pc \in Active
                THEN [loop[l] EXCEPT
                        !.elapsed = IF HasPredicate[l[1]] THEN @
                                    ELSE Capped(@ + 1, ElapsedCap),
                        !.sinceFail = IF loop[l].pc = "posting" THEN @
                                      ELSE Capped(@ + 1, MaxDelay)]
                ELSE loop[l]]
  /\ age' = [cb \in CbIds |->
               IF cb \in store /\ ~HasPredicate[cb] THEN Capped(age[cb] + 1, AgeCap)
               ELSE age[cb]]
  /\ UNCHANGED <<up, initDone, shut, stopCallbackRetry, pendingCallbacksCount,
                 mode, store, dbOps, workerVars, crashes, accepted,
                 outcome>>

(***************************************************************************)
(* The server's lifecycle (initialize and shutDown).                       *)
(***************************************************************************)

(* initialize, at its end: resumeCallbackToClient (standalone and master   *)
(* mode), which is not awaited and first lists the records.                *)
ResumeCallbackToClient ==
  /\ up /\ ~initDone /\ ~MicrotaskPending
  /\ initDone' = TRUE
  /\ dbOps' = Request(<<[op |-> "list"]>>)
  /\ UNCHANGED <<up, shut, stopCallbackRetry, pendingCallbacksCount, loop,
                 mode, store, workerVars, crashes, accepted, outcome,
                 age>>

(* A start-up step of initialize throws: the catch logs it, and the        *)
(* records are not resumed in this run of the process.                     *)
InitializeFailed ==
  /\ InitMayFail /\ up /\ ~initDone /\ ~MicrotaskPending
  /\ initDone' = TRUE
  /\ UNCHANGED <<up, shut, stopCallbackRetry, pendingCallbacksCount, loop,
                 mode, store, dbOps, workerVars, crashes, accepted,
                 outcome, age>>

(* stopAllCallbackRetries: set the flag, stop the waits in waitPromises.   *)
StopAllCallbackRetries == stopCallbackRetry' = TRUE

(* The first SIGTERM or SIGINT: shutDown sets shutDownCalledOnce, awaits  *)
(* prometheus.stop() and httpServer.close() (which change nothing here),   *)
(* and calls stopAllCallbackRetries.  waitPromises is empty then: an entry *)
(* lives only while a loop is sleeping, a microtask that runs before any   *)
(* continuation of shutDown.                                               *)
ShutDown ==
  /\ up /\ shut = "none" /\ ~MicrotaskPending
  /\ shut' = "stopped"
  /\ StopAllCallbackRetries
  /\ UNCHANGED <<up, initDone, pendingCallbacksCount, loop, mode, store,
                 dbOps, workerVars, crashes, accepted, outcome, age>>

(* After mq.close() and the worker shutdown, shutDown closes the cache DB: *)
(* requests sent before are answered, later ones are rejected.             *)
CloseCacheDb ==
  /\ up /\ shut = "stopped" /\ ~MicrotaskPending
  /\ shut' = "closed"
  /\ UNCHANGED <<up, initDone, stopCallbackRetry, pendingCallbacksCount, loop,
                 mode, store, dbOps, workerVars, crashes, accepted, outcome,
                 age>>

(* The process ends: killed, process.exit(1) on a second signal during     *)
(* shutDown, or the event loop running empty after it.  The cache DB has   *)
(* completed some prefix of the requests sent to it.                       *)
Crash ==
  /\ up /\ crashes < MaxCrashes
  /\ \E n \in 0..Len(dbOps) :
       store' = FoldLeft(ApplyOp, store, SubSeq(dbOps, 1, n))
  /\ up' = FALSE
  /\ crashes' = crashes + 1
  /\ initDone' = FALSE /\ shut' = "none" /\ stopCallbackRetry' = FALSE
  /\ pendingCallbacksCount' = 0
  /\ loop' = [l \in LoopIds |-> NoLoop]
  /\ dbOps' = << >>
  /\ accepted' = accepted \cup store'   \* a write may land unanswered
  /\ UNCHANGED <<mode, workerVars, outcome, age>>

(* The process starts again and initialize runs up to its last steps; the  *)
(* MQ handlers and the HTTP server may already request callbacks.          *)
Restart ==
  /\ ~up
  /\ up' = TRUE
  /\ UNCHANGED <<memVars, mode, store, dbOps, workerVars, crashes,
                 accepted, outcome, age>>

(***************************************************************************)
(* Master mode: callbacks sent by workers (callbackToClient and            *)
(* callbackWithRetry running in a worker process, which writes the record  *)
(* through its own cache DB connection and keeps pendingCallback[cbId]).   *)
(***************************************************************************)
WorkerCallbackToClient(cb) ==
  /\ up /\ mode = "master" /\ cb \in WorkerCbs /\ Fresh(cb)
  /\ store' = store \cup {cb}
  /\ accepted' = accepted \cup {cb}
  /\ age' = [age EXCEPT ![cb] = 0]
  /\ workerRunning' = workerRunning \cup {cb}
  /\ workerPending' = workerPending \cup {cb}
  /\ UNCHANGED <<up, memVars, mode, dbOps, crashes, outcome>>

(* The worker's loop ends.  pendingCallback[cbId] is deleted only on       *)
(* success; the record is removed in every terminal case.                  *)
WorkerTerminal(cb) ==
  {"success", "tooLarge"} \cup (IF HasPredicate[cb] THEN {"vetoed"}
                                ELSE {"timedOut"})

WorkerCallbackFinished(cb, o) ==
  /\ cb \in workerRunning
  /\ store' = store \ {cb}
  /\ outcome' = [outcome EXCEPT ![cb] = o]
  /\ workerRunning' = workerRunning \ {cb}
  /\ workerPending' = IF o = "success" THEN workerPending \ {cb}
                       ELSE workerPending
  /\ UNCHANGED <<up, memVars, mode, dbOps, crashes, accepted, age>>

(* The worker disconnects: its loops are gone, and the master calls        *)
(* handleCallbackWorkerLost(cbId, deadline) for every entry of its         *)
(* pendingCallback, each sending getCallbackWithRetryData.                 *)
WorkerLost ==
  /\ up /\ ~MicrotaskPending /\ workerPending # {}
  /\ LET ids == SetToSeq(workerPending) IN
       dbOps' = Request([i \in 1..Len(ids) |-> [op |-> "get", cb |-> ids[i]]])
  /\ workerRunning' = {} /\ workerPending' = {}
  /\ UNCHANGED <<up, memVars, mode, store, crashes, accepted, outcome,
                 age>>

Next ==
  \/ \E cb \in CbIds :
       \/ \E retry \in BOOLEAN : CallbackToClient(cb, retry)
       \/ OnceSettled(cb) \/ WorkerCallbackToClient(cb)
       \/ \E o \in WorkerTerminal(cb) : WorkerCallbackFinished(cb, o)
  \/ \E l \in LoopIds :
       \/ PostSucceeded(l) \/ PostTooLarge(l) \/ PostFailed(l)
       \/ Decided(l) \/ WakeUp(l)
  \/ Persisted \/ RemoveApplied \/ ResumeListed \/ WorkerCallbackFetched
  \/ ResumeCallbackToClient \/ InitializeFailed
  \/ ShutDown \/ CloseCacheDb
  \/ WorkerLost \/ Tick \/ Crash \/ Restart

Spec == Init /\ [][Next]_vars

(* The cache DB answers, the event loop handles every I/O completion and   *)
(* every continuation of initialize and shutDown, and time passes.  These  *)
(* steps are disabled only while a microtask is pending, so they are       *)
(* strongly fair: the event loop reaches them once the microtasks drain.   *)
(* A worker's loop ends (by its own timeout when it has no predicate).     *)
(* The client endpoint may fail for ever, and a predicate may always ask   *)
(* for a retry: no fairness on which result a post has.  No fairness on    *)
(* requests, signals, worker loss or crashes.                              *)
Fairness ==
  /\ SF_vars(Persisted) /\ SF_vars(RemoveApplied) /\ SF_vars(ResumeListed)
  /\ SF_vars(WorkerCallbackFetched) /\ SF_vars(Tick)
  /\ SF_vars(ResumeCallbackToClient)
  /\ SF_vars(CloseCacheDb)
  /\ WF_vars(Restart)
  /\ \A l \in LoopIds :
       /\ SF_vars(PostSucceeded(l) \/ PostTooLarge(l) \/ PostFailed(l))
       /\ SF_vars(Decided(l)) /\ WF_vars(WakeUp(l))
  /\ \A cb \in CbIds :
       /\ SF_vars(OnceSettled(cb))
       /\ ~HasPredicate[cb] => WF_vars(\E o \in WorkerTerminal(cb) :
                                      WorkerCallbackFinished(cb, o))

FairSpec == Spec /\ Fairness

-----------------------------------------------------------------------------
(* Every delivery without a shouldRetry predicate reaches a terminal       *)
(* outcome, whatever the endpoint answers, unless retries are stopped: the *)
(* timeout or the deadline check of callbackWithRetry ends an endless      *)
(* failure.                                                                *)
DeliveryTerminates ==
  \A cb \in CbIds :
    ~HasPredicate[cb] =>
      (cb \in accepted ~> (outcome[cb] # "none" \/ stopCallbackRetry))

(* Between a failed attempt and the next one the loop sleeps at least the  *)
(* backoff delay it computed (spec 4.4: "Between attempts the engine       *)
(* sleeps for the computed backoff").                                      *)
BackoffRespected ==
  [][\A l \in LoopIds :
       (loop[l].pc = "sleeping" /\ loop'[l].pc = "posting")
         => loop[l].sinceFail >= loop[l].delay]_vars

(* At most one delivery loop runs for a retry record, here or in a worker  *)
(* (spec 3: "at most one in-flight delivery attempt per record"), even     *)
(* though resumeCallbackToClient runs after the MQ handlers and the HTTP   *)
(* server have started.                                                    *)
OneLoopPerRecord ==
  \A cb \in CbIds :
    Cardinality({o \in Origins : loop[<<cb, o>>].pc \in Active})
      + (IF cb \in workerRunning THEN 1 ELSE 0) <= 1

(* The engine implements the abstract delivery promise: its cache DB       *)
(* records are the durable records, and a delivery has concluded once a   *)
(* loop (here or in a worker) reached a terminal outcome for it.           *)
Abs == INSTANCE DeliveryAbstract WITH
         records <- store,
         concluded <- {cb \in CbIds : outcome[cb] # "none"}

(* Records of the callback engine behave as DeliveryAbstract allows: a     *)
(* record written by setCallbackWithRetryData stays until a loop has       *)
(* concluded its delivery, is removed only after that, never reappears,    *)
(* across un-awaited removals, the closing of the cache DB, crashes that   *)
(* apply part of the pending writes, and the take-over of a lost worker.   *)
DeliverySpec == Abs!Spec
=============================================================================
