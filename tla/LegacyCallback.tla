---------------------------- MODULE LegacyCallback ----------------------------
(***************************************************************************)
(* The callback delivery of the first API version (src/src/utils/         *)
(* callback.js).  callbackToClient with retry awaits                       *)
(* addCallbackWithRetryData and starts callbackWithRetry, which posts      *)
(* until a post resolves (any HTTP answer), sleeping the backoff delay     *)
(* after each failure; there is no timeout and no predicate.  Without     *)
(* retry it posts once and logs a failure.  resumeCallbackToClient         *)
(* restarts the loop of every stored record; stopAllCallbackRetries sets  *)
(* the stop flag and clears the timers of the sleeping loops.             *)
(*                                                                         *)
(* The DB module and the server's start-up and shut-down code are not part *)
(* of the file: the DB answers its requests in order and a crash applies a *)
(* prefix of them, as the cache DB of the main server; resume is called    *)
(* once per start, at any point after the server accepts requests.         *)
(***************************************************************************)
EXTENDS Naturals, Sequences, SequencesExt

CONSTANTS
  CbIds,       \* the cbIds drawn by randomBase64Bytes (one per call)
  MinDelay,    \* ExponentialBackoff min, in ticks
  MaxDelay,    \* ExponentialBackoff max, in ticks
  MaxCrashes   \* bound on process ends (a crash, or exit after shutdown)

ASSUME MinDelay \in Nat \ {0} /\ MaxDelay \in Nat /\ MinDelay <= MaxDelay
ASSUME MaxCrashes \in Nat

Origins == {"call", "resume"}
LoopIds == CbIds \X Origins

Pcs == {"none",
        "persisting",  \* callbackToClient awaits addCallbackWithRetryData
        "once",        \* callbackToClient without retry awaits httpPost
        "posting",     \* callbackWithRetry awaits httpPost
        "sleeping",    \* it awaits waitPromise, its timer set
        "halted"}      \* it awaits waitPromise, whose timer was cleared

Loops == [pc : Pcs, sinceFail : 0..MaxDelay, delay : 0..MaxDelay,
          next : MinDelay..MaxDelay]

NoLoop == [pc |-> "none", sinceFail |-> 0, delay |-> 0, next |-> MinDelay]

DbOp == [op : {"add", "remove"}, cb : CbIds] \cup [op : {"list"}]

VARIABLES
  up,                \* the server process is running
  resumed,           \* resumeCallbackToClient was called since the start
  stopCallbackRetry,
  loop,              \* loop[<<cb, origin>>]: that async function
  store,             \* cbIds with a retry record in the DB
  dbOps,             \* DB requests in flight, in order
  crashes,
  \* history, not program state
  requested,         \* cbIds callbackToClient was called with
  accepted,          \* cbIds whose record was ever written
  delivered          \* cbIds a retry loop got an HTTP answer for

vars == <<up, resumed, stopCallbackRetry, loop, store, dbOps, crashes,
          requested, accepted, delivered>>

TypeOK ==
  /\ up \in BOOLEAN /\ resumed \in BOOLEAN /\ stopCallbackRetry \in BOOLEAN
  /\ loop \in [LoopIds -> Loops]
  /\ store \subseteq CbIds /\ dbOps \in Seq(DbOp)
  /\ crashes \in 0..MaxCrashes
  /\ requested \subseteq CbIds /\ accepted \subseteq requested
  /\ delivered \subseteq accepted

ApplyDbOpRemoveAll(st, o) ==
  CASE o.op = "add" -> st \cup {o.cb} [] o.op = "remove" -> {} [] OTHER -> st
ApplyDbOp(st, o) ==
  CASE o.op = "add" -> st \cup {o.cb} [] o.op = "remove" -> st \ {o.cb}
    [] OTHER -> st

Init ==
  /\ up = TRUE /\ resumed = FALSE /\ stopCallbackRetry = FALSE
  /\ loop = [l \in LoopIds |-> NoLoop]
  /\ store = {} /\ dbOps = << >> /\ crashes = 0
  /\ requested = {} /\ accepted = {} /\ delivered = {}

(* callbackToClient: with retry, up to its await of                       *)
(* addCallbackWithRetryData; without retry, up to its await of httpPost.   *)
CallbackToClient(cb, retry) ==
  /\ up /\ cb \notin requested
  /\ requested' = requested \cup {cb}
  /\ IF retry
     THEN /\ loop' = [loop EXCEPT ![<<cb, "call">>].pc = "persisting"]
          /\ dbOps' = Append(dbOps, [op |-> "add", cb |-> cb])
     ELSE /\ loop' = [loop EXCEPT ![<<cb, "call">>].pc = "once"]
          /\ UNCHANGED dbOps
  /\ UNCHANGED <<up, resumed, stopCallbackRetry, store, crashes, accepted,
                 delivered>>

(* The post without retry settles; a failure is only logged.              *)
OnceSettled(cb) ==
  /\ up /\ loop[<<cb, "call">>].pc = "once"
  /\ loop' = [loop EXCEPT ![<<cb, "call">>] = NoLoop]
  /\ UNCHANGED <<up, resumed, stopCallbackRetry, store, dbOps, crashes,
                 requested, accepted, delivered>>

(* callbackWithRetry up to its first await: a new backoff, then the loop   *)
(* head, which returns at once if stopCallbackRetry is set.                *)
CallbackWithRetry ==
  [NoLoop EXCEPT !.pc = IF stopCallbackRetry THEN "none" ELSE "posting"]

DbStep ==
  /\ up /\ dbOps # << >>
  /\ dbOps' = Tail(dbOps)
  /\ store' = ApplyDbOp(store, Head(dbOps))

(* addCallbackWithRetryData completes: callbackToClient starts the loop.   *)
Persisted ==
  /\ DbStep /\ Head(dbOps).op = "add"
  /\ LET cb == Head(dbOps).cb IN
       /\ accepted' = accepted \cup {cb}
       /\ loop' = [loop EXCEPT ![<<cb, "call">>] = CallbackWithRetry]
  /\ UNCHANGED <<up, resumed, stopCallbackRetry, crashes, requested,
                 delivered>>

(* An un-awaited removeCallbackWithRetryData completes.                    *)
RemoveApplied ==
  /\ DbStep /\ Head(dbOps).op = "remove"
  /\ UNCHANGED <<up, resumed, stopCallbackRetry, loop, crashes, requested,
                 accepted, delivered>>

(* getAllCallbackWithRetryData completes: a loop for every record.         *)
ResumeListed ==
  /\ DbStep /\ Head(dbOps).op = "list"
  /\ loop' = [l \in LoopIds |->
                IF l[2] = "resume" /\ l[1] \in store THEN CallbackWithRetry
                ELSE loop[l]]
  /\ UNCHANGED <<up, resumed, stopCallbackRetry, crashes, requested,
                 accepted, delivered>>

(* httpPost resolves: remove the record without awaiting it, call the      *)
(* response callback, return.                                              *)
PostResolved(l) ==
  /\ up /\ loop[l].pc = "posting"
  /\ loop' = [loop EXCEPT ![l] = NoLoop]
  /\ dbOps' = Append(dbOps, [op |-> "remove", cb |-> l[1]])
  /\ delivered' = delivered \cup {l[1]}
  /\ UNCHANGED <<up, resumed, stopCallbackRetry, store, crashes, requested,
                 accepted>>

(* After a failure: backoff.next(), then wait(nextRetry, true), whose      *)
(* stopWaiting is pushed on waitStopFunction, and await its promise.       *)
RetryGivingUp(lp) == NoLoop
RetryUncapped(lp) == [lp EXCEPT !.pc = "sleeping", !.sinceFail = 0,
                                !.delay = lp.next, !.next = 2 * lp.next]
Retry(lp) == [lp EXCEPT !.pc = "sleeping", !.sinceFail = 0, !.delay = lp.next,
                        !.next = IF 2 * lp.next > MaxDelay THEN MaxDelay
                                 ELSE 2 * lp.next]

(* httpPost rejects (no answer from the client application).               *)
PostRejected(l) ==
  /\ up /\ loop[l].pc = "posting"
  /\ loop' = [loop EXCEPT ![l] = Retry(loop[l])]
  /\ UNCHANGED <<up, resumed, stopCallbackRetry, store, dbOps, crashes,
                 requested, accepted, delivered>>

(* The timer fires: the splice from waitStopFunction and the loop head.    *)
WakeUp(l) ==
  /\ up /\ loop[l].pc = "sleeping" /\ loop[l].sinceFail >= loop[l].delay
  /\ loop' = [loop EXCEPT ![l].pc = IF stopCallbackRetry THEN "none"
                                    ELSE "posting"]
  /\ UNCHANGED <<up, resumed, stopCallbackRetry, store, dbOps, crashes,
                 requested, accepted, delivered>>

(* Time passes for the sleeping loops whose timer has not fired.           *)
Tick ==
  /\ up /\ \E l \in LoopIds : loop[l].pc = "sleeping"
                               /\ loop[l].sinceFail < loop[l].delay
  /\ loop' = [l \in LoopIds |->
                IF loop[l].pc = "sleeping" /\ loop[l].sinceFail < loop[l].delay
                THEN [loop[l] EXCEPT !.sinceFail = @ + 1] ELSE loop[l]]
  /\ UNCHANGED <<up, resumed, stopCallbackRetry, store, dbOps, crashes,
                 requested, accepted, delivered>>

(* resumeCallbackToClient, called once when the server starts, up to its  *)
(* await of getAllCallbackWithRetryData.                                   *)
ResumeCallbackToClient ==
  /\ up /\ ~resumed
  /\ resumed' = TRUE
  /\ dbOps' = Append(dbOps, [op |-> "list"])
  /\ UNCHANGED <<up, stopCallbackRetry, loop, store, crashes, requested,
                 accepted, delivered>>

(* stopAllCallbackRetries: set the flag and clear every pending timer; a   *)
(* loop whose timer is cleared never resumes.                              *)
StopAllCallbackRetries ==
  /\ up /\ ~stopCallbackRetry
  /\ stopCallbackRetry' = TRUE
  /\ loop' = [l \in LoopIds |-> IF loop[l].pc = "sleeping"
                                THEN [loop[l] EXCEPT !.pc = "halted"]
                                ELSE loop[l]]
  /\ UNCHANGED <<up, resumed, store, dbOps, crashes, requested, accepted,
                 delivered>>

(* The process ends; the DB has completed a prefix of its requests.        *)
Crash ==
  /\ up /\ crashes < MaxCrashes
  /\ \E n \in 0..Len(dbOps) :
       store' = FoldLeft(ApplyDbOp, store, SubSeq(dbOps, 1, n))
  /\ accepted' = accepted \cup store'
  /\ up' = FALSE /\ crashes' = crashes + 1
  /\ resumed' = FALSE /\ stopCallbackRetry' = FALSE
  /\ loop' = [l \in LoopIds |-> NoLoop]
  /\ dbOps' = << >>
  /\ UNCHANGED <<requested, delivered>>

Restart ==
  /\ ~up /\ up' = TRUE
  /\ UNCHANGED <<resumed, stopCallbackRetry, loop, store, dbOps, crashes,
                 requested, accepted, delivered>>

Next ==
  \/ \E cb \in CbIds, retry \in BOOLEAN : CallbackToClient(cb, retry)
  \/ \E cb \in CbIds : OnceSettled(cb)
  \/ \E l \in LoopIds : PostResolved(l) \/ PostRejected(l) \/ WakeUp(l)
  \/ Persisted \/ RemoveApplied \/ ResumeListed
  \/ Tick \/ ResumeCallbackToClient \/ StopAllCallbackRetries
  \/ Crash \/ Restart

Spec == Init /\ [][Next]_vars

(* The DB answers, timers fire, time passes, every post settles (the       *)
(* request has no timeout of its own: this assumes the connection ends),   *)
(* the process comes back after it ends and calls resume when it starts.   *)
(* Whether a post succeeds is the client's choice: no fairness on which    *)
(* result it has.  No fairness on calls, shutdown or crashes.              *)
Fairness ==
  /\ WF_vars(Persisted) /\ WF_vars(RemoveApplied) /\ WF_vars(ResumeListed)
  /\ WF_vars(Tick) /\ WF_vars(ResumeCallbackToClient) /\ WF_vars(Restart)
  /\ \A l \in LoopIds :
       WF_vars(PostResolved(l) \/ PostRejected(l)) /\ WF_vars(WakeUp(l))
  /\ \A cb \in CbIds : WF_vars(OnceSettled(cb))

FairSpec == Spec /\ Fairness
-----------------------------------------------------------------------------
Abs == INSTANCE DeliveryAbstract WITH records <- store, concluded <- delivered

(* The legacy engine keeps the abstract delivery promise: a record written *)
(* by addCallbackWithRetryData stays until a loop got an answer for it,    *)
(* is removed only then, and never reappears, across crashes that apply   *)
(* part of the pending writes and resumes that re-drive stored records.    *)
DeliverySpec == Abs!Spec

(* A stored record whose delivery got no answer is always attempted again: *)
(* a loop eventually posts it, unless stopAllCallbackRetries was called    *)
(* (in this run of the process).  The retry loop sleeps and retries after  *)
(* a failure, and resumeCallbackToClient picks the record up after a       *)
(* restart.                                                                *)
RecordRetried ==
  \A cb \in CbIds :
    (cb \in store /\ cb \notin delivered)
      ~> (\E o \in Origins : loop[<<cb, o>>].pc = "posting")
         \/ cb \in delivered \/ stopCallbackRetry
=============================================================================
