------------------------------ MODULE NodeUpdate ------------------------------
(***************************************************************************)
(* The node update flow of the main server (src/main-server/src/core/     *)
(* node.js).  updateNode validates the new keys, reads the node's info     *)
(* from the ledger when a URL type list is given, and starts              *)
(* updateNodeInternalAsync, awaiting it only in synchronous mode.  That    *)
(* submits the update to the ledger; in asynchronous mode the ledger      *)
(* client later calls updateNodeInternalAsyncAfterBlockchain, which hands *)
(* an update_node_result to the callback engine (callbackToClient with    *)
(* retry).  Every catch hands a failure result to the engine, then         *)
(* rethrows.                                                               *)
(*                                                                         *)
(* The ledger client, the key checks and the callback engine are not part *)
(* of the file: each await settles with any outcome its interface allows.  *)
(* A ledger transaction takes effect exactly when it reports success:      *)
(* synchronously (sync mode) or in its after-blockchain call (async).      *)
(* callbackToClient resolves once the retry record is written, or rejects. *)
(***************************************************************************)
EXTENDS FiniteSets

CONSTANT Refs   \* updateNode calls, one reference_id each

Pcs == {"idle",
        "nodeInfo",   \* updateNode awaits tendermintNdid.getNodeInfo
        "transact",   \* updateNodeInternalAsync awaits tendermintNdid.updateNode
        "block",      \* async: the ledger will call ...AfterBlockchain
        "cbSuccess",  \* ...AfterBlockchain awaits callbackToClient(success)
        "cbFailure",  \* a catch awaits callbackToClient(failure)
        "done"}

Https == {"none", "pending", "ok", "error"}   \* how the updateNode call ended

VARIABLES
  req,        \* req[r]: pc, and the synchronous option and whether options were passed
  http,       \* http[r]: updateNode pending, resolved or rejected
  committed,  \* references whose update took effect on the ledger
  results,    \* <<r, success>>: update_node_result records the engine accepted
  lost        \* references whose failure result could not be handed over

vars == <<req, http, committed, results, lost>>

TypeOK ==
  /\ req \in [Refs -> [pc : Pcs, sync : BOOLEAN, opts : BOOLEAN]]
  /\ http \in [Refs -> Https]
  /\ committed \subseteq Refs /\ lost \subseteq Refs
  /\ results \subseteq Refs \X BOOLEAN

Init ==
  /\ req = [r \in Refs |-> [pc |-> "idle", sync |-> FALSE, opts |-> FALSE]]
  /\ http = [r \in Refs |-> "none"]
  /\ committed = {} /\ lost = {} /\ results = {}

SetPc(r, p) == req' = [req EXCEPT ![r].pc = p]

(* The call's state after a synchronous stretch: pc, its options, and     *)
(* how far updateNode got.                                                 *)
Begin(r, p, s, o, h) ==
  /\ req' = [req EXCEPT ![r] = [pc |-> p, sync |-> s, opts |-> o]]
  /\ http' = [http EXCEPT ![r] = h]

(* updateNode calls updateNodeInternalAsync(...arguments, {nodeId}).  With *)
(* the options object omitted, {nodeId} lands in the options parameter and *)
(* the third parameter, destructured, is undefined: the call rejects before *)
(* its body runs.  Otherwise it submits the update and awaits the ledger.  *)
(* Async mode does not await the call, so updateNode resolves at once.     *)
StartInternal(r, s, o) ==
  Begin(r, IF o THEN "transact" ELSE "done", s, o, IF s THEN "pending" ELSE "ok")

(* The synchronous part of updateNode: validateKey and verifyNewKey throw  *)
(* on a bad key (keysOk FALSE); a URL type list makes it await             *)
(* getNodeInfo.  Synchronous mode needs the options object.                *)
UpdateNode(r) ==
  /\ req[r].pc = "idle"
  /\ \E sync, opts, keysOk, urlList \in BOOLEAN :
       /\ sync => opts
       /\ \/ ~keysOk /\ Begin(r, "done", sync, opts, "error")
          \/ keysOk /\ urlList /\ Begin(r, "nodeInfo", sync, opts, "pending")
          \/ keysOk /\ ~urlList /\ StartInternal(r, sync, opts)
  /\ UNCHANGED <<committed, results, lost>>

(* getNodeInfo settles: no node info, a role other than idp, or a failed   *)
(* query make updateNode throw; an IdP goes on.                            *)
NodeInfoReturned(r) ==
  /\ req[r].pc = "nodeInfo"
  /\ \/ /\ SetPc(r, "done")
        /\ http' = [http EXCEPT ![r] = "error"]
     \/ StartInternal(r, req[r].sync, req[r].opts)
  /\ UNCHANGED <<committed, results, lost>>

(* tendermintNdid.updateNode settles.  Synchronous: success means the      *)
(* update is committed, ...AfterBlockchain sends nothing and updateNode    *)
(* resolves; failure is rethrown to updateNode.  Asynchronous: success     *)
(* leaves the after-blockchain call to the ledger; failure makes the catch *)
(* hand a failure result to callbackToClient.                              *)
TransactSettled(r) ==
  /\ req[r].pc = "transact"
  /\ \E ok \in BOOLEAN :
       /\ committed' = IF ok /\ req[r].sync THEN committed \cup {r} ELSE committed
       /\ IF req[r].sync
            THEN /\ SetPc(r, "done")
                 /\ http' = [http EXCEPT ![r] = IF ok THEN "ok" ELSE "error"]
            ELSE /\ SetPc(r, IF ok THEN "block" ELSE "cbFailure")
                 /\ UNCHANGED http
  /\ UNCHANGED <<results, lost>>

BlockCommittedIgnoringError(r) ==
  /\ req[r].pc = "block"
  /\ \E ok \in BOOLEAN :
       /\ committed' = IF ok THEN committed \cup {r} ELSE committed
       /\ SetPc(r, "cbSuccess")
  /\ UNCHANGED <<http, results, lost>>

(* The ledger calls updateNodeInternalAsyncAfterBlockchain with the outcome *)
(* of the transaction: without error it awaits callbackToClient(success),  *)
(* with one it throws it to its own catch, which awaits                    *)
(* callbackToClient(failure).                                              *)
BlockCommitted(r) ==
  /\ req[r].pc = "block"
  /\ \E ok \in BOOLEAN :
       /\ committed' = IF ok THEN committed \cup {r} ELSE committed
       /\ SetPc(r, IF ok THEN "cbSuccess" ELSE "cbFailure")
  /\ UNCHANGED <<http, results, lost>>

(* callbackToClient resolves: the engine holds the result.  The function   *)
(* awaiting it then ends, rethrowing the error it caught if it was a       *)
(* failure.                                                                 *)
CallbackAccepted(r) ==
  /\ req[r].pc \in {"cbSuccess", "cbFailure"}
  /\ results' = results \cup {<<r, req[r].pc = "cbSuccess">>}
  /\ SetPc(r, "done")
  /\ UNCHANGED <<http, committed, lost>>

CallbackRejectedNoFailureResult(r) ==
  /\ req[r].pc \in {"cbSuccess", "cbFailure"}
  /\ SetPc(r, "done")
  /\ lost' = IF req[r].pc = "cbFailure" THEN lost \cup {r} ELSE lost
  /\ UNCHANGED <<http, committed, results>>

(* callbackToClient rejects (its record write failed).  A success result   *)
(* throws into the catch of ...AfterBlockchain, which tries a failure      *)
(* result; a failure result's rejection escapes the catch and nothing more *)
(* is sent.                                                                 *)
CallbackRejected(r) ==
  /\ req[r].pc \in {"cbSuccess", "cbFailure"}
  /\ SetPc(r, IF req[r].pc = "cbSuccess" THEN "cbFailure" ELSE "done")
  /\ lost' = IF req[r].pc = "cbFailure" THEN lost \cup {r} ELSE lost
  /\ UNCHANGED <<http, committed, results>>

Next ==
  \E r \in Refs :
    \/ UpdateNode(r)
    \/ NodeInfoReturned(r)
    \/ TransactSettled(r)
    \/ BlockCommitted(r)
    \/ CallbackAccepted(r)
    \/ CallbackRejected(r)

(* The ledger and the callback engine answer every call.  Clients are free *)
(* not to call.                                                             *)
Fairness ==
  \A r \in Refs :
    /\ WF_vars(NodeInfoReturned(r)) /\ WF_vars(TransactSettled(r))
    /\ WF_vars(BlockCommitted(r))
    /\ WF_vars(CallbackAccepted(r) \/ CallbackRejected(r))

Spec == Init /\ [][Next]_vars
FairSpec == Spec /\ Fairness

-----------------------------------------------------------------------------
(* Properties.                                                             *)

(* The node reports a successful update only for one that took effect on  *)
(* the ledger: an update_node_result with success TRUE, or a synchronous  *)
(* updateNode resolving, implies the transaction committed.  It takes the *)
(* ledger's outcome reaching ...AfterBlockchain and the sync/async split   *)
(* of updateNode and updateNodeInternalAsync.                              *)
NoPrematureSuccess ==
  \A r \in Refs :
    /\ <<r, TRUE>> \in results => r \in committed
    /\ (req[r].sync /\ http[r] = "ok") => r \in committed

(* Every asynchronous update submitted to the ledger ends with a result   *)
(* held by the callback engine, unless the engine refused the failure     *)
(* result too: the after-blockchain call and every catch hand a result     *)
(* over, through a ledger failure, a rejected transaction or a rejected   *)
(* success result.                                                         *)
SubmittedAnswered ==
  \A r \in Refs :
    (req[r].pc = "transact" /\ ~req[r].sync)
      ~> (\E b \in BOOLEAN : <<r, b>> \in results) \/ r \in lost
=============================================================================
