--------------------------- MODULE WorkerRegistry ---------------------------
(***************************************************************************)
(* The worker registry: one JSON file per worker, an index of token        *)
(* hashes, a cache of verified tokens in the server's memory.  Every       *)
(* handler reads the whole file, changes a field and writes the whole file *)
(* back, without a lock, and several handlers run at once.  The worker     *)
(* process answers a refused claim by registering under a new id.          *)
(***************************************************************************)
EXTENDS Integers, FiniteSets

CONSTANTS
  WorkerIds,  \* ids registrations are given, 1 first
  RequestThreads,    \* request threads of the server
  MaxAdmin    \* bound on an administrator's requests

ASSUME WorkerIdsAssumption == WorkerIds \subseteq Nat /\ 1 \in WorkerIds
ASSUME ThreadsAssumption == IsFiniteSet(RequestThreads)
ASSUME MaxAdminAssumption == MaxAdmin \in Nat

VARIABLES
  workerFile,  \* [WorkerIds -> Registration \cup Unreadable]
  tokenRows,   \* table worker_tokens: the token a worker id's row holds
  tokenCache,  \* _TOKEN_CACHE: the tokens verified within the last minute
  calls,       \* calls[p]: the handler in thread p
  client,      \* the id and token the worker process holds
  clientState, \* "polling", or "registering" after a refused claim
  granted,     \* what an administrator was last told of an id (history)
  issued,      \* how many tokens an id was given, 0 before it registers
  requested,   \* how many requests administrators have made
  raced        \* ids whose administration another handler overlapped (history)

registryVars == <<workerFile, tokenRows, tokenCache, calls, client,
                  clientState, granted, issued,
                  requested, raced>>
registryFiles == <<workerFile, tokenRows, tokenCache>>
workerProcess == <<client, clientState>>
grants == <<granted, issued, requested>>

(* A token is the n-th one its worker id was given; a token that was never *)
(* issued is 0.  A file is "gone" before its creation and after its        *)
(* deletion, and "torn" while, or for ever if, it has been truncated only. *)
TokenNumbers == 0..(MaxAdmin + 1)
Token == [id : WorkerIds, n : TokenNumbers]
Registration == [kind : {"whole"}, token : TokenNumbers, enabled : BOOLEAN]
Gone == [kind |-> "gone"]
Torn == [kind |-> "torn"]
Unreadable == {Gone, Torn}
Usable(id) == workerFile[id] \notin Unreadable /\ workerFile[id].enabled

WorkerOps == {"claim", "beat"}
EditOps == {"enable", "disable", "rotate", "touch"}
AdminOps == {"enable", "disable", "rotate", "delete"}
CallSteps == {"verify", "remember", "load", "truncate", "write", "index"}
NoCall == [op |-> "none"]
Call == [op : WorkerOps \cup EditOps \cup AdminOps, step : CallSteps,
         token : Token, copy : Registration, adopt : BOOLEAN, linked : BOOLEAN]

Busy(id) ==
  {p \in RequestThreads : calls[p] # NoCall /\ calls[p].token.id = id}
Administered(id) == \E p \in Busy(id) : calls[p].op \in AdminOps
Racing(id) == Administered(id) /\ Cardinality(Busy(id)) > 1

RegistryTypeOK ==
  /\ workerFile \in [WorkerIds -> Registration \cup Unreadable]
  /\ tokenRows \in [WorkerIds -> TokenNumbers]
  /\ tokenCache \subseteq Token
  /\ calls \in [RequestThreads -> Call \cup {NoCall}]
  /\ client \in Token
  /\ clientState \in {"polling", "registering"}
  /\ granted \in [WorkerIds -> Registration \cup {Gone}]
  /\ issued \in [WorkerIds -> TokenNumbers]
  /\ requested \in 0..MaxAdmin
  /\ raced \subseteq WorkerIds

Fresh == [kind |-> "whole", token |-> 1, enabled |-> TRUE]

RegistryInit ==
  /\ workerFile = [id \in WorkerIds |-> IF id = 1 THEN Fresh ELSE Gone]
  /\ tokenRows = [id \in WorkerIds |-> IF id = 1 THEN 1 ELSE 0]
  /\ tokenCache = {}
  /\ calls = [p \in RequestThreads |-> NoCall]
  /\ client = [id |-> 1, n |-> 1]
  /\ clientState = "polling"
  /\ granted = workerFile
  /\ issued = tokenRows
  /\ requested = 0
  /\ raced = {}

CallAt(p, step) == calls[p] # NoCall /\ calls[p].step = step
SetCall(p, call) == calls' = [calls EXCEPT ![p] = call]
CallGoes(p, step) == calls' = [calls EXCEPT ![p].step = step]
Answer(p) == SetCall(p, NoCall)

-----------------------------------------------------------------------------
(* The worker's requests.  It may send one before another has returned:    *)
(* its loop gives up on a call after some seconds, and every run reports   *)
(* from a goroutine of its own.                                            *)

SendWorkerCall(p, op) ==
  /\ calls[p] = NoCall
  /\ clientState = "polling"
  /\ SetCall(p, [op |-> op, step |-> "verify", token |-> client,
                copy |-> Fresh, adopt |-> FALSE, linked |-> TRUE])
  /\ UNCHANGED <<registryFiles, workerProcess, grants>>

(* verify_token: a cached token is only asked for its file, then the index *)
(* is searched, then every worker file.                                    *)
InCache(t) == t \in tokenCache /\ Usable(t.id)
InRows(t) == tokenRows[t.id] = t.n /\ Usable(t.id)
InFile(t) == Usable(t.id) /\ workerFile[t.id].token = t.n
Accepted(t) == InCache(t) \/ InRows(t) \/ InFile(t)

Verify(p) ==
  LET t == calls[p].token IN
  /\ CallAt(p, "verify")
  /\ Accepted(t)
  /\ calls' = [calls EXCEPT
                 ![p].step = IF InCache(t) THEN "load" ELSE "remember",
                 ![p].adopt = ~InCache(t) /\ ~InRows(t)]
  /\ UNCHANGED <<registryFiles, workerProcess, grants>>

(* Mutant: a refused claim is only logged.                                 *)
RefuseLogged(p) ==
  LET t == calls[p].token IN
  /\ CallAt(p, "verify")
  /\ ~Accepted(t)
  /\ tokenCache' = tokenCache \ {t}
  /\ Answer(p)
  /\ UNCHANGED <<workerFile, tokenRows, workerProcess, grants>>
(* A 401 makes the loop register again when it answers a claim; a failed   *)
(* heartbeat is only logged.                                               *)
Refuse(p) ==
  LET t == calls[p].token IN
  /\ CallAt(p, "verify")
  /\ ~Accepted(t)
  /\ tokenCache' = tokenCache \ {t}
  /\ \E delivered \in BOOLEAN :
       clientState' = IF delivered /\ calls[p].op = "claim"
                      THEN "registering" ELSE clientState
  /\ Answer(p)
  /\ UNCHANGED <<workerFile, tokenRows, client, grants>>

(* A handler that has read the file and will write back its copy.          *)
Save(op, id, copy) ==
  [op |-> op, step |-> "truncate", token |-> [id |-> id, n |-> 0],
   copy |-> copy, adopt |-> FALSE, linked |-> TRUE]

(* What verify_token has found is remembered when other handlers may have  *)
(* changed it: a token found in a file also replaces the row of the index. *)
Remember(p) ==
  LET t == calls[p].token IN
  /\ CallAt(p, "remember")
  /\ tokenCache' = tokenCache \cup {t}
  /\ tokenRows' = IF calls[p].adopt THEN [tokenRows EXCEPT ![t.id] = t.n]
                  ELSE tokenRows
  /\ calls' = [calls EXCEPT ![p].step = "load", ![p].adopt = FALSE]
  /\ UNCHANGED <<workerFile, workerProcess, grants>>

(* update_worker_heartbeat reads the file again; it writes nothing when    *)
(* the last write is recent.                                               *)
LoadForBeat(p) ==
  LET id == calls[p].token.id IN
  /\ CallAt(p, "load")
  /\ \/ Answer(p)
     \/ /\ workerFile[id] \notin Unreadable
        /\ SetCall(p, Save("touch", id, workerFile[id]))
  /\ UNCHANGED <<registryFiles, workerProcess, grants>>

Register ==
  /\ clientState = "registering"
  /\ clientState' = "polling"
  /\ \E id \in WorkerIds :
       /\ issued[id] = 0
       /\ \A j \in WorkerIds : j < id => issued[j] > 0
       /\ issued' = [issued EXCEPT ![id] = 1]
       /\ workerFile' = [workerFile EXCEPT ![id] = Fresh]
       /\ tokenRows' = [tokenRows EXCEPT ![id] = 1]
       /\ granted' = [granted EXCEPT ![id] = Fresh]
       /\ \E delivered \in BOOLEAN :
            client' = IF delivered THEN [id |-> id, n |-> 1] ELSE client
  /\ UNCHANGED <<tokenCache, calls, requested>>

-----------------------------------------------------------------------------
(* The administrator's requests.                                           *)

(* enable, disable, rotate-token, and "touch" for the handlers that change *)
(* a field not modelled: a worker's edit, a request for system info and    *)
(* the info itself.                                                        *)
Edited(op, id) ==
  [workerFile[id] EXCEPT
     !.enabled = IF op \in {"enable", "disable"} THEN op = "enable" ELSE @,
     !.token = IF op = "rotate" THEN issued[id] + 1 ELSE @]

SendEdit(p, op, id) ==
  /\ calls[p] = NoCall
  /\ workerFile[id] \notin Unreadable
  /\ op # "touch" => requested < MaxAdmin
  /\ issued' = IF op = "rotate" THEN [issued EXCEPT ![id] = @ + 1] ELSE issued
  /\ requested' = IF op = "touch" THEN requested ELSE requested + 1
  /\ SetCall(p, Save(op, id, Edited(op, id)))
  /\ UNCHANGED <<registryFiles, workerProcess, granted>>

(* delete_worker unlinks the file, whatever it holds: who has it open goes *)
(* on writing to a file that no path names.                                *)
SendDelete(p, id) ==
  /\ calls[p] = NoCall
  /\ workerFile[id] # Gone
  /\ requested < MaxAdmin
  /\ requested' = requested + 1
  /\ workerFile' = [workerFile EXCEPT ![id] = Gone]
  /\ calls' = [q \in RequestThreads |->
       IF q = p THEN [Save("delete", id, Fresh) EXCEPT !.step = "index"]
       ELSE IF q \in Busy(id) /\ calls[q].step = "write"
       THEN [calls[q] EXCEPT !.linked = FALSE]
       ELSE calls[q]]
  /\ UNCHANGED <<tokenRows, tokenCache, workerProcess, granted, issued>>

-----------------------------------------------------------------------------
(* save_worker: open(..., "w") truncates or creates, the dump follows.     *)

TruncateFile(p) ==
  /\ CallAt(p, "truncate")
  /\ workerFile' = [workerFile EXCEPT ![calls[p].token.id] = Torn]
  /\ calls' = [calls EXCEPT ![p].step = "write", ![p].linked = TRUE]
  /\ UNCHANGED <<tokenRows, tokenCache, workerProcess, grants>>

(* Over the dump of another writer that came since, a shorter one leaves   *)
(* a tail behind.                                                          *)
Dumped(p) ==
  LET old == workerFile[calls[p].token.id] IN
  IF ~calls[p].linked THEN {old}
  ELSE IF old = Torn THEN {calls[p].copy} ELSE {calls[p].copy, Torn}

WriteFile(p) ==
  LET id == calls[p].token.id
      op == calls[p].op IN
  /\ CallAt(p, "write")
  /\ \E content \in Dumped(p) :
       workerFile' = [workerFile EXCEPT ![id] = content]
  /\ IF op = "rotate" THEN CallGoes(p, "index") ELSE Answer(p)
  /\ granted' = IF op \in {"enable", "disable"}
                THEN [granted EXCEPT ![id] = calls[p].copy] ELSE granted
  /\ UNCHANGED <<tokenRows, tokenCache, workerProcess, issued, requested>>

(* The end of a rotation and of a deletion: the row, then the cache.       *)
SetRow(p, id, rotated) ==
  /\ tokenRows' =
       [tokenRows EXCEPT ![id] = IF rotated THEN calls[p].copy.token ELSE 0]
  /\ granted' =
       [granted EXCEPT ![id] = IF rotated THEN calls[p].copy ELSE Gone]
(* Mutant: the cache is left to expire.                                    *)
UpdateIndexOnly(p) ==
  /\ CallAt(p, "index")
  /\ SetRow(p, calls[p].token.id, calls[p].op = "rotate")
  /\ Answer(p)
  /\ UNCHANGED <<workerFile, tokenCache, workerProcess, issued, requested>>
UpdateIndex(p) ==
  /\ CallAt(p, "index")
  /\ SetRow(p, calls[p].token.id, calls[p].op = "rotate")
  /\ tokenCache' = {t \in tokenCache : t.id # calls[p].token.id}
  /\ Answer(p)
  /\ UNCHANGED <<workerFile, workerProcess, issued, requested>>

-----------------------------------------------------------------------------
CacheExpires(t) ==
  /\ t \in tokenCache
  /\ tokenCache' = tokenCache \ {t}
  /\ UNCHANGED <<workerFile, tokenRows, calls, workerProcess, grants>>

(* The server stops and starts again: files and rows stay as they are.     *)
ServerRestart ==
  /\ calls' = [p \in RequestThreads |-> NoCall]
  /\ tokenCache' = {}
  /\ raced' = raced \cup {id \in WorkerIds : Administered(id)}
  /\ UNCHANGED <<workerFile, tokenRows, workerProcess, grants>>

WorkerStep(p) ==
  \/ Verify(p) \/ Refuse(p) \/ Remember(p) \/ LoadForBeat(p)
FileStep(p) == TruncateFile(p) \/ WriteFile(p) \/ UpdateIndex(p)
HandlerStep ==
  \/ \E p \in RequestThreads :
       \/ \E op \in WorkerOps : SendWorkerCall(p, op)
       \/ WorkerStep(p)
       \/ FileStep(p)
       \/ \E id \in WorkerIds :
            \/ \E op \in EditOps : SendEdit(p, op, id)
            \/ SendDelete(p, id)
  \/ Register
  \/ \E t \in tokenCache : CacheExpires(t)

(* Who administers an id while another handler works on it may see the     *)
(* change undone: raced remembers where that has happened.                 *)
NotingRaces(A) == A /\ raced' = raced \cup {id \in WorkerIds : Racing(id)'}

RegistryNext == NotingRaces(HandlerStep) \/ ServerRestart

RegistrySpec == RegistryInit /\ [][RegistryNext]_registryVars

-----------------------------------------------------------------------------
(* An administrator's change that no other handler overlapped lasts:       *)
(* whatever heartbeats, claims and registrations did since, the file says  *)
(* what the administrator was told, and no token but the last one issued   *)
(* is accepted, from the cache, the index or the file; a deleted worker    *)
(* stays deleted.                                                          *)
AdminHasTheLastWord ==
  \A id \in WorkerIds \ raced : ~Administered(id) =>
    /\ workerFile[id] \in Registration => workerFile[id] = granted[id]
    /\ \A n \in TokenNumbers : Accepted([id |-> id, n |-> n]) => n = issued[id]

(* The loop claims, threads run their handlers, and some refusal and some  *)
(* registration reaches the worker: what is lost is tried again.           *)
RefuseClaim(p) == Refuse(p) /\ clientState' = "registering"
RegisterAnswered == Register /\ client' # client
RegistryFairness ==
  /\ \A p \in RequestThreads :
       WF_registryVars(NotingRaces(WorkerStep(p) \/ FileStep(p)))
  /\ SF_registryVars(NotingRaces(
       \E p \in RequestThreads : SendWorkerCall(p, "claim")))
  /\ SF_registryVars(NotingRaces(\E p \in RequestThreads : RefuseClaim(p)))
  /\ SF_registryVars(NotingRaces(RegisterAnswered))

(* A worker whose token is refused, by a disabled, deleted or unreadable   *)
(* file, comes back: when administration and restarts end, and ids do not  *)
(* run out, its token is accepted again and again.                         *)
RegistryUndisturbed ==
  <>[][ /\ ~\E id \in WorkerIds : Administered(id)'
        /\ ~ServerRestart ]_registryVars
IdsLast ==
  [](clientState = "registering" => \E id \in WorkerIds : issued[id] = 0)
SessionRecovers == RegistryUndisturbed /\ IdsLast => []<>Accepted(client)
=============================================================================
