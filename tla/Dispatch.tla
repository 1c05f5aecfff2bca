------------------------------ MODULE Dispatch ------------------------------
(***************************************************************************)
(* The execution dispatcher: the record files, the SQLite index over them, *)
(* the Flask handlers that read and write both, and the Go workers that    *)
(* claim, run and report executions over HTTP.                             *)
(*                                                                         *)
(* A handler is one atomic step here, except the claim: it counts the      *)
(* worker's index rows and writes the record under that record's lock, and *)
(* adds the row afterwards, so claims of one worker for different runs     *)
(* overlap.  RecordStore refines the windows inside the other handlers.    *)
(* Interleaved are the workers' processes, requests and replies that are   *)
(* late or lost, crashes, users, and the recovery thread.                  *)
(***************************************************************************)
EXTENDS ExecutionStatus, Integers, FiniteSets

CONSTANTS
  Runs,        \* execution ids, numbered in the order they are queued
  Workers,     \* registered worker ids, one process each
  NoWorker,    \* the record has no workerId
  Slots,       \* WORKER_MAX_CONCURRENCY
  QueueLimit,  \* list_queued's limit, 50 in the code
  CanRun,      \* CanRun[r]: the workers that meet r's requirements
  Posts,       \* what POST /api/executions may ask for: status and workerId
  Tofu,        \* the runs of execution_type TOFU_RUN
  LateLimit    \* abandoned claims of a worker the network may still hold

ASSUME RunsAssumption == Runs \subseteq Nat /\ IsFiniteSet(Runs)
ASSUME WorkersAssumption == NoWorker \notin Workers
ASSUME SlotsAssumption == Slots \in Nat \ {0} /\ QueueLimit \in Nat \ {0}
ASSUME CanRunAssumption == CanRun \in [Runs -> SUBSET Workers]
ASSUME PostsAssumption ==
  Posts \subseteq [status : {"QUEUED", "RUNNING"}, worker : Workers \cup {NoWorker}]
ASSUME TofuAssumption == Tofu \subseteq Runs
ASSUME LateLimitAssumption == LateLimit \in [Workers -> Nat]

VARIABLES
  status,      \* [Runs -> Statuses \cup Absent], the record file
  owner,       \* the record's workerId
  verdictBy,   \* who concluded the record: its error or cancelReason
  queuedIdx,   \* table queued_executions
  runningIdx,  \* table running_executions: run -> worker_id
  serverUp,
  claim,       \* claim[r]: how far the claim that was given r has come
  atOnce,      \* the most claims of w that held a record at once (history)
  workerUp,
  job,         \* job[w][r]: what w's goroutine for r is doing
  launches,    \* launches[r][w]: how often w has started r's process (history)
  finishes,    \* finish requests sent and not yet handled
  lateClaims   \* lateClaims[w]: abandoned claims of w not yet handled

records == <<status, owner, verdictBy>>
index == <<queuedIdx, runningIdx>>
handlers == <<claim, atOnce>>
workers == <<workerUp, job, launches>>
network == <<finishes, lateClaims>>
vars == <<records, index, serverUp, handlers, workers, network>>

(* The claim handler's progress with a run: not claimed; record written    *)
(* and still locked while the worker waits for the reply, or no longer     *)
(* does; replied to, or cut off by a crash.                                *)
ClaimStages == {"no", "awaited", "late", "done"}
Locked(r) == claim[r] \in {"awaited", "late"}

(* A goroutine holds its slot from the claim to the finish call's return:  *)
(*   offered   the claim's reply is on its way                             *)
(*   live      the ansible process runs                                    *)
(*   stopping  SIGTERM was sent, the grace period runs                     *)
(*   awaiting  the process is gone, the finish call has not returned       *)
JobStates == {"idle", "offered", "live", "stopping", "awaiting"}
Executing(w, r) == job[w][r] \in {"live", "stopping"}

(* "orphaned" is the self-heal's verdict in a claim the worker waits for,  *)
(* "orphanedLate" the same verdict in a claim the worker gave up on.       *)
Verdicts == {"none", "user", "timeout", "orphaned", "orphanedLate", "worker"}
Finish == [run : Runs, worker : Workers, status : FINAL_STATUSES]

TypeOK ==
  /\ status \in [Runs -> Statuses \cup Absent]
  /\ owner \in [Runs -> Workers \cup {NoWorker}]
  /\ verdictBy \in [Runs -> Verdicts]
  /\ queuedIdx \subseteq Runs
  /\ runningIdx \in [Runs -> Workers \cup {NoWorker}]
  /\ serverUp \in BOOLEAN
  /\ claim \in [Runs -> ClaimStages]
  /\ atOnce \in [Workers -> Nat]
  /\ workerUp \in [Workers -> BOOLEAN]
  /\ job \in [Workers -> [Runs -> JobStates]]
  /\ launches \in [Runs -> [Workers -> Nat]]
  /\ finishes \subseteq Finish
  /\ lateClaims \in [Workers -> Nat]

Init ==
  /\ status = [r \in Runs |-> "NONE"]
  /\ owner = [r \in Runs |-> NoWorker]
  /\ verdictBy = [r \in Runs |-> "none"]
  /\ queuedIdx = {}
  /\ runningIdx = [r \in Runs |-> NoWorker]
  /\ serverUp = TRUE
  /\ claim = [r \in Runs |-> "no"]
  /\ atOnce = [w \in Workers |-> 0]
  /\ workerUp = [w \in Workers |-> TRUE]
  /\ job = [w \in Workers |-> [r \in Runs |-> "idle"]]
  /\ launches = [r \in Runs |-> [w \in Workers |-> 0]]
  /\ finishes = {}
  /\ lateClaims = [w \in Workers |-> 0]

(* The server's death ends the claim handlers that are under way.          *)
Interrupted == [r \in Runs |-> IF Locked(r) THEN "done" ELSE claim[r]]

-----------------------------------------------------------------------------
(* Users and the console.                                                  *)

(* create_execution_record writes the file, with the initial status and    *)
(* the workerId the request may name, then indexes it.  A crash between    *)
(* the two leaves a record that no index row names.                        *)
Create(r, post, crashed) ==
  /\ serverUp
  /\ status[r] = "NONE"
  /\ \A q \in Runs : q < r => status[q] # "NONE"
  /\ status' = [status EXCEPT ![r] = post.status]
  /\ owner' = [owner EXCEPT ![r] = post.worker]
  /\ serverUp' = ~crashed
  /\ queuedIdx' = IF post.status = "QUEUED" /\ ~crashed
                  THEN queuedIdx \cup {r} ELSE queuedIdx
  /\ runningIdx' = IF post.status = "RUNNING" /\ ~crashed
                   THEN [runningIdx EXCEPT ![r] = post.worker] ELSE runningIdx
  /\ claim' = IF crashed THEN Interrupted ELSE claim
  /\ UNCHANGED <<verdictBy, atOnce, workers, network>>

(* api_cancel_execution writes the file only: the queue row stays.         *)
Cancel(r) ==
  /\ serverUp
  /\ status[r] = "QUEUED"
  /\ status' = [status EXCEPT ![r] = "CANCELED"]
  /\ verdictBy' = [verdictBy EXCEPT ![r] = "user"]
  /\ UNCHANGED <<owner, index, serverUp, handlers, workers, network>>

(* api_stop_execution writes the file only, once it has the record's lock: *)
(* the running row stays.                                                  *)
Stop(r) ==
  /\ serverUp
  /\ status[r] = "RUNNING"
  /\ ~Locked(r)
  /\ status' = [status EXCEPT ![r] = "CANCELING"]
  /\ UNCHANGED <<owner, verdictBy, index, serverUp, handlers, workers, network>>

(* delete_execution, as the delete and clear endpoints and the retention   *)
(* policy call it: whatever the record's status, and without the index.    *)
Delete(r) ==
  /\ serverUp
  /\ status[r] \in Statuses
  /\ status' = [status EXCEPT ![r] = "GONE"]
  /\ UNCHANGED <<owner, verdictBy, index, serverUp, handlers, workers, network>>

(* update_execution_record's last part: the index follows the new record.  *)
SyncIndex(r, to) ==
  /\ queuedIdx' = IF to = "QUEUED" THEN queuedIdx \cup {r} ELSE queuedIdx \ {r}
  /\ runningIdx' = [runningIdx EXCEPT
                      ![r] = IF to = "RUNNING" THEN owner[r] ELSE NoWorker]

(* PATCH /api/executions/<id>: any user may set any legal next status.     *)
Patch(r, to) ==
  /\ serverUp
  /\ status[r] \in Statuses
  /\ ValidTransition(status[r], to)
  /\ status' = [status EXCEPT ![r] = to]
  /\ verdictBy' = IF status[r] # to /\ to \in FINAL_STATUSES
                  THEN [verdictBy EXCEPT ![r] = "user"] ELSE verdictBy
  /\ SyncIndex(r, to)
  /\ UNCHANGED <<owner, serverUp, handlers, workers, network>>

-----------------------------------------------------------------------------
(* The claim handler.                                                      *)

Rows(w) == {r \in Runs : runningIdx[r] = w}
AtCap(w) == Cardinality(Rows(w)) >= Slots

(* prune_stale_running_for_worker(current_execution_id = None,             *)
(* mark_orphaned_failed = True): every row of w goes, and a record that    *)
(* really is running on w is declared the orphan of a restart.             *)
Orphans(w) ==
  {r \in Rows(w) : status[r] = "RUNNING" /\ owner[r] \in {w, NoWorker}}

(* The records and running rows as the concurrency check leaves them.      *)
(* Mutant: the heal drops the rows but leaves the records running.         *)
HealedStatusKept(w) == status
HealedStatus(w) ==
  [r \in Runs |-> IF AtCap(w) /\ r \in Orphans(w) THEN "FAILED" ELSE status[r]]
HealedVerdicts(w, verdict) ==
  [r \in Runs |-> IF AtCap(w) /\ r \in Orphans(w) THEN verdict ELSE verdictBy[r]]
(* Mutant: the heal fails the records but keeps their rows.                *)
HealedRowsKept(w) == runningIdx
HealedRows(w) ==
  [r \in Runs |-> IF AtCap(w) /\ r \in Rows(w) THEN NoWorker ELSE runningIdx[r]]

(* The second count, which sends the worker away.                          *)
StillFull(w) == Cardinality({r \in Runs : HealedRows(w)[r] = w}) >= Slots

(* list_queued: the QueueLimit oldest queue rows.                          *)
Listed == {r \in queuedIdx : Cardinality({q \in queuedIdx : q < r}) < QueueLimit}

(* Mutant: a claim assigns what a queue row names, whatever its status.    *)
ClaimableUnchecked(w) == {r \in Runs : status[r] \in Statuses /\ w \in CanRun[r]}

Claimable(w) == {r \in Runs : status[r] = "QUEUED" /\ w \in CanRun[r]}

(* The queue rows kept, and the candidates read: from the index, whose     *)
(* stale rows are dropped on the way unless another claim has their record *)
(* locked, or, when that yields nothing and the scan interval has elapsed, *)
(* from the files, which are indexed again.                                *)
KeptRows == queuedIdx \ {r \in Listed : status[r] # "QUEUED" /\ ~Locked(r)}
FromIndex(w) == Listed \cap Claimable(w)
Scan(w, scanDue) == scanDue /\ FromIndex(w) = {}
Candidates(w, scanDue) ==
  IF Scan(w, scanDue) THEN Claimable(w) ELSE FromIndex(w)
QueueRows(w, scanDue) ==
  IF Scan(w, scanDue)
  THEN KeptRows \cup {r \in Runs : status[r] = "QUEUED"} ELSE KeptRows

IsOldest(r, S) == r \in S /\ \A q \in S : r <= q

(* server_claim_next_execution finds nothing for w.                        *)
ClaimNothing(w, scanDue, verdict) ==
  /\ StillFull(w) \/ Candidates(w, scanDue) = {}
  /\ status' = HealedStatus(w)
  /\ verdictBy' = HealedVerdicts(w, verdict)
  /\ runningIdx' = HealedRows(w)
  /\ queuedIdx' = IF StillFull(w) THEN queuedIdx ELSE QueueRows(w, scanDue)
  /\ UNCHANGED <<owner, handlers>>

(* It takes the oldest candidate: the count, which it repeats under the    *)
(* record's lock, then the record.  The worker's row comes later, so the   *)
(* counts of other claims of w do not see this one yet.                    *)
Open(w) == {r \in Runs : Locked(r) /\ owner[r] = w}
Greater(m, n) == IF m < n THEN n ELSE m

ClaimRun(w, r, scanDue, verdict, stage) ==
  /\ ~StillFull(w)
  /\ IsOldest(r, Candidates(w, scanDue))
  /\ status' = [HealedStatus(w) EXCEPT ![r] = "RUNNING"]
  /\ owner' = [owner EXCEPT ![r] = w]
  /\ verdictBy' = HealedVerdicts(w, verdict)
  /\ runningIdx' = HealedRows(w)
  /\ queuedIdx' = QueueRows(w, scanDue)
  /\ claim' = [claim EXCEPT ![r] = stage]
  /\ atOnce' = [atOnce EXCEPT ![w] = Greater(@, Cardinality(Open(w)) + 1)]

(* mark_running_execution, whatever has become of the record meanwhile,    *)
(* and the reply.                                                          *)
FinishClaim(w, r) ==
  /\ serverUp
  /\ r \in Open(w)
  /\ runningIdx' = [runningIdx EXCEPT ![r] = w]
  /\ queuedIdx' = queuedIdx \ {r}
  /\ claim' = [claim EXCEPT ![r] = "done"]
  /\ job' = IF claim[r] = "awaited" THEN [job EXCEPT ![w][r] = "offered"] ELSE job
  /\ UNCHANGED <<records, serverUp, atOnce, workerUp, launches, network>>

(* The worker loop asks only when a slot is free, and blocks on the reply. *)
Busy(w) == {r \in Runs : job[w][r] # "idle"}
Blocked(w) == \E r \in Runs :
  job[w][r] = "offered" \/ (claim[r] = "awaited" /\ owner[r] = w)
(* Mutant: the semaphore admits one goroutine too many.                    *)
MayClaimOneMore(w) ==
  /\ workerUp[w]
  /\ Cardinality(Busy(w)) <= Slots
  /\ ~Blocked(w)
MayClaim(w) ==
  /\ workerUp[w]
  /\ Cardinality(Busy(w)) < Slots
  /\ ~Blocked(w)

(* api_worker_claim, handled while the worker waits.                       *)
PollEmpty(w, scanDue) ==
  /\ serverUp
  /\ MayClaim(w)
  /\ ClaimNothing(w, scanDue, "orphaned")
  /\ UNCHANGED <<serverUp, workers, network>>

Claim(w, r, scanDue) ==
  /\ serverUp
  /\ MayClaim(w)
  /\ ClaimRun(w, r, scanDue, "orphaned", "awaited")
  /\ UNCHANGED <<serverUp, workers, network>>

(* The client's ten-second timeout expires first, so the loop goes on      *)
(* while the request is still on its way to the server, or while the       *)
(* server is in the middle of it.                                          *)
AbandonClaim(w) ==
  /\ MayClaim(w)
  /\ lateClaims[w] < LateLimit[w]
  /\ lateClaims' = [lateClaims EXCEPT ![w] = @ + 1]
  /\ UNCHANGED <<records, index, serverUp, handlers, workers, finishes>>

GivenUp(w) ==
  [r \in Runs |-> IF claim[r] = "awaited" /\ owner[r] = w THEN "late" ELSE claim[r]]

AbandonReply(w) ==
  /\ LateLimit[w] > 0
  /\ \E r \in Runs : claim[r] = "awaited" /\ owner[r] = w
  /\ claim' = GivenUp(w)
  /\ UNCHANGED <<records, index, serverUp, atOnce, workers, network>>

LateClaim(w, scanDue) ==
  /\ serverUp
  /\ lateClaims[w] > 0
  /\ lateClaims' = [lateClaims EXCEPT ![w] = @ - 1]
  /\ \/ ClaimNothing(w, scanDue, "orphanedLate")
     \/ \E r \in Runs : ClaimRun(w, r, scanDue, "orphanedLate", "late")
  /\ UNCHANGED <<serverUp, workers, finishes>>

-----------------------------------------------------------------------------
(* The worker's goroutine for a run: execute.Run.                          *)

Launch(w, r) ==
  /\ job[w][r] = "offered"
  /\ job' = [job EXCEPT ![w][r] = "live"]
  /\ launches' = [launches EXCEPT ![r][w] = @ + 1]
  /\ UNCHANGED <<records, index, serverUp, handlers, workerUp, network>>

(* The claim's reply is lost: the server has assigned the run, the worker  *)
(* frees the slot and will never run it.                                   *)
LoseOffer(w, r) ==
  /\ job[w][r] = "offered"
  /\ job' = [job EXCEPT ![w][r] = "idle"]
  /\ UNCHANGED <<records, index, serverUp, handlers, workerUp, launches, network>>

(* The two-second status poll sees CANCELING, or, for tofu, CANCELED as    *)
(* well: SIGTERM, then the grace period, during which no one polls.        *)
PollCanceling(w, r) ==
  /\ serverUp
  /\ job[w][r] = "live"
  /\ status[r] = "CANCELING" \/ (r \in Tofu /\ status[r] = "CANCELED")
  /\ job' = [job EXCEPT ![w][r] = "stopping"]
  /\ UNCHANGED <<records, index, serverUp, handlers, workerUp, launches, network>>

(* What the deferred FinishExecution reports once the process is gone: the *)
(* final status the server already has, if executePlaybook's last status   *)
(* check sees one; executeTofuRun makes no such check.                     *)
(* Mutant: it forwards any status the check returned.                      *)
ReportAsSeen(w, r, rcZero, seen) ==
  IF seen THEN status[r] ELSE IF rcZero THEN "SUCCESS" ELSE "FAILED"
Report(w, r, rcZero, seen) ==
  IF seen /\ r \notin Tofu /\ status[r] \in FINAL_STATUSES THEN status[r]
  ELSE IF job[w][r] = "stopping" THEN "CANCELED"
  ELSE IF rcZero THEN "SUCCESS" ELSE "FAILED"

SendFinish(w, r, rcZero, seen) ==
  /\ seen => serverUp
  /\ job' = [job EXCEPT ![w][r] = "awaiting"]
  /\ finishes' = finishes \cup
       {[run |-> r, worker |-> w, status |-> Report(w, r, rcZero, seen)]}
  /\ UNCHANGED <<records, index, serverUp, handlers, workerUp, launches, lateClaims>>

(* The process ends by itself, or within or after the grace period.        *)
Exit(w, r, rcZero, seen) ==
  /\ Executing(w, r)
  /\ SendFinish(w, r, rcZero, seen)

(* Mutant: executePlaybook, like executeTofuRun, does not look for FAILED. *)
KillCanceled(w, r, seen) ==
  /\ serverUp
  /\ r \notin Tofu
  /\ job[w][r] = "live"
  /\ status[r] = "CANCELED"
  /\ SendFinish(w, r, FALSE, seen)

(* executePlaybook's poll sees a final status: SIGKILL.  Nothing tells a   *)
(* tofu process that its record was concluded as FAILED or SUCCESS.        *)
KillFinalized(w, r, seen) ==
  /\ serverUp
  /\ r \notin Tofu
  /\ job[w][r] = "live"
  /\ status[r] \in FINAL_STATUSES
  /\ SendFinish(w, r, FALSE, seen)

(* The finish call times out; its request may still arrive.                *)
GiveUpFinish(w, r) ==
  /\ job[w][r] = "awaiting"
  /\ job' = [job EXCEPT ![w][r] = "idle"]
  /\ UNCHANGED <<records, index, serverUp, handlers, workerUp, launches, network>>

LoseFinish(m) ==
  /\ m \in finishes
  /\ job[m.worker][m.run] # "awaiting"
  /\ finishes' = finishes \ {m}
  /\ UNCHANGED <<records, index, serverUp, handlers, workers, lateClaims>>

(* The worker process dies with the processes it started.                  *)
WorkerCrash(w) ==
  /\ workerUp[w]
  /\ workerUp' = [workerUp EXCEPT ![w] = FALSE]
  /\ job' = [job EXCEPT ![w] = [r \in Runs |-> "idle"]]
  /\ claim' = GivenUp(w)
  /\ UNCHANGED <<records, index, serverUp, atOnce, launches, network>>

(* It comes back under the id in its token file.                           *)
WorkerRestart(w) ==
  /\ ~workerUp[w]
  /\ workerUp' = [workerUp EXCEPT ![w] = TRUE]
  /\ UNCHANGED <<records, index, serverUp, handlers, job, launches, network>>

-----------------------------------------------------------------------------
(* The rest of the server.                                                 *)

(* api_worker_execution_finish: 404 without a record, 403 for another      *)
(* worker's, 500 for an illegal transition; otherwise the record, then the *)
(* index, unless the server dies between the two.  Any reply, or the reset *)
(* connection, ends the call and frees the slot.                           *)
(* Mutant: the finish handler writes whatever final status it is sent.     *)
AcceptedUnchecked(m) ==
  /\ status[m.run] \in Statuses
  /\ owner[m.run] \in {m.worker, NoWorker}
Accepted(m) ==
  /\ status[m.run] \in Statuses
  /\ owner[m.run] \in {m.worker, NoWorker}
  /\ ValidTransition(status[m.run], m.status)

HandleFinish(m, crashed) ==
  /\ serverUp
  /\ m \in finishes
  /\ finishes' = finishes \ {m}
  /\ serverUp' = ~crashed
  /\ job' = IF job[m.worker][m.run] = "awaiting"
            THEN [job EXCEPT ![m.worker][m.run] = "idle"] ELSE job
  /\ IF Accepted(m)
     THEN /\ status' = [status EXCEPT ![m.run] = m.status]
          /\ verdictBy' = IF status[m.run] = m.status THEN verdictBy
                          ELSE [verdictBy EXCEPT ![m.run] = "worker"]
          /\ IF crashed THEN UNCHANGED index ELSE SyncIndex(m.run, m.status)
     ELSE UNCHANGED <<status, verdictBy, index>>
  /\ claim' = IF crashed THEN Interrupted ELSE claim
  /\ UNCHANGED <<owner, atOnce, workerUp, launches, lateClaims>>

(* server_recover_stuck_executions: 30 minutes of RUNNING, 5 of CANCELING. *)
(* It writes the file only, if no one has its lock, and never asks the     *)
(* worker.                                                                 *)
RecoverRunning(r) ==
  /\ serverUp
  /\ status[r] = "RUNNING"
  /\ ~Locked(r)
  /\ status' = [status EXCEPT ![r] = "FAILED"]
  /\ verdictBy' = [verdictBy EXCEPT ![r] = "timeout"]
  /\ UNCHANGED <<owner, index, serverUp, handlers, workers, network>>

RecoverCanceling(r) ==
  /\ serverUp
  /\ status[r] = "CANCELING"
  /\ ~Locked(r)
  /\ status' = [status EXCEPT ![r] = "CANCELED"]
  /\ verdictBy' = [verdictBy EXCEPT ![r] = "timeout"]
  /\ UNCHANGED <<owner, index, serverUp, handlers, workers, network>>

ServerCrash ==
  /\ serverUp
  /\ serverUp' = FALSE
  /\ claim' = Interrupted
  /\ UNCHANGED <<records, index, atOnce, workers, network>>

(* backfill_if_empty: queue rows only into an empty table, running rows    *)
(* for the files there are; rows of deleted files stay.                    *)
(* Mutant: a start rebuilds the queue table only.                          *)
ServerStartQueueOnly ==
  /\ ~serverUp
  /\ serverUp' = TRUE
  /\ queuedIdx' = IF queuedIdx = {} THEN {r \in Runs : status[r] = "QUEUED"}
                                    ELSE queuedIdx
  /\ UNCHANGED <<records, runningIdx, handlers, workers, network>>

ServerStart ==
  /\ ~serverUp
  /\ serverUp' = TRUE
  /\ LET running == {r \in Runs : status[r] = "RUNNING" /\ owner[r] # NoWorker}
         queued == IF queuedIdx = {} THEN {r \in Runs : status[r] = "QUEUED"}
                                     ELSE queuedIdx
     IN /\ queuedIdx' = queued \ running
        /\ runningIdx' = [r \in Runs |-> IF r \in running THEN owner[r]
                                         ELSE IF status[r] \in Statuses THEN NoWorker
                                         ELSE runningIdx[r]]
  /\ UNCHANGED <<records, handlers, workers, network>>

-----------------------------------------------------------------------------
UserStep ==
  \E r \in Runs :
    \/ \E post \in Posts, crashed \in BOOLEAN : Create(r, post, crashed)
    \/ Cancel(r)
    \/ Stop(r)
    \/ Delete(r)
    \/ \E to \in Statuses : Patch(r, to)

ClaimStep ==
  \E w \in Workers, scanDue \in BOOLEAN :
    \/ PollEmpty(w, scanDue)
    \/ \E r \in Runs : Claim(w, r, scanDue) \/ FinishClaim(w, r)
    \/ LateClaim(w, scanDue)

WorkerStep ==
  \E w \in Workers :
    \/ AbandonClaim(w)
    \/ AbandonReply(w)
    \/ WorkerCrash(w)
    \/ WorkerRestart(w)
    \/ \E r \in Runs :
         \/ Launch(w, r)
         \/ LoseOffer(w, r)
         \/ PollCanceling(w, r)
         \/ GiveUpFinish(w, r)
         \/ \E rcZero, seen \in BOOLEAN : Exit(w, r, rcZero, seen)
         \/ \E seen \in BOOLEAN : KillFinalized(w, r, seen)

ServerStep ==
  \/ \E m \in finishes :
       \/ \E crashed \in BOOLEAN : HandleFinish(m, crashed)
       \/ LoseFinish(m)
  \/ \E r \in Runs : RecoverRunning(r) \/ RecoverCanceling(r)
  \/ ServerCrash
  \/ ServerStart

Next == UserStep \/ ClaimStep \/ WorkerStep \/ ServerStep

Spec == Init /\ [][Next]_vars

-----------------------------------------------------------------------------
(* What the code's own scheduling keeps doing: the worker loop polls while *)
(* a slot is free and one of its polls comes after the scan interval; the  *)
(* claim handler runs to its end; the monitor polls every two seconds,     *)
(* kills after the grace period and gives up on its requests; the recovery *)
(* thread revisits every record; the container restarts what crashed.      *)
(* Nothing makes an ansible or tofu process end by itself.                 *)
Fairness ==
  /\ \A w \in Workers :
       /\ WF_vars(\E r \in Runs : Claim(w, r, TRUE))
       /\ WF_vars(PollEmpty(w, TRUE))
       /\ WF_vars(WorkerRestart(w))
       /\ \A r \in Runs :
            /\ WF_vars(FinishClaim(w, r))
            /\ WF_vars(Launch(w, r) \/ LoseOffer(w, r))
            /\ WF_vars(PollCanceling(w, r))
            /\ WF_vars(\E seen \in BOOLEAN : KillFinalized(w, r, seen))
            /\ WF_vars(job[w][r] = "stopping" /\ Exit(w, r, FALSE, FALSE))
            /\ WF_vars(GiveUpFinish(w, r))
  /\ \A r \in Runs : WF_vars(RecoverRunning(r)) /\ WF_vars(RecoverCanceling(r))
  /\ WF_vars(ServerStart)

FairSpec == Spec /\ Fairness

-----------------------------------------------------------------------------
(* Every status a record goes through, every claim and every process start *)
(* is one the abstract lifecycle allows: final statuses are final, a run   *)
(* is assigned once and started at most once, by its assignee, through     *)
(* crashes, lost replies and repeated or late finish requests.  A workerId *)
(* that only a POST has named is no assignment.                            *)
Lifecycle == INSTANCE RunLifecycle
  WITH phase <- status,
       runner <- [r \in Runs |-> IF claim[r] = "no" THEN NoWorker ELSE owner[r]]
ImplementsLifecycle == Lifecycle!Spec

(* A worker has a goroutine for a run only while it is the assignee a      *)
(* claim has recorded, an index row never names another worker, and a run  *)
(* not yet claimed, or whose claim is unanswered or just answered, has     *)
(* never been started.  This is what keeps assignments exclusive across    *)
(* crashes and lost replies.                                               *)
AssignmentConsistent ==
  /\ \A r \in Runs : runningIdx[r] \in {owner[r], NoWorker}
  /\ \A w \in Workers, r \in Runs :
       /\ job[w][r] # "idle" => owner[r] = w /\ claim[r] = "done"
       /\ job[w][r] = "offered" => \A v \in Workers : launches[r][v] = 0
  /\ \A r \in Runs :
       /\ status[r] \in {"NONE", "QUEUED"} => claim[r] = "no" /\ runningIdx[r] = NoWorker
       /\ claim[r] # "done" => \A w \in Workers : launches[r][w] = 0
       /\ claim[r] # "no" => owner[r] # NoWorker

(* The concurrency check counts index rows, not records.  A record that is *)
(* RUNNING on w has a row, restored before the first claim after a crash   *)
(* that separated the two, or a claim under way that is about to add it.   *)
(* (A CANCELING record loses its row at a restart, while its process may   *)
(* still hold a slot.)                                                     *)
RunningIsCounted ==
  serverUp => \A r \in Runs :
    status[r] = "RUNNING" /\ owner[r] # NoWorker =>
      runningIdx[r] = owner[r] \/ Locked(r)

(* The running records a worker was given by claims exceed its slots by no *)
(* more than the claims of it that ever were between the count and the row *)
(* at once, less one: claims handled one after the other keep the cap, and *)
(* overlapping claims, late ones included, break it by their number.       *)
RunningOn(w) == {r \in Runs : status[r] = "RUNNING" /\ owner[r] = w /\ claim[r] # "no"}

CapRespected ==
  \A w \in Workers : Cardinality(RunningOn(w)) <= (Slots - 1) + atOnce[w]

(* "Worker restarted before reporting completion", written by a claim its  *)
(* worker waits for, goes only to a record whose process is not running,   *)
(* and stays true of it, if the worker keeps one slot.                     *)
OrphanVerdictSound ==
  \A r \in Runs : verdictBy[r] = "orphaned" =>
    \A w \in Workers : job[w][r] \notin {"offered", "live", "stopping"}

(* The self-heal's comment says it of every claim: "The worker is online   *)
(* and polling for new work, so it is idle."                               *)
ClaimingWorkerIsIdle ==
  \A r \in Runs : verdictBy[r] \in {"orphaned", "orphanedLate"} =>
    \A w \in Workers : job[w][r] \notin {"offered", "live", "stopping"}

(* No poll of the worker can stop the process any more: its record is      *)
(* deleted, or it is a tofu run whose record was concluded as FAILED or    *)
(* SUCCESS under it.                                                       *)
Unreachable(w, r) ==
  /\ job[w][r] = "live"
  /\ status[r] = "GONE" \/ (r \in Tofu /\ status[r] \in {"SUCCESS", "FAILED"})

CrashesStop == <>[](serverUp /\ \A w \in Workers : workerUp[w])
UnreachableEnd == \A w \in Workers, r \in Runs : []<>~Unreachable(w, r)

(* Once crashes stop, a queued run does not wait for ever, although the    *)
(* index may have lost its row, a worker that could run it may be counted  *)
(* as full because of rows nobody will finish, and only the processes no   *)
(* poll can stop end by themselves.                                        *)
QueueDrains ==
  CrashesStop /\ UnreachableEnd => \A r \in Runs :
    status[r] = "QUEUED" /\ CanRun[r] # {} ~> status[r] # "QUEUED"

(* A goroutine comes back for another run unless it waits for a process no *)
(* poll can stop: no refused, lost or late finish call, and no record that *)
(* is concluded under a playbook run, keeps its slot.                      *)
SlotReleased ==
  CrashesStop => \A w \in Workers, r \in Runs :
    job[w][r] # "idle" ~> job[w][r] = "idle" \/ Unreachable(w, r)
=============================================================================
