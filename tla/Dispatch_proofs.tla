--------------------------- MODULE Dispatch_proofs ---------------------------
(***************************************************************************)
(* Theorems about Dispatch for every set of runs and workers.              *)
(***************************************************************************)
EXTENDS Dispatch, FiniteSetTheorems, TLAPS

USE DEF records, index, handlers, workers, network

(* What the two outcomes of a claim leave behind has its type.             *)
LEMMA ClaimNothingType ==
  ASSUME TypeOK, NEW w \in Workers, NEW scanDue \in BOOLEAN,
         NEW verdict \in Verdicts, ClaimNothing(w, scanDue, verdict)
  PROVE  /\ status' \in [Runs -> Statuses \cup Absent]
         /\ owner' \in [Runs -> Workers \cup {NoWorker}]
         /\ verdictBy' \in [Runs -> Verdicts]
         /\ queuedIdx' \subseteq Runs
         /\ runningIdx' \in [Runs -> Workers \cup {NoWorker}]
         /\ claim' \in [Runs -> ClaimStages]
         /\ atOnce' \in [Workers -> Nat]
<1> USE DEF TypeOK, ClaimNothing
<1>1. status' \in [Runs -> Statuses \cup Absent]
  BY DEF HealedStatus, Statuses, FINAL_STATUSES
<1>2. verdictBy' \in [Runs -> Verdicts]
  BY DEF HealedVerdicts
<1>3. queuedIdx' \subseteq Runs
  BY DEF QueueRows, KeptRows
<1>4. runningIdx' \in [Runs -> Workers \cup {NoWorker}]
  BY DEF HealedRows
<1>. QED
  BY <1>1, <1>2, <1>3, <1>4

(* The runs a worker's claims have written but not yet counted are finite. *)
LEMMA OpenFinite ==
  ASSUME NEW w \in Workers
  PROVE  IsFiniteSet(Open(w)) /\ Cardinality(Open(w)) \in Nat
<1>1. IsFiniteSet(Open(w))
  BY RunsAssumption, FS_Subset DEF Open
<1>. QED
  BY <1>1, FS_CardinalityType

(* A claim that gives a run keeps the types.                               *)
LEMMA ClaimRunType ==
  ASSUME TypeOK, NEW w \in Workers, NEW r \in Runs,
         NEW scanDue \in BOOLEAN, NEW verdict \in Verdicts, NEW stage \in ClaimStages,
         ClaimRun(w, r, scanDue, verdict, stage)
  PROVE  /\ status' \in [Runs -> Statuses \cup Absent]
         /\ owner' \in [Runs -> Workers \cup {NoWorker}]
         /\ verdictBy' \in [Runs -> Verdicts]
         /\ queuedIdx' \subseteq Runs
         /\ runningIdx' \in [Runs -> Workers \cup {NoWorker}]
         /\ claim' \in [Runs -> ClaimStages]
         /\ atOnce' \in [Workers -> Nat]
<1> USE DEF TypeOK, ClaimRun
<1>1. HealedStatus(w) \in [Runs -> Statuses \cup Absent]
  BY DEF HealedStatus, Statuses, FINAL_STATUSES
<1>2. status' \in [Runs -> Statuses \cup Absent]
  BY <1>1 DEF Statuses
<1>3. owner' \in [Runs -> Workers \cup {NoWorker}]
  OBVIOUS
<1>4. verdictBy' \in [Runs -> Verdicts]
  BY DEF HealedVerdicts
<1>5. queuedIdx' \subseteq Runs
  BY DEF QueueRows, KeptRows
<1>6. runningIdx' \in [Runs -> Workers \cup {NoWorker}]
  BY DEF HealedRows
<1>7. claim' \in [Runs -> ClaimStages]
  OBVIOUS
<1>8. atOnce' \in [Workers -> Nat]
  BY OpenFinite DEF Greater
<1>. QED
  BY <1>2, <1>3, <1>4, <1>5, <1>6, <1>7, <1>8

(* A worker's job is one.                                                  *)
LEMMA JobType ==
  ASSUME TypeOK, NEW w \in Workers, NEW r \in Runs, NEW s \in JobStates
  PROVE  [job EXCEPT ![w][r] = s] \in [Workers -> [Runs -> JobStates]]
BY DEF TypeOK

(* Type correctness of the dispatcher.                                     *)
THEOREM DispatchTypeOK == Spec => []TypeOK
<1>1. Init => TypeOK
  BY DEF Init, TypeOK, Absent, Verdicts, JobStates, ClaimStages
<1>2. ASSUME TypeOK, [Next]_vars PROVE TypeOK'
  <2> USE TypeOK DEF TypeOK
  <2>1. CASE UserStep
    <3>1. ASSUME NEW r \in Runs, NEW post \in Posts, NEW crashed \in BOOLEAN,
                 Create(r, post, crashed)
          PROVE  TypeOK'
      <4>1. post.status \in {"QUEUED", "RUNNING"} /\ post.worker \in Workers \cup {NoWorker}
        BY PostsAssumption
      <4>2. claim' \in [Runs -> ClaimStages]
        BY <3>1 DEF Create, Interrupted, ClaimStages
      <4>. QED
        BY <3>1, <4>1, <4>2 DEF Create, Statuses
    <3>2. ASSUME NEW r \in Runs, Cancel(r) PROVE TypeOK'
      BY <3>2 DEF Cancel, Statuses, FINAL_STATUSES, Verdicts
    <3>3. ASSUME NEW r \in Runs, Stop(r) PROVE TypeOK'
      BY <3>3 DEF Stop, Statuses
    <3>4. ASSUME NEW r \in Runs, Delete(r) PROVE TypeOK'
      BY <3>4 DEF Delete, Absent
    <3>5. ASSUME NEW r \in Runs, NEW to \in Statuses, Patch(r, to) PROVE TypeOK'
      BY <3>5 DEF Patch, SyncIndex, Verdicts
    <3>. QED
      BY <2>1, <3>1, <3>2, <3>3, <3>4, <3>5 DEF UserStep
  <2>2. CASE ClaimStep
    <3>1. ASSUME NEW w \in Workers, NEW scanDue \in BOOLEAN, PollEmpty(w, scanDue)
          PROVE  TypeOK'
      <4>1. "orphaned" \in Verdicts
        BY DEF Verdicts
      <4>. QED
        BY <3>1, <4>1, ClaimNothingType DEF PollEmpty
    <3>2. ASSUME NEW w \in Workers, NEW scanDue \in BOOLEAN, NEW r \in Runs,
                 Claim(w, r, scanDue)
          PROVE  TypeOK'
      <4>1. "orphaned" \in Verdicts /\ "awaited" \in ClaimStages
        BY DEF Verdicts, ClaimStages
      <4>. QED
        BY <3>2, <4>1, ClaimRunType DEF Claim
    <3>3. ASSUME NEW w \in Workers, NEW scanDue \in BOOLEAN, LateClaim(w, scanDue)
          PROVE  TypeOK'
      <4>1. UNCHANGED <<serverUp, workers, finishes>> /\ lateClaims' \in [Workers -> Nat]
        BY <3>3 DEF LateClaim
      <4>2. "orphanedLate" \in Verdicts /\ "late" \in ClaimStages
        BY DEF Verdicts, ClaimStages
      <4>3. CASE ClaimNothing(w, scanDue, "orphanedLate")
        BY <4>1, <4>2, <4>3, ClaimNothingType
      <4>4. CASE \E r \in Runs : ClaimRun(w, r, scanDue, "orphanedLate", "late")
        <5>1. PICK r \in Runs : ClaimRun(w, r, scanDue, "orphanedLate", "late")
          BY <4>4
        <5>. QED
          BY <4>1, <4>2, <5>1, ClaimRunType
      <4>. QED
        BY <3>3, <4>3, <4>4 DEF LateClaim
    <3>4. ASSUME NEW w \in Workers, NEW r \in Runs, FinishClaim(w, r) PROVE TypeOK'
      <4>1. [job EXCEPT ![w][r] = "offered"] \in [Workers -> [Runs -> JobStates]]
        BY JobType DEF JobStates
      <4>2. claim' \in [Runs -> ClaimStages]
        BY <3>4 DEF FinishClaim, ClaimStages
      <4>3. UNCHANGED <<records, serverUp, atOnce, workerUp, launches, network>>
        BY <3>4 DEF FinishClaim
      <4>4. runningIdx' \in [Runs -> Workers \cup {NoWorker}] /\ queuedIdx' \subseteq Runs
        BY <3>4 DEF FinishClaim
      <4>5. job' \in [Workers -> [Runs -> JobStates]]
        BY <3>4, <4>1 DEF FinishClaim
      <4>. QED
        BY <4>2, <4>3, <4>4, <4>5
    <3>. QED
      BY <2>2, <3>1, <3>2, <3>3, <3>4 DEF ClaimStep
  <2>3. CASE WorkerStep
    <3>1. ASSUME NEW w \in Workers, AbandonClaim(w) \/ AbandonReply(w) PROVE TypeOK'
      <4>1. GivenUp(w) \in [Runs -> ClaimStages]
        BY DEF GivenUp, ClaimStages
      <4>. QED
        BY <3>1, <4>1 DEF AbandonClaim, AbandonReply
    <3>2. ASSUME NEW w \in Workers, WorkerCrash(w) PROVE TypeOK'
      <4>1. claim' \in [Runs -> ClaimStages]
        BY <3>2 DEF WorkerCrash, GivenUp, ClaimStages
      <4>. QED
        BY <3>2, <4>1 DEF WorkerCrash, JobStates
    <3>3. ASSUME NEW w \in Workers, WorkerRestart(w) PROVE TypeOK'
      BY <3>3 DEF WorkerRestart
    <3>4. ASSUME NEW w \in Workers, NEW r \in Runs, Launch(w, r) PROVE TypeOK'
      <4>1. job' \in [Workers -> [Runs -> JobStates]]
        BY <3>4, JobType DEF Launch, JobStates
      <4>2. launches' \in [Runs -> [Workers -> Nat]]
        BY <3>4 DEF Launch
      <4>. QED
        BY <3>4, <4>1, <4>2 DEF Launch
    <3>5. ASSUME NEW w \in Workers, NEW r \in Runs,
                 LoseOffer(w, r) \/ PollCanceling(w, r) \/ GiveUpFinish(w, r)
          PROVE  TypeOK'
      <4>1. PICK s \in JobStates : job' = [job EXCEPT ![w][r] = s]
        BY <3>5 DEF LoseOffer, PollCanceling, GiveUpFinish, JobStates
      <4>. QED
        BY <3>5, <4>1, JobType DEF LoseOffer, PollCanceling, GiveUpFinish
    <3>6. ASSUME NEW w \in Workers, NEW r \in Runs,
                 NEW rcZero \in BOOLEAN, NEW seen \in BOOLEAN,
                 SendFinish(w, r, rcZero, seen)
          PROVE  TypeOK'
      <4>1. job' \in [Workers -> [Runs -> JobStates]]
        BY <3>6, JobType DEF SendFinish, JobStates
      <4>2. finishes' \subseteq Finish
        <5>1. Report(w, r, rcZero, seen) \in FINAL_STATUSES
          BY DEF Report, FINAL_STATUSES
        <5>. QED
          BY <3>6, <5>1 DEF SendFinish, Finish
      <4>. QED
        BY <3>6, <4>1, <4>2 DEF SendFinish
    <3>7. ASSUME NEW w \in Workers, NEW r \in Runs,
                 NEW rcZero \in BOOLEAN, NEW seen \in BOOLEAN,
                 Exit(w, r, rcZero, seen) \/ KillFinalized(w, r, seen)
          PROVE  TypeOK'
      <4>1. \E zero \in BOOLEAN : SendFinish(w, r, zero, seen)
        BY <3>7 DEF Exit, KillFinalized
      <4>. QED
        BY <3>6, <4>1
    <3>. QED
      BY <2>3, <3>1, <3>2, <3>3, <3>4, <3>5, <3>7 DEF WorkerStep
  <2>4. CASE ServerStep
    <3>1. ASSUME NEW m \in finishes, NEW crashed \in BOOLEAN, HandleFinish(m, crashed)
          PROVE  TypeOK'
      <4>1. m.run \in Runs /\ m.worker \in Workers /\ m.status \in FINAL_STATUSES
        BY DEF Finish
      <4>2. job' \in [Workers -> [Runs -> JobStates]]
        BY <3>1, <4>1, JobType DEF HandleFinish, JobStates
      <4>3. finishes' \subseteq Finish /\ serverUp' \in BOOLEAN
        BY <3>1 DEF HandleFinish
      <4>6. claim' \in [Runs -> ClaimStages]
        BY <3>1 DEF HandleFinish, Interrupted, ClaimStages
      <4>4. CASE Accepted(m)
        <5>1. /\ status' \in [Runs -> Statuses \cup Absent]
              /\ verdictBy' \in [Runs -> Verdicts]
          BY <3>1, <4>1, <4>4 DEF HandleFinish, Statuses, Verdicts
        <5>2. queuedIdx' \subseteq Runs /\ runningIdx' \in [Runs -> Workers \cup {NoWorker}]
          <6>1. CASE crashed
            BY <3>1, <4>4, <6>1 DEF HandleFinish
          <6>2. CASE ~crashed
            <7>1. SyncIndex(m.run, m.status)
              BY <3>1, <4>4, <6>2 DEF HandleFinish
            <7>. QED
              BY <4>1, <7>1 DEF SyncIndex
          <6>. QED
            BY <6>1, <6>2
        <5>. QED
          BY <3>1, <4>2, <4>3, <4>6, <5>1, <5>2 DEF HandleFinish
      <4>5. CASE ~Accepted(m)
        BY <3>1, <4>2, <4>3, <4>5, <4>6 DEF HandleFinish
      <4>. QED
        BY <4>4, <4>5
    <3>2. ASSUME NEW m \in finishes, LoseFinish(m) PROVE TypeOK'
      BY <3>2 DEF LoseFinish
    <3>3. ASSUME NEW r \in Runs, RecoverRunning(r) \/ RecoverCanceling(r) PROVE TypeOK'
      BY <3>3 DEF RecoverRunning, RecoverCanceling, Statuses, FINAL_STATUSES, Verdicts
    <3>4. CASE ServerCrash
      <4>1. claim' \in [Runs -> ClaimStages]
        BY <3>4 DEF ServerCrash, Interrupted, ClaimStages
      <4>. QED
        BY <3>4, <4>1 DEF ServerCrash
    <3>5. CASE ServerStart
      BY <3>5 DEF ServerStart
    <3>. QED
      BY <2>4, <3>1, <3>2, <3>3, <3>4, <3>5 DEF ServerStep
  <2>5. CASE UNCHANGED vars
    BY <2>5 DEF vars
  <2>. QED
    BY <1>2, <2>1, <2>2, <2>3, <2>4, <2>5 DEF Next
<1>. QED
  BY <1>1, <1>2, PTL DEF Spec

-----------------------------------------------------------------------------
(* A claimed run was queued: nothing about it names a worker yet.          *)
LEMMA CandidateIsQueued ==
  ASSUME TypeOK, NEW w \in Workers, NEW scanDue \in BOOLEAN,
         NEW r \in Candidates(w, scanDue)
  PROVE  r \in Runs /\ status[r] = "QUEUED"
BY DEF Candidates, FromIndex, Claimable

(* A crash of the server moves a claim to its end.                         *)
LEMMA CrashMoves ==
  ASSUME TypeOK, NEW r \in Runs
  PROVE  /\ Interrupted[r] = "no" <=> claim[r] = "no"
         /\ claim[r] = "done" => Interrupted[r] = "done"
         /\ Interrupted[r] \in {"no", "done"}
<1>1. Interrupted[r] = IF Locked(r) THEN "done" ELSE claim[r]
  BY DEF Interrupted
<1>2. claim[r] \in {"no", "awaited", "late", "done"}
  BY DEF TypeOK, ClaimStages
<1>. QED
  BY <1>1, <1>2 DEF Locked

(* A worker that stops waiting moves its claim on, and ends none.          *)
LEMMA GiveUpMoves ==
  ASSUME TypeOK, NEW w \in Workers, NEW r \in Runs
  PROVE  /\ GivenUp(w)[r] = "no" <=> claim[r] = "no"
         /\ GivenUp(w)[r] = "done" <=> claim[r] = "done"
         /\ GivenUp(w)[r] \in {claim[r], "late"}
<1>1. GivenUp(w)[r] = IF claim[r] = "awaited" /\ owner[r] = w THEN "late" ELSE claim[r]
  BY DEF GivenUp
<1>2. claim[r] \in {"no", "awaited", "late", "done"}
  BY DEF TypeOK, ClaimStages
<1>. QED
  BY <1>1, <1>2

(* A claim that gives nothing keeps the assignments.                       *)
LEMMA ClaimNothingAssignment ==
  ASSUME TypeOK, AssignmentConsistent, NEW w \in Workers, NEW scanDue \in BOOLEAN,
         NEW verdict \in Verdicts, ClaimNothing(w, scanDue, verdict),
         UNCHANGED <<job, launches>>
  PROVE  AssignmentConsistent'
<1> USE DEF TypeOK, ClaimNothing
<1>1. \A r \in Runs : /\ runningIdx'[r] \in {runningIdx[r], NoWorker}
                      /\ status'[r] \in {status[r], "FAILED"}
  BY DEF HealedStatus, HealedRows
<1>2. UNCHANGED <<owner, claim, job, launches>>
  OBVIOUS
<1>. QED
  BY <1>1, <1>2 DEF AssignmentConsistent

(* A claim that gives a run keeps the assignments.                         *)
LEMMA ClaimRunAssignment ==
  ASSUME TypeOK, AssignmentConsistent, NEW w \in Workers, NEW r \in Runs,
         NEW scanDue \in BOOLEAN, NEW verdict \in Verdicts,
         NEW stage \in {"awaited", "late"},
         ClaimRun(w, r, scanDue, verdict, stage), UNCHANGED <<job, launches>>
  PROVE  AssignmentConsistent'
<1> USE DEF TypeOK
<1>1. /\ status[r] = "QUEUED"
      /\ claim[r] = "no"
      /\ runningIdx[r] = NoWorker
      /\ \A v \in Workers : launches[r][v] = 0 /\ job[v][r] = "idle"
  <2>1. status[r] = "QUEUED"
    BY CandidateIsQueued DEF ClaimRun, IsOldest
  <2>. QED
    BY <2>1 DEF AssignmentConsistent
<1>2. /\ owner' = [owner EXCEPT ![r] = w]
      /\ claim' = [claim EXCEPT ![r] = stage]
      /\ status'[r] = "RUNNING"
      /\ \A q \in Runs \ {r} : status'[q] \in {status[q], "FAILED"}
      /\ UNCHANGED <<job, launches>>
  BY DEF ClaimRun, HealedStatus
<1>3. \A q \in Runs : runningIdx'[q] \in {runningIdx[q], NoWorker}
  BY DEF ClaimRun, HealedRows
<1>4. \A q \in Runs : runningIdx'[q] \in {owner'[q], NoWorker}
  BY <1>1, <1>2, <1>3 DEF AssignmentConsistent
<1>5. ASSUME NEW v \in Workers, NEW q \in Runs
      PROVE  /\ job'[v][q] # "idle" => owner'[q] = v /\ claim'[q] = "done"
             /\ job'[v][q] = "offered" => \A u \in Workers : launches'[q][u] = 0
  <2>1. CASE q = r
    BY <1>1, <1>2, <2>1
  <2>2. CASE q # r
    BY <1>2, <2>2 DEF AssignmentConsistent
  <2>. QED
    BY <2>1, <2>2
<1>6. ASSUME NEW q \in Runs
      PROVE  /\ status'[q] \in {"NONE", "QUEUED"} => claim'[q] = "no" /\ runningIdx'[q] = NoWorker
             /\ claim'[q] # "done" => \A v \in Workers : launches'[q][v] = 0
             /\ claim'[q] # "no" => owner'[q] # NoWorker
  <2>1. CASE q = r
    BY <1>1, <1>2, <2>1, WorkersAssumption
  <2>2. CASE q # r
    BY <1>2, <1>3, <2>2 DEF AssignmentConsistent
  <2>. QED
    BY <2>1, <2>2
<1>. QED
  BY <1>4, <1>5, <1>6 DEF AssignmentConsistent

(* The row and the reply of a claim keep the assignments.                  *)
LEMMA FinishClaimAssignment ==
  ASSUME TypeOK, AssignmentConsistent, NEW w \in Workers, NEW r \in Runs,
         FinishClaim(w, r)
  PROVE  AssignmentConsistent'
<1> USE DEF TypeOK
<1>1. /\ owner[r] = w
      /\ claim[r] \notin {"no", "done"}
      /\ status[r] \notin {"NONE", "QUEUED"}
      /\ \A v \in Workers : launches[r][v] = 0 /\ job[v][r] = "idle"
  BY DEF FinishClaim, Open, Locked, AssignmentConsistent
<1>2. /\ UNCHANGED <<status, owner, launches>>
      /\ claim' = [claim EXCEPT ![r] = "done"]
      /\ runningIdx' = [runningIdx EXCEPT ![r] = w]
  BY DEF FinishClaim
<1>3. \A v \in Workers, q \in Runs : job'[v][q] = job[v][q] \/ (v = w /\ q = r)
  BY DEF FinishClaim
<1>4. ASSUME NEW v \in Workers, NEW q \in Runs
      PROVE  /\ job'[v][q] # "idle" => owner'[q] = v /\ claim'[q] = "done"
             /\ job'[v][q] = "offered" => \A u \in Workers : launches'[q][u] = 0
  <2>1. CASE q = r
    BY <1>1, <1>2, <1>3, <2>1
  <2>2. CASE q # r
    BY <1>2, <1>3, <2>2 DEF AssignmentConsistent
  <2>. QED
    BY <2>1, <2>2
<1>5. ASSUME NEW q \in Runs
      PROVE  /\ runningIdx'[q] \in {owner'[q], NoWorker}
             /\ status'[q] \in {"NONE", "QUEUED"} => claim'[q] = "no" /\ runningIdx'[q] = NoWorker
             /\ claim'[q] # "done" => \A v \in Workers : launches'[q][v] = 0
             /\ claim'[q] # "no" => owner'[q] # NoWorker
  <2>1. CASE q = r
    BY <1>1, <1>2, <2>1, WorkersAssumption
  <2>2. CASE q # r
    BY <1>2, <2>2 DEF AssignmentConsistent
  <2>. QED
    BY <2>1, <2>2
<1>. QED
  BY <1>4, <1>5 DEF AssignmentConsistent

(* So does every other step that assigns and launches nothing and only     *)
(* moves claims on, drops rows or records and ends goroutines.             *)
LEMMA AssignmentKept ==
  ASSUME TypeOK, AssignmentConsistent,
         UNCHANGED <<owner, launches>>,
         \A r \in Runs :
           /\ runningIdx'[r] \in {runningIdx[r], owner[r], NoWorker}
           /\ claim'[r] = "no" <=> claim[r] = "no"
           /\ claim[r] = "done" => claim'[r] = "done"
           /\ status'[r] \in {"NONE", "QUEUED"} =>
                status'[r] = status[r] /\ runningIdx'[r] \in {runningIdx[r], NoWorker},
         \A w \in Workers, r \in Runs :
           job'[w][r] = job[w][r] \/ (job'[w][r] # "offered" /\ job[w][r] # "idle")
  PROVE  AssignmentConsistent'
<1>1. ASSUME NEW w \in Workers, NEW r \in Runs
      PROVE  /\ job'[w][r] # "idle" => owner'[r] = w /\ claim'[r] = "done"
             /\ job'[w][r] = "offered" => \A v \in Workers : launches'[r][v] = 0
  BY DEF AssignmentConsistent
<1>2. ASSUME NEW r \in Runs
      PROVE  /\ runningIdx'[r] \in {owner'[r], NoWorker}
             /\ status'[r] \in {"NONE", "QUEUED"} => claim'[r] = "no" /\ runningIdx'[r] = NoWorker
             /\ claim'[r] # "done" => \A w \in Workers : launches'[r][w] = 0
             /\ claim'[r] # "no" => owner'[r] # NoWorker
  BY DEF AssignmentConsistent
<1>. QED
  BY <1>1, <1>2 DEF AssignmentConsistent

(* A new record keeps the assignments: no claim, row or goroutine has been *)
(* about it.                                                               *)
LEMMA CreateAssignment ==
  ASSUME TypeOK, AssignmentConsistent, NEW r \in Runs, NEW post \in Posts,
         NEW crashed \in BOOLEAN, Create(r, post, crashed)
  PROVE  AssignmentConsistent'
<1> USE DEF TypeOK
<1>1. /\ claim[r] = "no"
      /\ runningIdx[r] = NoWorker
      /\ \A w \in Workers : launches[r][w] = 0 /\ job[w][r] = "idle"
  BY DEF Create, AssignmentConsistent
<1>2. /\ status' = [status EXCEPT ![r] = post.status]
      /\ owner' = [owner EXCEPT ![r] = post.worker]
      /\ UNCHANGED <<job, launches>>
      /\ runningIdx'[r] \in {NoWorker, post.worker}
      /\ post.status = "QUEUED" => runningIdx'[r] = NoWorker
      /\ \A q \in Runs \ {r} : runningIdx'[q] = runningIdx[q]
  BY <1>1 DEF Create
<1>3. \A q \in Runs : /\ claim'[q] = "no" <=> claim[q] = "no"
                      /\ claim[q] = "done" => claim'[q] = "done"
  <2>1. claim' = Interrupted \/ claim' = claim
    BY DEF Create
  <2>. QED
    BY <2>1, CrashMoves
<1>4. post.status \in {"QUEUED", "RUNNING"}
  BY PostsAssumption
<1>5. ASSUME NEW w \in Workers, NEW q \in Runs
      PROVE  /\ job'[w][q] # "idle" => owner'[q] = w /\ claim'[q] = "done"
             /\ job'[w][q] = "offered" => \A v \in Workers : launches'[q][v] = 0
  <2>1. CASE q = r
    BY <1>1, <1>2, <2>1
  <2>2. CASE q # r
    BY <1>2, <1>3, <2>2 DEF AssignmentConsistent
  <2>. QED
    BY <2>1, <2>2
<1>6. ASSUME NEW q \in Runs
      PROVE  /\ runningIdx'[q] \in {owner'[q], NoWorker}
             /\ status'[q] \in {"NONE", "QUEUED"} => claim'[q] = "no" /\ runningIdx'[q] = NoWorker
             /\ claim'[q] # "done" => \A w \in Workers : launches'[q][w] = 0
             /\ claim'[q] # "no" => owner'[q] # NoWorker
  <2>1. CASE q = r
    BY <1>1, <1>2, <1>3, <1>4, <2>1
  <2>2. CASE q # r
    BY <1>2, <1>3, <2>2 DEF AssignmentConsistent
  <2>. QED
    BY <2>1, <2>2
<1>. QED
  BY <1>5, <1>6 DEF AssignmentConsistent

(* Assignments stay exclusive through crashes, lost replies, overlapping   *)
(* claims and repeated finish requests.                                    *)
THEOREM DispatchAssignment == Spec => []AssignmentConsistent
<1>1. Init => AssignmentConsistent
  BY DEF Init, AssignmentConsistent
<1>2. ASSUME TypeOK, AssignmentConsistent, [Next]_vars
      PROVE  AssignmentConsistent'
  <2> USE TypeOK, AssignmentConsistent DEF TypeOK
  <2>1. CASE UserStep
    <3>1. ASSUME NEW r \in Runs, NEW post \in Posts, NEW crashed \in BOOLEAN,
                 Create(r, post, crashed)
          PROVE  AssignmentConsistent'
      BY <3>1, CreateAssignment
    <3>2. ASSUME NEW r \in Runs, Cancel(r) \/ Stop(r) \/ Delete(r)
          PROVE  AssignmentConsistent'
      <4>1. /\ UNCHANGED <<owner, launches, runningIdx, claim, job>>
            /\ \A q \in Runs : status'[q] = status[q] \/ status'[q] \notin {"NONE", "QUEUED"}
        BY <3>2 DEF Cancel, Stop, Delete
      <4>. QED
        BY <4>1, AssignmentKept
    <3>3. ASSUME NEW r \in Runs, NEW to \in Statuses, Patch(r, to)
          PROVE  AssignmentConsistent'
      <4>1. \A q \in Runs : status'[q] \in {"NONE", "QUEUED"} =>
              status'[q] = status[q] /\ runningIdx'[q] \in {runningIdx[q], NoWorker}
        BY <3>3 DEF Patch, SyncIndex, ValidTransition, ALLOWED_TRANSITIONS
      <4>2. \A q \in Runs : runningIdx'[q] \in {runningIdx[q], owner[q], NoWorker}
        BY <3>3 DEF Patch, SyncIndex
      <4>3. UNCHANGED <<owner, launches, claim, job>>
        BY <3>3 DEF Patch
      <4>. QED
        BY <4>1, <4>2, <4>3, AssignmentKept
    <3>. QED
      BY <2>1, <3>1, <3>2, <3>3 DEF UserStep
  <2>2. CASE ClaimStep
    <3>. /\ "orphaned" \in Verdicts /\ "orphanedLate" \in Verdicts
      BY DEF Verdicts
    <3>1. ASSUME NEW w \in Workers, NEW scanDue \in BOOLEAN, PollEmpty(w, scanDue)
          PROVE  AssignmentConsistent'
      BY <3>1, ClaimNothingAssignment DEF PollEmpty
    <3>2. ASSUME NEW w \in Workers, NEW scanDue \in BOOLEAN, NEW r \in Runs,
                 Claim(w, r, scanDue)
          PROVE  AssignmentConsistent'
      BY <3>2, ClaimRunAssignment DEF Claim
    <3>3. ASSUME NEW w \in Workers, NEW scanDue \in BOOLEAN, LateClaim(w, scanDue)
          PROVE  AssignmentConsistent'
      <4>1. UNCHANGED <<job, launches>>
        BY <3>3 DEF LateClaim
      <4>2. CASE ClaimNothing(w, scanDue, "orphanedLate")
        BY <4>1, <4>2, ClaimNothingAssignment
      <4>3. CASE \E r \in Runs : ClaimRun(w, r, scanDue, "orphanedLate", "late")
        BY <4>1, <4>3, ClaimRunAssignment
      <4>. QED
        BY <3>3, <4>2, <4>3 DEF LateClaim
    <3>4. ASSUME NEW w \in Workers, NEW r \in Runs, FinishClaim(w, r)
          PROVE  AssignmentConsistent'
      BY <3>4, FinishClaimAssignment
    <3>. QED
      BY <2>2, <3>1, <3>2, <3>3, <3>4 DEF ClaimStep
  <2>3. CASE WorkerStep
    <3>1. ASSUME NEW w \in Workers, AbandonClaim(w) \/ WorkerRestart(w)
          PROVE  AssignmentConsistent'
      BY <3>1 DEF AbandonClaim, WorkerRestart, AssignmentConsistent
    <3>2. ASSUME NEW w \in Workers, AbandonReply(w) \/ WorkerCrash(w)
          PROVE  AssignmentConsistent'
      <4>1. UNCHANGED <<owner, launches, runningIdx, status>> /\ claim' = GivenUp(w)
        BY <3>2 DEF AbandonReply, WorkerCrash
      <4>2. \A v \in Workers, q \in Runs : job'[v][q] \in {job[v][q], "idle"}
        <5>1. CASE AbandonReply(w)
          BY <5>1 DEF AbandonReply
        <5>2. CASE WorkerCrash(w)
          BY <5>2 DEF WorkerCrash
        <5>. QED
          BY <3>2, <5>1, <5>2
      <4>. QED
        BY <4>1, <4>2, GiveUpMoves, AssignmentKept
    <3>3. ASSUME NEW w \in Workers, NEW r \in Runs, Launch(w, r)
          PROVE  AssignmentConsistent'
      <4>1. owner[r] = w /\ claim[r] = "done"
        BY <3>3 DEF Launch, AssignmentConsistent
      <4>2. \A v \in Workers : job'[v][r] # "offered"
        BY <3>3, <4>1 DEF Launch, AssignmentConsistent
      <4>3. \A q \in Runs \ {r} : launches'[q] = launches[q]
        BY <3>3 DEF Launch
      <4>4. ASSUME NEW v \in Workers, NEW q \in Runs
            PROVE  /\ job'[v][q] # "idle" => owner'[q] = v /\ claim'[q] = "done"
                   /\ job'[v][q] = "offered" => \A u \in Workers : launches'[q][u] = 0
        BY <3>3, <4>1, <4>2, <4>3 DEF Launch, AssignmentConsistent
      <4>5. ASSUME NEW q \in Runs, claim'[q] # "done"
            PROVE  \A v \in Workers : launches'[q][v] = 0
        BY <3>3, <4>1, <4>3, <4>5 DEF Launch, AssignmentConsistent
      <4>6. UNCHANGED <<status, owner, claim, runningIdx>>
        BY <3>3 DEF Launch
      <4>. QED
        BY <4>4, <4>5, <4>6 DEF AssignmentConsistent
    <3>4. ASSUME NEW w \in Workers, NEW r \in Runs, NEW s \in JobStates \ {"offered"},
                 job[w][r] # "idle", job' = [job EXCEPT ![w][r] = s],
                 UNCHANGED <<records, index, claim, launches>>
          PROVE  AssignmentConsistent'
      BY <3>4 DEF AssignmentConsistent
    <3>5. ASSUME NEW w \in Workers, NEW r \in Runs,
                 LoseOffer(w, r) \/ PollCanceling(w, r) \/ GiveUpFinish(w, r)
          PROVE  AssignmentConsistent'
      BY <3>4, <3>5 DEF LoseOffer, PollCanceling, GiveUpFinish, JobStates
    <3>6. ASSUME NEW w \in Workers, NEW r \in Runs,
                 NEW rcZero \in BOOLEAN, NEW seen \in BOOLEAN,
                 Exit(w, r, rcZero, seen) \/ KillFinalized(w, r, seen)
          PROVE  AssignmentConsistent'
      BY <3>4, <3>6 DEF Exit, KillFinalized, SendFinish, Executing, JobStates
    <3>. QED
      BY <2>3, <3>1, <3>2, <3>3, <3>5, <3>6 DEF WorkerStep
  <2>4. CASE ServerStep
    <3>1. ASSUME NEW m \in finishes, NEW crashed \in BOOLEAN, HandleFinish(m, crashed)
          PROVE  AssignmentConsistent'
      <4>1. m.run \in Runs /\ m.worker \in Workers /\ m.status \in FINAL_STATUSES
        BY DEF Finish
      <4>2. UNCHANGED <<owner, launches>>
        BY <3>1 DEF HandleFinish
      <4>3. \A q \in Runs : status'[q] \in {"NONE", "QUEUED"} =>
              status'[q] = status[q] /\ runningIdx'[q] \in {runningIdx[q], NoWorker}
        BY <3>1, <4>1 DEF HandleFinish, SyncIndex, FINAL_STATUSES
      <4>4. \A q \in Runs : runningIdx'[q] \in {runningIdx[q], owner[q], NoWorker}
        BY <3>1, <4>1 DEF HandleFinish, SyncIndex
      <4>5. \A v \in Workers, q \in Runs : job'[v][q] \in {job[v][q], "idle"}
        BY <3>1, <4>1 DEF HandleFinish
      <4>6. claim' = Interrupted \/ claim' = claim
        BY <3>1 DEF HandleFinish
      <4>. QED
        BY <4>2, <4>3, <4>4, <4>5, <4>6, CrashMoves, AssignmentKept
    <3>2. ASSUME NEW m \in finishes, LoseFinish(m) PROVE AssignmentConsistent'
      BY <3>2 DEF LoseFinish, AssignmentConsistent
    <3>3. ASSUME NEW r \in Runs, RecoverRunning(r) \/ RecoverCanceling(r)
          PROVE  AssignmentConsistent'
      BY <3>3 DEF RecoverRunning, RecoverCanceling, AssignmentConsistent
    <3>4. CASE ServerCrash
      <4>1. UNCHANGED <<owner, launches, runningIdx, status, job>> /\ claim' = Interrupted
        BY <3>4 DEF ServerCrash
      <4>. QED
        BY <4>1, CrashMoves, AssignmentKept
    <3>5. CASE ServerStart
      <4>1. \A q \in Runs : /\ runningIdx'[q] \in {runningIdx[q], owner[q], NoWorker}
                            /\ status[q] = "QUEUED" => runningIdx'[q] = NoWorker
                            /\ status[q] = "NONE" => runningIdx'[q] = runningIdx[q]
        BY <3>5 DEF ServerStart, Statuses, FINAL_STATUSES
      <4>. QED
        BY <3>5, <4>1, AssignmentKept DEF ServerStart
    <3>. QED
      BY <2>4, <3>1, <3>2, <3>3, <3>4, <3>5 DEF ServerStep
  <2>5. CASE UNCHANGED vars
    BY <2>5 DEF vars, AssignmentConsistent
  <2>. QED
    BY <1>2, <2>1, <2>2, <2>3, <2>4, <2>5 DEF Next
<1>. QED
  BY <1>1, <1>2, DispatchTypeOK, PTL DEF Spec

-----------------------------------------------------------------------------
(* No step of a worker touches a record or the index, or moves a claim but *)
(* by giving it up.                                                        *)
LEMMA WorkerStepEffect ==
  ASSUME WorkerStep
  PROVE  /\ UNCHANGED <<status, owner, verdictBy, queuedIdx, runningIdx, serverUp, atOnce>>
         /\ UNCHANGED claim \/ (\E w \in Workers : claim' = GivenUp(w))
<1>1. ASSUME NEW w \in Workers,
             AbandonClaim(w) \/ AbandonReply(w) \/ WorkerCrash(w) \/ WorkerRestart(w)
      PROVE  /\ UNCHANGED <<status, owner, verdictBy, queuedIdx, runningIdx, serverUp, atOnce>>
             /\ UNCHANGED claim \/ claim' = GivenUp(w)
  BY <1>1 DEF AbandonClaim, AbandonReply, WorkerCrash, WorkerRestart
<1>2. ASSUME NEW w \in Workers, NEW r \in Runs,
             \/ Launch(w, r) \/ LoseOffer(w, r) \/ PollCanceling(w, r) \/ GiveUpFinish(w, r)
             \/ \E rcZero, seen \in BOOLEAN : Exit(w, r, rcZero, seen)
             \/ \E seen \in BOOLEAN : KillFinalized(w, r, seen)
      PROVE  UNCHANGED <<status, owner, verdictBy, queuedIdx, runningIdx, serverUp, atOnce, claim>>
  BY <1>2 DEF Launch, LoseOffer, PollCanceling, GiveUpFinish, Exit, KillFinalized, SendFinish
<1>. QED
  BY <1>1, <1>2 DEF WorkerStep

(* What a claim's self-heal leaves running keeps its row, or waits for it. *)
LEMMA HealKeepsCounted ==
  ASSUME TypeOK, RunningIsCounted, serverUp, NEW w \in Workers, NEW r \in Runs,
         HealedStatus(w)[r] = "RUNNING", owner[r] # NoWorker
  PROVE  HealedRows(w)[r] = owner[r] \/ Locked(r)
BY DEF TypeOK, RunningIsCounted, HealedStatus, HealedRows, Orphans, Rows

(* While the server is up, the index misses no record a worker runs but    *)
(* those whose claim is about to add the row.                              *)
THEOREM DispatchRunningIsCounted == Spec => []RunningIsCounted
<1>1. Init => RunningIsCounted
  BY DEF Init, RunningIsCounted
<1>2. ASSUME TypeOK, AssignmentConsistent, RunningIsCounted, [Next]_vars
      PROVE  RunningIsCounted'
  <2> USE TypeOK, RunningIsCounted DEF TypeOK
  <2>1. CASE UserStep
    <3>1. ASSUME NEW r \in Runs, NEW post \in Posts, NEW crashed \in BOOLEAN,
                 Create(r, post, crashed)
          PROVE  RunningIsCounted'
      <4>1. CASE crashed
        BY <3>1, <4>1 DEF Create, RunningIsCounted
      <4>2. CASE ~crashed
        <5>1. ASSUME NEW q \in Runs, status'[q] = "RUNNING", owner'[q] # NoWorker
              PROVE  runningIdx'[q] = owner'[q] \/ Locked(q)'
          BY <3>1, <4>2, <5>1 DEF Create, RunningIsCounted, Locked
        <5>. QED
          BY <5>1 DEF RunningIsCounted
      <4>. QED
        BY <4>1, <4>2
    <3>2. ASSUME NEW r \in Runs, Cancel(r) \/ Stop(r) \/ Delete(r)
          PROVE  RunningIsCounted'
      BY <3>2 DEF Cancel, Stop, Delete, RunningIsCounted, Locked
    <3>3. ASSUME NEW r \in Runs, NEW to \in Statuses, Patch(r, to)
          PROVE  RunningIsCounted'
      BY <3>3 DEF Patch, SyncIndex, RunningIsCounted, Locked
    <3>. QED
      BY <2>1, <3>1, <3>2, <3>3 DEF UserStep
  <2>2. CASE ClaimStep
    <3>1. ASSUME serverUp, NEW w \in Workers, NEW scanDue \in BOOLEAN,
                 NEW verdict \in Verdicts, ClaimNothing(w, scanDue, verdict)
          PROVE  RunningIsCounted'
      BY <3>1, HealKeepsCounted DEF ClaimNothing, RunningIsCounted, Locked
    <3>2. ASSUME serverUp, NEW w \in Workers, NEW r \in Runs, NEW scanDue \in BOOLEAN,
                 NEW verdict \in Verdicts, NEW stage \in {"awaited", "late"},
                 ClaimRun(w, r, scanDue, verdict, stage)
          PROVE  RunningIsCounted'
      <4>1. /\ owner' = [owner EXCEPT ![r] = w]
            /\ status' = [HealedStatus(w) EXCEPT ![r] = "RUNNING"]
            /\ runningIdx' = HealedRows(w)
            /\ claim' = [claim EXCEPT ![r] = stage]
        BY <3>2 DEF ClaimRun
      <4>2. DOMAIN HealedStatus(w) = Runs /\ DOMAIN HealedRows(w) = Runs
        BY DEF HealedStatus, HealedRows
      <4>3. ASSUME NEW q \in Runs, status'[q] = "RUNNING", owner'[q] # NoWorker
            PROVE  runningIdx'[q] = owner'[q] \/ claim'[q] \in {"awaited", "late"}
        <5>1. CASE q = r
          BY <4>1, <5>1
        <5>2. CASE q # r
          BY <3>2, <4>1, <4>2, <4>3, <5>2, HealKeepsCounted DEF Locked
        <5>. QED
          BY <5>1, <5>2
      <4>. QED
        BY <4>3 DEF RunningIsCounted, Locked
    <3>3. "orphaned" \in Verdicts /\ "orphanedLate" \in Verdicts
      BY DEF Verdicts
    <3>4. ASSUME NEW w \in Workers, NEW scanDue \in BOOLEAN,
                 PollEmpty(w, scanDue) \/ (\E r \in Runs : Claim(w, r, scanDue))
                   \/ LateClaim(w, scanDue)
          PROVE  RunningIsCounted'
      BY <3>1, <3>2, <3>3, <3>4 DEF PollEmpty, Claim, LateClaim
    <3>5. ASSUME NEW w \in Workers, NEW r \in Runs, FinishClaim(w, r)
          PROVE  RunningIsCounted'
      <4>1. /\ UNCHANGED <<status, owner, serverUp>>
            /\ owner[r] = w
            /\ claim' = [claim EXCEPT ![r] = "done"]
            /\ runningIdx' = [runningIdx EXCEPT ![r] = w]
        BY <3>5 DEF FinishClaim, Open
      <4>2. ASSUME serverUp, NEW q \in Runs, status'[q] = "RUNNING", owner'[q] # NoWorker
            PROVE  runningIdx'[q] = owner'[q] \/ claim'[q] \in {"awaited", "late"}
        BY <4>1, <4>2 DEF RunningIsCounted, Locked
      <4>. QED
        BY <4>1, <4>2 DEF RunningIsCounted, Locked
    <3>. QED
      BY <2>2, <3>4, <3>5 DEF ClaimStep
  <2>3. CASE WorkerStep
    <3>1. \A r \in Runs : Locked(r) => Locked(r)'
      BY <2>3, WorkerStepEffect DEF Locked, GivenUp
    <3>. QED
      BY <2>3, <3>1, WorkerStepEffect DEF RunningIsCounted
  <2>4. CASE ServerStep
    <3>1. ASSUME NEW m \in finishes, NEW crashed \in BOOLEAN, HandleFinish(m, crashed)
          PROVE  RunningIsCounted'
      <4>1. m.run \in Runs /\ m.status # "RUNNING"
        BY DEF Finish, FINAL_STATUSES
      <4>2. CASE crashed
        BY <3>1, <4>2 DEF HandleFinish, RunningIsCounted
      <4>3. CASE ~crashed
        <5>1. UNCHANGED <<owner, claim>>
          BY <3>1, <4>3 DEF HandleFinish
        <5>2. \A q \in Runs : status'[q] = "RUNNING" =>
                status[q] = "RUNNING" /\ runningIdx'[q] = runningIdx[q]
          BY <3>1, <4>1, <4>3 DEF HandleFinish, SyncIndex
        <5>3. serverUp
          BY <3>1 DEF HandleFinish
        <5>. QED
          BY <5>1, <5>2, <5>3 DEF RunningIsCounted, Locked
      <4>. QED
        BY <4>2, <4>3
    <3>2. ASSUME NEW m \in finishes, LoseFinish(m) PROVE RunningIsCounted'
      BY <3>2 DEF LoseFinish, RunningIsCounted, Locked
    <3>3. ASSUME NEW r \in Runs, RecoverRunning(r) \/ RecoverCanceling(r)
          PROVE  RunningIsCounted'
      BY <3>3 DEF RecoverRunning, RecoverCanceling, RunningIsCounted, Locked
    <3>4. CASE ServerCrash
      BY <3>4 DEF ServerCrash, RunningIsCounted
    <3>5. CASE ServerStart
      BY <3>5 DEF ServerStart, RunningIsCounted
    <3>. QED
      BY <2>4, <3>1, <3>2, <3>3, <3>4, <3>5 DEF ServerStep
  <2>5. CASE UNCHANGED vars
    BY <2>5 DEF vars, RunningIsCounted, Locked
  <2>. QED
    BY <1>2, <2>1, <2>2, <2>3, <2>4, <2>5 DEF Next
<1>. QED
  BY <1>1, <1>2, DispatchTypeOK, DispatchAssignment, PTL DEF Spec

-----------------------------------------------------------------------------
(* The cap's inductive form: with the running records come the rows of     *)
(* records that no longer run and the claims whose row is still to come,   *)
(* for a row added late must not add to what is bounded.                   *)
Held(w) ==
  {r \in Runs : /\ owner[r] = w
                /\ claim[r] # "no"
                /\ status[r] = "RUNNING" \/ runningIdx[r] = w \/ Locked(r)}
CapInv == \A w \in Workers : Cardinality(Held(w)) <= (Slots - 1) + atOnce[w]

(* A set of runs is finite, and so is its size.                            *)
LEMMA RunSets ==
  ASSUME NEW S \in SUBSET Runs
  PROVE  IsFiniteSet(S) /\ Cardinality(S) \in Nat
<1>1. IsFiniteSet(S)
  BY RunsAssumption, FS_Subset
<1>. QED
  BY <1>1, FS_CardinalityType

(* Where nothing is added the bound stays.                                 *)
LEMMA HeldShrinks ==
  ASSUME TypeOK, CapInv, UNCHANGED atOnce,
         \A r \in Runs : /\ owner'[r] = owner[r] \/ claim'[r] = "no"
                         /\ claim'[r] # "no" => claim[r] # "no"
                         /\ claim'[r] # "no" /\ status'[r] = "RUNNING" => status[r] = "RUNNING"
                         /\ claim'[r] # "no" /\ runningIdx'[r] = owner[r] =>
                              runningIdx[r] = owner[r] \/ Locked(r) \/ status[r] = "RUNNING"
                         /\ Locked(r)' => Locked(r)
  PROVE  CapInv'
<1>1. ASSUME NEW w \in Workers PROVE Cardinality(Held(w)') <= (Slots - 1) + atOnce'[w]
  <2>1. Held(w)' \subseteq Held(w)
    BY DEF Held
  <2>2. /\ IsFiniteSet(Held(w))
        /\ Cardinality(Held(w)) \in Nat
        /\ Cardinality(Held(w)') <= Cardinality(Held(w))
        /\ Cardinality(Held(w)') \in Nat
    BY <2>1, RunSets, FS_Subset DEF Held
  <2>3. Cardinality(Held(w)) <= (Slots - 1) + atOnce'[w] /\ atOnce'[w] \in Nat
    BY DEF CapInv, TypeOK
  <2>. HIDE DEF Held
  <2>. QED
    BY <2>2, <2>3, SlotsAssumption
<1>. QED
  BY <1>1 DEF CapInv

(* A claim adds one record to what the worker's rows, fewer than its slots *)
(* after the heal, and its other claims under way account for.             *)
LEMMA ClaimRunWithinCap ==
  ASSUME TypeOK, AssignmentConsistent, RunningIsCounted, CapInv, serverUp,
         NEW w \in Workers, NEW r \in Runs, NEW scanDue \in BOOLEAN,
         NEW verdict \in Verdicts, NEW stage \in {"awaited", "late"},
         ClaimRun(w, r, scanDue, verdict, stage)
  PROVE  CapInv'
<1> USE DEF TypeOK
<1> DEFINE Kept == {q \in Runs : HealedRows(w)[q] = w}
<1>1. /\ owner' = [owner EXCEPT ![r] = w]
      /\ status' = [HealedStatus(w) EXCEPT ![r] = "RUNNING"]
      /\ runningIdx' = HealedRows(w)
      /\ claim' = [claim EXCEPT ![r] = stage]
      /\ atOnce' = [atOnce EXCEPT ![w] = Greater(@, Cardinality(Open(w)) + 1)]
      /\ ~StillFull(w)
  BY DEF ClaimRun
<1>2. claim[r] = "no"
  BY CandidateIsQueued DEF ClaimRun, IsOldest, AssignmentConsistent
<1>3. ASSUME NEW v \in Workers \ {w}
      PROVE  Cardinality(Held(v)') <= (Slots - 1) + atOnce'[v]
  <2>1. Held(v)' \subseteq Held(v)
    <3>1. ASSUME NEW q \in Runs, q \in Held(v)' PROVE q \in Held(v)
      <4>1. q # r
        BY <1>1, <3>1 DEF Held
      <4>2. owner'[q] = owner[q] /\ claim'[q] = claim[q]
        BY <1>1, <4>1
      <4>3. status'[q] = "RUNNING" => status[q] = "RUNNING"
        BY <1>1, <4>1 DEF HealedStatus
      <4>4. runningIdx'[q] = v => runningIdx[q] = v
        BY <1>1, WorkersAssumption DEF HealedRows
      <4>. QED
        BY <3>1, <4>2, <4>3, <4>4 DEF Held, Locked
    <3>. QED
      BY <3>1 DEF Held
  <2>2. /\ Cardinality(Held(v)) \in Nat
        /\ Cardinality(Held(v)') <= Cardinality(Held(v))
        /\ Cardinality(Held(v)') \in Nat
    BY <2>1, RunSets, FS_Subset DEF Held
  <2>3. /\ Cardinality(Held(v)) <= (Slots - 1) + atOnce[v]
        /\ atOnce'[v] = atOnce[v] /\ atOnce[v] \in Nat
    BY <1>1, <1>3 DEF CapInv
  <2>. HIDE DEF Held
  <2>. QED
    BY <2>2, <2>3, SlotsAssumption
<1>4. Held(w)' \subseteq (Kept \cup Open(w)) \cup {r}
  <2>1. ASSUME NEW q \in Runs \ {r}, q \in Held(w)' PROVE q \in Kept \cup Open(w)
    <3>1. /\ owner[q] = w
          /\ HealedStatus(w)[q] = "RUNNING" \/ HealedRows(w)[q] = w \/ Locked(q)
      BY <1>1, <2>1 DEF Held, HealedStatus, Locked
    <3>2. HealedRows(w)[q] = w \/ Locked(q)
      BY <3>1, HealKeepsCounted, WorkersAssumption
    <3>. QED
      BY <3>1, <3>2 DEF Open
  <2>. QED
    BY <2>1 DEF Held
<1>5. /\ Cardinality(Kept) \in Nat /\ Cardinality(Kept) < Slots
      /\ IsFiniteSet(Kept) /\ IsFiniteSet(Open(w)) /\ Cardinality(Open(w)) \in Nat
  <2>1. Kept \in SUBSET Runs /\ Open(w) \in SUBSET Runs
    BY DEF Open
  <2>2. ~(Cardinality(Kept) >= Slots)
    BY <1>1 DEF StillFull
  <2>. QED
    BY <2>1, <2>2, RunSets, SlotsAssumption
<1>. HIDE DEF Kept
<1>6. /\ IsFiniteSet(Kept \cup Open(w))
      /\ Cardinality(Kept \cup Open(w)) \in Nat
      /\ Cardinality(Kept \cup Open(w)) <= Cardinality(Kept) + Cardinality(Open(w))
  <2>1. /\ IsFiniteSet(Kept \cup Open(w))
        /\ Cardinality(Kept \cup Open(w)) =
             Cardinality(Kept) + Cardinality(Open(w)) - Cardinality(Kept \cap Open(w))
    BY <1>5, FS_Union
  <2>2. IsFiniteSet(Kept \cap Open(w))
    BY <1>5, FS_Intersection
  <2>3. Cardinality(Kept \cap Open(w)) \in Nat /\ Cardinality(Kept \cup Open(w)) \in Nat
    BY <2>1, <2>2, FS_CardinalityType
  <2>. QED
    BY <1>5, <2>1, <2>3
<1>7. /\ IsFiniteSet((Kept \cup Open(w)) \cup {r})
      /\ Cardinality((Kept \cup Open(w)) \cup {r}) <= Cardinality(Kept \cup Open(w)) + 1
      /\ Cardinality((Kept \cup Open(w)) \cup {r}) \in Nat
  <2>. DEFINE T == Kept \cup Open(w)
  <2>1. IsFiniteSet(T) /\ Cardinality(T) \in Nat
    BY <1>6
  <2>. HIDE DEF T
  <2>2. /\ IsFiniteSet(T \cup {r})
        /\ Cardinality(T \cup {r}) = IF r \in T THEN Cardinality(T) ELSE Cardinality(T) + 1
    BY <2>1, FS_AddElement
  <2>3. /\ IsFiniteSet(T \cup {r})
        /\ Cardinality(T \cup {r}) <= Cardinality(T) + 1
        /\ Cardinality(T \cup {r}) \in Nat
    BY <2>1, <2>2
  <2>. QED
    BY <2>3 DEF T
<1>8. /\ Cardinality(Held(w)') <= Cardinality((Kept \cup Open(w)) \cup {r})
      /\ Cardinality(Held(w)') \in Nat
  BY <1>4, <1>7, FS_Subset, FS_CardinalityType
<1>9. atOnce'[w] \in Nat /\ Cardinality(Open(w)) + 1 <= atOnce'[w]
  <2>1. atOnce'[w] = Greater(atOnce[w], Cardinality(Open(w)) + 1)
    BY <1>1
  <2>. QED
    BY <1>5, <2>1 DEF Greater
<1>10. Cardinality(Held(w)') <= (Slots - 1) + atOnce'[w]
  BY <1>5, <1>6, <1>7, <1>8, <1>9, SlotsAssumption
<1>. QED
  BY <1>3, <1>10 DEF CapInv

(* Without overlapping claims a worker is given no more running records    *)
(* than it has slots; n of them at once break the cap by at most n - 1.    *)
THEOREM DispatchCapRespected == Spec => []CapRespected
<1>1. Init => CapInv
  <2>1. ASSUME Init, NEW w \in Workers PROVE Held(w) = {} /\ atOnce[w] = 0
    BY <2>1 DEF Init, Held
  <2>. QED
    BY <2>1, FS_EmptySet, SlotsAssumption DEF CapInv
<1>2. ASSUME TypeOK, AssignmentConsistent, RunningIsCounted, CapInv, [Next]_vars
      PROVE  CapInv'
  <2> USE TypeOK, CapInv DEF TypeOK
  <2>1. CASE UserStep
    <3>1. ASSUME NEW r \in Runs, NEW post \in Posts, NEW crashed \in BOOLEAN,
                 Create(r, post, crashed)
          PROVE  CapInv'
      <4>1. claim[r] = "no"
        BY <1>2, <3>1 DEF Create, AssignmentConsistent
      <4>2. UNCHANGED atOnce /\ \A q \in Runs \ {r} :
              status'[q] = status[q] /\ owner'[q] = owner[q] /\ runningIdx'[q] = runningIdx[q]
        BY <3>1 DEF Create
      <4>3. claim' = claim \/ claim' = Interrupted
        BY <3>1 DEF Create
      <4>4. \A q \in Runs : /\ claim'[q] = "no" <=> claim[q] = "no"
                            /\ Locked(q)' => Locked(q)
        BY <4>3, CrashMoves DEF Locked
      <4>. QED
        BY <4>1, <4>2, <4>4, HeldShrinks
    <3>2. ASSUME NEW r \in Runs, Cancel(r) \/ Stop(r) \/ Delete(r) PROVE CapInv'
      <4>1. /\ UNCHANGED <<owner, runningIdx, claim, atOnce>>
            /\ \A q \in Runs : status'[q] = "RUNNING" => status[q] = "RUNNING"
        BY <3>2 DEF Cancel, Stop, Delete
      <4>. QED
        BY <4>1, HeldShrinks DEF Locked
    <3>3. ASSUME NEW r \in Runs, NEW to \in Statuses, Patch(r, to) PROVE CapInv'
      <4>1. status[r] = "QUEUED" => claim[r] = "no"
        BY <1>2 DEF AssignmentConsistent
      <4>2. to = "RUNNING" => status[r] \in {"RUNNING", "QUEUED"}
        BY <3>3 DEF Patch, ValidTransition, ALLOWED_TRANSITIONS
      <4>3. UNCHANGED <<owner, claim, atOnce>>
        BY <3>3 DEF Patch
      <4>4. \A q \in Runs : claim[q] # "no" /\ status'[q] = "RUNNING" => status[q] = "RUNNING"
        BY <3>3, <4>1, <4>2 DEF Patch
      <4>5. \A q \in Runs : claim[q] # "no" /\ runningIdx'[q] = owner[q] =>
              runningIdx[q] = owner[q] \/ status[q] = "RUNNING"
        BY <1>2, <3>3, <4>1, <4>2, WorkersAssumption
        DEF Patch, SyncIndex, AssignmentConsistent
      <4>. QED
        BY <4>3, <4>4, <4>5, HeldShrinks DEF Locked
    <3>. QED
      BY <2>1, <3>1, <3>2, <3>3 DEF UserStep
  <2>2. CASE ClaimStep
    <3>1. ASSUME NEW w \in Workers, NEW scanDue \in BOOLEAN, NEW verdict \in Verdicts,
                 ClaimNothing(w, scanDue, verdict)
          PROVE  CapInv'
      <4>1. /\ UNCHANGED <<owner, claim, atOnce>>
            /\ \A q \in Runs : status'[q] = "RUNNING" => status[q] = "RUNNING"
            /\ \A q \in Runs : runningIdx'[q] \in {runningIdx[q], NoWorker}
        BY <3>1 DEF ClaimNothing, HealedStatus, HealedRows
      <4>2. \A q \in Runs : claim[q] # "no" => owner[q] # NoWorker
        BY <1>2 DEF AssignmentConsistent
      <4>. QED
        BY <4>1, <4>2, HeldShrinks DEF Locked
    <3>2. "orphaned" \in Verdicts /\ "orphanedLate" \in Verdicts
      BY DEF Verdicts
    <3>3. ASSUME NEW w \in Workers, NEW scanDue \in BOOLEAN,
                 PollEmpty(w, scanDue) \/ (\E r \in Runs : Claim(w, r, scanDue))
                   \/ LateClaim(w, scanDue)
          PROVE  CapInv'
      BY <1>2, <3>1, <3>2, <3>3, ClaimRunWithinCap DEF PollEmpty, Claim, LateClaim
    <3>4. ASSUME NEW w \in Workers, NEW r \in Runs, FinishClaim(w, r) PROVE CapInv'
      <4>1. /\ UNCHANGED <<status, owner, atOnce>>
            /\ Locked(r) /\ owner[r] = w
            /\ claim' = [claim EXCEPT ![r] = "done"]
            /\ runningIdx' = [runningIdx EXCEPT ![r] = w]
        BY <3>4 DEF FinishClaim, Open
      <4>2. \A q \in Runs : Locked(q)' => Locked(q)
        BY <4>1 DEF Locked
      <4>3. \A q \in Runs : claim'[q] # "no" => claim[q] # "no"
        BY <4>1 DEF Locked
      <4>. QED
        BY <4>1, <4>2, <4>3, HeldShrinks
    <3>. QED
      BY <2>2, <3>3, <3>4 DEF ClaimStep
  <2>3. CASE WorkerStep
    <3>1. UNCHANGED <<status, owner, runningIdx, atOnce>>
      BY <2>3, WorkerStepEffect
    <3>2. \A r \in Runs : /\ claim'[r] = "no" <=> claim[r] = "no"
                          /\ Locked(r)' => Locked(r)
      <4>1. CASE UNCHANGED claim
        BY <4>1 DEF Locked
      <4>2. ASSUME NEW w \in Workers, claim' = GivenUp(w)
            PROVE  \A r \in Runs : /\ claim'[r] = "no" <=> claim[r] = "no"
                                   /\ Locked(r)' => Locked(r)
        BY <4>2 DEF Locked, GivenUp
      <4>. QED
        BY <2>3, <4>1, <4>2, WorkerStepEffect
    <3>. QED
      BY <3>1, <3>2, HeldShrinks
  <2>4. CASE ServerStep
    <3>1. ASSUME NEW m \in finishes, NEW crashed \in BOOLEAN, HandleFinish(m, crashed)
          PROVE  CapInv'
      <4>1. m.run \in Runs /\ m.status # "RUNNING"
        BY DEF Finish, FINAL_STATUSES
      <4>2. UNCHANGED <<owner, atOnce>>
        BY <3>1 DEF HandleFinish
      <4>3. \A q \in Runs : /\ status'[q] = "RUNNING" => status[q] = "RUNNING"
                            /\ runningIdx'[q] \in {runningIdx[q], NoWorker}
        BY <3>1, <4>1 DEF HandleFinish, SyncIndex
      <4>4. claim' = claim \/ claim' = Interrupted
        BY <3>1 DEF HandleFinish
      <4>5. \A q \in Runs : /\ claim'[q] = "no" <=> claim[q] = "no"
                            /\ Locked(q)' => Locked(q)
        BY <4>4, CrashMoves DEF Locked
      <4>6. \A q \in Runs : claim[q] # "no" => owner[q] # NoWorker
        BY <1>2 DEF AssignmentConsistent
      <4>. QED
        BY <4>2, <4>3, <4>5, <4>6, HeldShrinks
    <3>2. ASSUME NEW r \in Runs, RecoverRunning(r) \/ RecoverCanceling(r) PROVE CapInv'
      <4>1. /\ UNCHANGED <<owner, runningIdx, claim, atOnce>>
            /\ \A q \in Runs : status'[q] = "RUNNING" => status[q] = "RUNNING"
        BY <3>2 DEF RecoverRunning, RecoverCanceling
      <4>. QED
        BY <4>1, HeldShrinks DEF Locked
    <3>3. CASE ServerCrash
      <4>1. UNCHANGED <<owner, status, runningIdx, atOnce>> /\ claim' = Interrupted
        BY <3>3 DEF ServerCrash
      <4>2. \A q \in Runs : /\ claim'[q] = "no" <=> claim[q] = "no"
                            /\ Locked(q)' => Locked(q)
        BY <4>1, CrashMoves DEF Locked
      <4>. QED
        BY <4>1, <4>2, HeldShrinks
    <3>4. CASE ServerStart
      <4>1. UNCHANGED <<status, owner, claim, atOnce>>
        BY <3>4 DEF ServerStart
      <4>2. \A q \in Runs : \/ runningIdx'[q] \in {runningIdx[q], NoWorker}
                            \/ status[q] = "RUNNING"
        BY <3>4 DEF ServerStart
      <4>3. \A q \in Runs : claim[q] # "no" => owner[q] # NoWorker
        BY <1>2 DEF AssignmentConsistent
      <4>. QED
        BY <4>1, <4>2, <4>3, HeldShrinks DEF Locked
    <3>5. ASSUME NEW m \in finishes, LoseFinish(m) PROVE CapInv'
      <4>1. UNCHANGED <<status, owner, runningIdx, claim, atOnce>>
        BY <3>5 DEF LoseFinish
      <4>. QED
        BY <4>1, HeldShrinks DEF Locked
    <3>. QED
      BY <2>4, <3>1, <3>2, <3>3, <3>4, <3>5 DEF ServerStep
  <2>5. CASE UNCHANGED vars
    <3>1. UNCHANGED <<status, owner, runningIdx, claim, atOnce>>
      BY <2>5 DEF vars
    <3>. QED
      BY <3>1, HeldShrinks DEF Locked
  <2>. QED
    BY <1>2, <2>1, <2>2, <2>3, <2>4, <2>5 DEF Next
<1>3. TypeOK /\ CapInv => CapRespected
  <2>1. ASSUME TypeOK, CapInv, NEW w \in Workers
        PROVE  Cardinality(RunningOn(w)) <= (Slots - 1) + atOnce[w]
    <3>1. RunningOn(w) \subseteq Held(w)
      BY DEF RunningOn, Held
    <3>2. /\ Cardinality(Held(w)) \in Nat
          /\ Cardinality(RunningOn(w)) \in Nat
          /\ Cardinality(RunningOn(w)) <= Cardinality(Held(w))
      BY <3>1, RunSets, FS_Subset DEF Held, RunningOn
    <3>3. Cardinality(Held(w)) <= (Slots - 1) + atOnce[w] /\ atOnce[w] \in Nat
      BY <2>1 DEF CapInv, TypeOK
    <3>. HIDE DEF Held, RunningOn
    <3>. QED
      BY <3>2, <3>3, SlotsAssumption
  <2>. QED
    BY <2>1 DEF CapRespected
<1>. QED
  BY <1>1, <1>2, <1>3, DispatchTypeOK, DispatchAssignment, DispatchRunningIsCounted, PTL
  DEF Spec

-----------------------------------------------------------------------------
(* With one slot, the orphan verdict of a claim its worker waits for is    *)
(* sound: that worker has no goroutine and no other claim whose reply it   *)
(* would take, so no row of it names a live run or one about to be.  This  *)
(* is the inductive strengthening.                                         *)
OrphanInv ==
  \A r \in Runs : verdictBy[r] = "orphaned" =>
    /\ status[r] \in {"FAILED", "GONE"}
    /\ claim[r] # "awaited"
    /\ \A w \in Workers : job[w][r] \in {"idle", "awaiting"}

(* A worker with one slot that may claim holds no run at all.              *)
LEMMA MayClaimIdle ==
  ASSUME Slots = 1, NEW w \in Workers, MayClaim(w)
  PROVE  \A r \in Runs : job[w][r] = "idle"
<1>1. IsFiniteSet(Busy(w))
  BY RunsAssumption, FS_Subset DEF Busy
<1>2. Cardinality(Busy(w)) = 0
  BY <1>1, FS_CardinalityType DEF MayClaim
<1>3. Busy(w) = {}
  BY <1>1, <1>2, FS_EmptySet
<1>. QED
  BY <1>3 DEF Busy

(* So what the heal of a claim it waits for declares orphaned is held by   *)
(* no worker, and is offered to none.                                      *)
LEMMA HealOrphansIdle ==
  ASSUME TypeOK, AssignmentConsistent, OrphanInv, Slots = 1,
         NEW w \in Workers, MayClaim(w)
  PROVE  \A r \in Runs : HealedVerdicts(w, "orphaned")[r] = "orphaned" =>
           /\ HealedStatus(w)[r] \in {"FAILED", "GONE"}
           /\ claim[r] # "awaited"
           /\ \A v \in Workers : job[v][r] \in {"idle", "awaiting"}
<1> USE DEF TypeOK
<1>1. ASSUME NEW r \in Orphans(w)
      PROVE  claim[r] # "awaited" /\ \A v \in Workers : job[v][r] = "idle"
  <2>1. r \in Runs /\ runningIdx[r] = w
    BY DEF Orphans, Rows
  <2>2. owner[r] = w
    BY <2>1, WorkersAssumption DEF AssignmentConsistent
  <2>3. claim[r] # "awaited"
    BY <2>1, <2>2 DEF MayClaim, Blocked
  <2>. QED
    BY <2>1, <2>2, <2>3, MayClaimIdle DEF AssignmentConsistent
<1>2. ASSUME NEW r \in Runs, r \notin Orphans(w) \/ ~AtCap(w),
             HealedVerdicts(w, "orphaned")[r] = "orphaned"
      PROVE  /\ verdictBy[r] = "orphaned"
             /\ HealedStatus(w)[r] = status[r]
  BY <1>2 DEF HealedVerdicts, HealedStatus
<1>3. ASSUME NEW r \in Runs, r \in Orphans(w), AtCap(w)
      PROVE  HealedStatus(w)[r] = "FAILED"
  BY <1>3 DEF HealedStatus
<1>. QED
  BY <1>1, <1>2, <1>3 DEF OrphanInv

(* The heal of a claim that was given up leaves such verdicts alone.       *)
LEMMA LateHealKeeps ==
  ASSUME TypeOK, OrphanInv, NEW w \in Workers
  PROVE  \A r \in Runs : HealedVerdicts(w, "orphanedLate")[r] = "orphaned" =>
           /\ verdictBy[r] = "orphaned"
           /\ HealedStatus(w)[r] = status[r]
<1>1. ASSUME NEW r \in Runs, HealedVerdicts(w, "orphanedLate")[r] = "orphaned"
      PROVE  verdictBy[r] = "orphaned"
  BY <1>1 DEF HealedVerdicts
<1>2. ASSUME NEW r \in Runs, verdictBy[r] = "orphaned" PROVE HealedStatus(w)[r] = status[r]
  BY <1>2 DEF HealedStatus, Orphans, OrphanInv
<1>. QED
  BY <1>1, <1>2

(* Every step that writes no such verdict, concludes nothing that bears    *)
(* one, starts no such run and offers none keeps the invariant.            *)
LEMMA OrphanKept ==
  ASSUME TypeOK, OrphanInv,
         \A r \in Runs : verdictBy'[r] = "orphaned" =>
           /\ verdictBy[r] = "orphaned"
           /\ status'[r] \in {status[r], "GONE"}
           /\ claim'[r] = "awaited" => claim[r] = "awaited",
         \A w \in Workers, r \in Runs :
           \/ job'[w][r] \in {job[w][r], "idle", "awaiting"}
           \/ verdictBy[r] # "orphaned"
  PROVE  OrphanInv'
BY DEF OrphanInv

(* The verdict of a claim its worker waits for is never passed on a live   *)
(* run, if the worker keeps one slot; claims answered too late do pass it. *)
THEOREM DispatchOrphanVerdictSound ==
  ASSUME Slots = 1
  PROVE  Spec => []OrphanVerdictSound
<1>1. Init => OrphanInv
  BY DEF Init, OrphanInv
<1>2. ASSUME TypeOK, AssignmentConsistent, OrphanInv, [Next]_vars PROVE OrphanInv'
  <2> USE TypeOK, OrphanInv DEF TypeOK
  <2>1. CASE UserStep
    <3>1. ASSUME NEW r \in Runs, NEW post \in Posts, NEW crashed \in BOOLEAN,
                 Create(r, post, crashed)
          PROVE  OrphanInv'
      <4>1. /\ UNCHANGED <<verdictBy, job>>
            /\ verdictBy[r] # "orphaned"
            /\ \A q \in Runs \ {r} : status'[q] = status[q]
            /\ claim' = claim \/ claim' = Interrupted
        BY <3>1 DEF Create, OrphanInv
      <4>2. \A q \in Runs : claim'[q] = "awaited" => claim[q] = "awaited"
        BY <4>1, CrashMoves
      <4>. QED
        BY <4>1, <4>2, OrphanKept
    <3>2. ASSUME NEW r \in Runs, Cancel(r) \/ Stop(r) \/ Delete(r) PROVE OrphanInv'
      BY <3>2 DEF Cancel, Stop, Delete, OrphanInv
    <3>3. ASSUME NEW r \in Runs, NEW to \in Statuses, Patch(r, to) PROVE OrphanInv'
      <4>1. verdictBy[r] = "orphaned" => to = status[r]
        BY <3>3 DEF OrphanInv, Patch, ValidTransition, ALLOWED_TRANSITIONS, Statuses,
                    FINAL_STATUSES
      <4>. QED
        BY <3>3, <4>1 DEF Patch, OrphanInv
    <3>. QED
      BY <2>1, <3>1, <3>2, <3>3 DEF UserStep
  <2>2. CASE ClaimStep
    <3>1. ASSUME NEW w \in Workers, NEW scanDue \in BOOLEAN, PollEmpty(w, scanDue)
          PROVE  OrphanInv'
      <4>1. UNCHANGED <<job, claim>>
        BY <3>1 DEF PollEmpty, ClaimNothing
      <4>2. /\ MayClaim(w)
            /\ status' = HealedStatus(w)
            /\ verdictBy' = HealedVerdicts(w, "orphaned")
        BY <3>1 DEF PollEmpty, ClaimNothing
      <4>. QED
        BY <1>2, <4>1, <4>2, HealOrphansIdle DEF OrphanInv
    <3>2. ASSUME NEW w \in Workers, NEW scanDue \in BOOLEAN, NEW r \in Runs,
                 Claim(w, r, scanDue)
          PROVE  OrphanInv'
      <4>1. /\ MayClaim(w) /\ UNCHANGED job
            /\ verdictBy' = HealedVerdicts(w, "orphaned")
            /\ claim' = [claim EXCEPT ![r] = "awaited"]
            /\ status' = [HealedStatus(w) EXCEPT ![r] = "RUNNING"]
        BY <3>2 DEF Claim, ClaimRun
      <4>2. status[r] = "QUEUED"
        BY <3>2, CandidateIsQueued DEF Claim, ClaimRun, IsOldest
      <4>3. HealedVerdicts(w, "orphaned")[r] # "orphaned"
        BY <4>2 DEF HealedVerdicts, Orphans, Rows, OrphanInv
      <4>4. \A q \in Runs : q # r => status'[q] = HealedStatus(w)[q] /\ claim'[q] = claim[q]
        BY <4>1
      <4>. QED
        BY <1>2, <4>1, <4>3, <4>4, HealOrphansIdle DEF OrphanInv
    <3>3. ASSUME NEW w \in Workers, NEW scanDue \in BOOLEAN, LateClaim(w, scanDue)
          PROVE  OrphanInv'
      <4>1. UNCHANGED job
        BY <3>3 DEF LateClaim
      <4>2. CASE ClaimNothing(w, scanDue, "orphanedLate")
        <5>1. /\ UNCHANGED claim
              /\ status' = HealedStatus(w)
              /\ verdictBy' = HealedVerdicts(w, "orphanedLate")
          BY <4>2 DEF ClaimNothing
        <5>. QED
          BY <4>1, <5>1, LateHealKeeps, OrphanKept
      <4>3. ASSUME NEW r \in Runs, ClaimRun(w, r, scanDue, "orphanedLate", "late")
            PROVE  OrphanInv'
        <5>1. /\ claim' = [claim EXCEPT ![r] = "late"]
              /\ status' = [HealedStatus(w) EXCEPT ![r] = "RUNNING"]
              /\ verdictBy' = HealedVerdicts(w, "orphanedLate")
          BY <4>3 DEF ClaimRun
        <5>2. verdictBy[r] # "orphaned"
          BY <4>3, CandidateIsQueued DEF ClaimRun, IsOldest, OrphanInv
        <5>3. \A q \in Runs : q # r => status'[q] = HealedStatus(w)[q] /\ claim'[q] = claim[q]
          BY <5>1
        <5>. QED
          BY <4>1, <5>1, <5>2, <5>3, LateHealKeeps, OrphanKept
      <4>. QED
        BY <3>3, <4>2, <4>3 DEF LateClaim
    <3>4. ASSUME NEW w \in Workers, NEW r \in Runs, FinishClaim(w, r) PROVE OrphanInv'
      <4>1. /\ UNCHANGED <<verdictBy, status>>
            /\ claim' = [claim EXCEPT ![r] = "done"]
            /\ job' = IF claim[r] = "awaited" THEN [job EXCEPT ![w][r] = "offered"] ELSE job
        BY <3>4 DEF FinishClaim
      <4>2. \A v \in Workers, q \in Runs : job'[v][q] = job[v][q] \/ verdictBy[q] # "orphaned"
        BY <4>1 DEF OrphanInv
      <4>. QED
        BY <4>1, <4>2, OrphanKept
    <3>. QED
      BY <2>2, <3>1, <3>2, <3>3, <3>4 DEF ClaimStep
  <2>3. CASE WorkerStep
    <3>1. ASSUME NEW w \in Workers, AbandonClaim(w) \/ WorkerRestart(w) PROVE OrphanInv'
      BY <3>1 DEF AbandonClaim, WorkerRestart, OrphanInv
    <3>2. ASSUME NEW w \in Workers, AbandonReply(w) \/ WorkerCrash(w) PROVE OrphanInv'
      <4>1. UNCHANGED <<verdictBy, status>> /\ claim' = GivenUp(w)
        BY <3>2 DEF AbandonReply, WorkerCrash
      <4>2. \A q \in Runs : claim'[q] = "awaited" => claim[q] = "awaited"
        BY <4>1, GiveUpMoves
      <4>3. \A v \in Workers, q \in Runs : job'[v][q] \in {job[v][q], "idle"}
        <5>1. CASE AbandonReply(w)
          BY <5>1 DEF AbandonReply
        <5>2. CASE WorkerCrash(w)
          BY <5>2 DEF WorkerCrash
        <5>. QED
          BY <3>2, <5>1, <5>2
      <4>. QED
        BY <4>1, <4>2, <4>3, OrphanKept
    <3>3. ASSUME NEW w \in Workers, NEW r \in Runs, NEW s \in JobStates,
                 s \in {"idle", "awaiting"} \/ job[w][r] \in {"offered", "live"},
                 job' = [job EXCEPT ![w][r] = s], UNCHANGED <<records, claim>>
          PROVE  OrphanInv'
      BY <3>3 DEF OrphanInv
    <3>4. ASSUME NEW w \in Workers, NEW r \in Runs,
                 Launch(w, r) \/ LoseOffer(w, r) \/ PollCanceling(w, r) \/ GiveUpFinish(w, r)
          PROVE  OrphanInv'
      BY <3>3, <3>4 DEF Launch, LoseOffer, PollCanceling, GiveUpFinish, JobStates
    <3>5. ASSUME NEW w \in Workers, NEW r \in Runs,
                 NEW rcZero \in BOOLEAN, NEW seen \in BOOLEAN,
                 Exit(w, r, rcZero, seen) \/ KillFinalized(w, r, seen)
          PROVE  OrphanInv'
      BY <3>3, <3>5 DEF Exit, KillFinalized, SendFinish, JobStates
    <3>. QED
      BY <2>3, <3>1, <3>2, <3>4, <3>5 DEF WorkerStep
  <2>4. CASE ServerStep
    <3>1. ASSUME NEW m \in finishes, NEW crashed \in BOOLEAN, HandleFinish(m, crashed)
          PROVE  OrphanInv'
      <4>1. m.run \in Runs /\ m.worker \in Workers /\ m.status \in FINAL_STATUSES
        BY DEF Finish
      <4>2. \A v \in Workers, q \in Runs : job'[v][q] \in {job[v][q], "idle"}
        BY <3>1, <4>1 DEF HandleFinish
      <4>3. \A q \in Runs : verdictBy'[q] = "orphaned" =>
              verdictBy[q] = "orphaned" /\ status'[q] = status[q]
        <5>1. CASE Accepted(m)
          <6>1. verdictBy[m.run] = "orphaned" => m.status = status[m.run]
            BY <4>1, <5>1 DEF Accepted, OrphanInv, ValidTransition, ALLOWED_TRANSITIONS,
                              Statuses, FINAL_STATUSES
          <6>. QED
            BY <3>1, <4>1, <5>1, <6>1 DEF HandleFinish
        <5>2. CASE ~Accepted(m)
          BY <3>1, <5>2 DEF HandleFinish
        <5>. QED
          BY <5>1, <5>2
      <4>4. claim' = claim \/ claim' = Interrupted
        BY <3>1 DEF HandleFinish
      <4>5. \A q \in Runs : claim'[q] = "awaited" => claim[q] = "awaited"
        BY <4>4, CrashMoves
      <4>. QED
        BY <4>2, <4>3, <4>5, OrphanKept
    <3>2. ASSUME NEW r \in Runs, RecoverRunning(r) \/ RecoverCanceling(r) PROVE OrphanInv'
      BY <3>2 DEF RecoverRunning, RecoverCanceling, OrphanInv
    <3>3. CASE ServerCrash
      <4>1. UNCHANGED <<verdictBy, status, job>> /\ claim' = Interrupted
        BY <3>3 DEF ServerCrash
      <4>2. \A q \in Runs : claim'[q] = "awaited" => claim[q] = "awaited"
        BY <4>1, CrashMoves
      <4>. QED
        BY <4>1, <4>2, OrphanKept
    <3>4. ASSUME ServerStart \/ \E m \in finishes : LoseFinish(m) PROVE OrphanInv'
      BY <3>4 DEF LoseFinish, ServerStart, OrphanInv
    <3>. QED
      BY <2>4, <3>1, <3>2, <3>3, <3>4 DEF ServerStep
  <2>5. CASE UNCHANGED vars
    BY <2>5 DEF vars, OrphanInv
  <2>. QED
    BY <1>2, <2>1, <2>2, <2>3, <2>4, <2>5 DEF Next
<1>3. TypeOK /\ OrphanInv => OrphanVerdictSound
  BY DEF OrphanInv, OrphanVerdictSound
<1>. QED
  BY <1>1, <1>2, <1>3, DispatchTypeOK, DispatchAssignment, PTL DEF Spec

-----------------------------------------------------------------------------
(* Refinement.  The abstract assignment: a workerId counts once a claim    *)
(* has recorded it.                                                        *)
Runner == [r \in Runs |-> IF claim[r] = "no" THEN NoWorker ELSE owner[r]]

(* A step that starts no claim leaves the assignments alone.               *)
LEMMA RunnerKept ==
  ASSUME \A r \in Runs : /\ claim'[r] = "no" <=> claim[r] = "no"
                         /\ owner'[r] = owner[r] \/ claim[r] = "no"
  PROVE  Runner' = Runner
BY DEF Runner

(* If it moves records along legal transitions and launches nothing, it is *)
(* an Advance of the lifecycle.                                            *)
LEMMA AdvanceStep ==
  ASSUME TypeOK', UNCHANGED launches, Runner' = Runner,
         \A r \in Runs : status'[r] = status[r]
                         \/ <<status[r], status'[r]>> \in ALLOWED_TRANSITIONS
  PROVE  Lifecycle!Next
BY DEF TypeOK, Lifecycle!Next, Lifecycle!Advance, Lifecycle!Statuses, Statuses,
       Lifecycle!FINAL_STATUSES, FINAL_STATUSES, Lifecycle!Absent, Absent,
       Lifecycle!ALLOWED_TRANSITIONS, ALLOWED_TRANSITIONS, Runner

(* The self-heal moves records along the legal transitions.                *)
LEMMA HealIsAllowed ==
  ASSUME TypeOK, NEW w \in Workers, NEW r \in Runs
  PROVE  HealedStatus(w)[r] = status[r]
         \/ <<status[r], HealedStatus(w)[r]>> \in ALLOWED_TRANSITIONS
BY DEF TypeOK, HealedStatus, Orphans, ALLOWED_TRANSITIONS

(* A claim that gives a run is an assignment of the lifecycle.             *)
LEMMA ClaimRunAssigns ==
  ASSUME TypeOK, TypeOK', AssignmentConsistent, NEW w \in Workers, NEW r \in Runs,
         NEW scanDue \in BOOLEAN, NEW verdict \in Verdicts,
         NEW stage \in {"awaited", "late"},
         ClaimRun(w, r, scanDue, verdict, stage), UNCHANGED launches
  PROVE  Lifecycle!Next
<1>1. status[r] = "QUEUED" /\ claim[r] = "no"
  BY CandidateIsQueued DEF ClaimRun, IsOldest, AssignmentConsistent
<1>2. /\ status'[r] = "RUNNING"
      /\ owner' = [owner EXCEPT ![r] = w]
      /\ claim' = [claim EXCEPT ![r] = stage]
      /\ \A q \in Runs \ {r} : status'[q] = HealedStatus(w)[q]
  BY DEF ClaimRun, HealedStatus
<1>3. \A q \in Runs \ {r} : status'[q] = status[q]
                            \/ <<status[q], status'[q]>> \in ALLOWED_TRANSITIONS
  BY <1>2, HealIsAllowed
<1>4. Runner' = [Runner EXCEPT ![r] = w]
  BY <1>1, <1>2 DEF Runner, TypeOK
<1>5. Lifecycle!Assign(r, w)
  BY <1>1, <1>2, <1>3, <1>4
  DEF TypeOK, Lifecycle!Assign, Lifecycle!Statuses, Statuses,
      Lifecycle!FINAL_STATUSES, FINAL_STATUSES, Lifecycle!Absent, Absent,
      Lifecycle!ALLOWED_TRANSITIONS, ALLOWED_TRANSITIONS, Runner
<1>. QED
  BY <1>5 DEF Lifecycle!Next

(* The dispatcher implements the abstract lifecycle: final statuses are    *)
(* final, and a run is assigned once and started at most once, by its      *)
(* assignee.                                                               *)
THEOREM DispatchImplementsLifecycle == Spec => ImplementsLifecycle
<1>1. Init => Lifecycle!Init
  BY DEF Init, Lifecycle!Init
<1>2. ASSUME TypeOK, TypeOK', AssignmentConsistent, [Next]_vars
      PROVE  [Lifecycle!Next]_Lifecycle!lifecycleVars
  <2> USE TypeOK, AssignmentConsistent DEF TypeOK
  <2>0. ASSUME UNCHANGED <<status, launches>>, Runner' = Runner
        PROVE  UNCHANGED Lifecycle!lifecycleVars
    BY <2>0 DEF Lifecycle!lifecycleVars, Runner
  <2>1. CASE UserStep
    <3>1. ASSUME NEW r \in Runs, NEW post \in Posts, NEW crashed \in BOOLEAN,
                 Create(r, post, crashed)
          PROVE  Lifecycle!Next
      <4>1. /\ status[r] = "NONE" /\ claim[r] = "no" /\ UNCHANGED launches
            /\ status' = [status EXCEPT ![r] = post.status]
            /\ \A q \in Runs \ {r} : owner'[q] = owner[q]
            /\ claim' = claim \/ claim' = Interrupted
        BY <3>1 DEF Create, AssignmentConsistent
      <4>2. Runner' = Runner
        BY <4>1, CrashMoves, RunnerKept
      <4>3. post.status \in {"QUEUED", "RUNNING"}
        BY PostsAssumption
      <4>4. Lifecycle!Submit(r)
        BY <4>1, <4>2, <4>3 DEF Lifecycle!Submit, Runner
      <4>. QED
        BY <4>4 DEF Lifecycle!Next
    <3>2. ASSUME NEW r \in Runs, Delete(r) PROVE Lifecycle!Next
      <4>1. Runner' = Runner
        BY <3>2, RunnerKept DEF Delete
      <4>. QED
        BY <3>2, <4>1
        DEF Delete, Lifecycle!Next, Lifecycle!Purge, Lifecycle!Statuses, Statuses,
            Lifecycle!FINAL_STATUSES, FINAL_STATUSES, Runner
    <3>3. ASSUME NEW r \in Runs, Cancel(r) \/ Stop(r) PROVE Lifecycle!Next
      <4>1. UNCHANGED <<owner, claim, launches>>
        BY <3>3 DEF Cancel, Stop
      <4>2. \A q \in Runs : status'[q] = status[q]
                           \/ <<status[q], status'[q]>> \in ALLOWED_TRANSITIONS
        BY <3>3 DEF Cancel, Stop, ALLOWED_TRANSITIONS
      <4>. QED
        BY <1>2, <4>1, <4>2, RunnerKept, AdvanceStep
    <3>4. ASSUME NEW r \in Runs, NEW to \in Statuses, Patch(r, to) PROVE Lifecycle!Next
      <4>1. UNCHANGED <<owner, claim, launches>>
        BY <3>4 DEF Patch
      <4>2. \A q \in Runs : status'[q] = status[q]
                           \/ <<status[q], status'[q]>> \in ALLOWED_TRANSITIONS
        BY <3>4 DEF Patch, ValidTransition
      <4>. QED
        BY <1>2, <4>1, <4>2, RunnerKept, AdvanceStep
    <3>. QED
      BY <2>1, <3>1, <3>2, <3>3, <3>4 DEF UserStep
  <2>2. CASE ClaimStep
    <3>. /\ "orphaned" \in Verdicts /\ "orphanedLate" \in Verdicts
      BY DEF Verdicts
    <3>1. ASSUME NEW w \in Workers, NEW scanDue \in BOOLEAN, NEW verdict \in Verdicts,
                 ClaimNothing(w, scanDue, verdict), UNCHANGED launches
          PROVE  Lifecycle!Next
      <4>1. UNCHANGED <<owner, claim>> /\ status' = HealedStatus(w)
        BY <3>1 DEF ClaimNothing
      <4>2. Runner' = Runner
        BY <4>1, RunnerKept
      <4>. QED
        BY <1>2, <3>1, <4>1, <4>2, HealIsAllowed, AdvanceStep
    <3>2. ASSUME NEW w \in Workers, NEW scanDue \in BOOLEAN, PollEmpty(w, scanDue)
          PROVE  Lifecycle!Next
      BY <3>1, <3>2 DEF PollEmpty
    <3>3. ASSUME NEW w \in Workers, NEW scanDue \in BOOLEAN, NEW r \in Runs,
                 Claim(w, r, scanDue)
          PROVE  Lifecycle!Next
      BY <1>2, <3>3, ClaimRunAssigns DEF Claim
    <3>4. ASSUME NEW w \in Workers, NEW scanDue \in BOOLEAN, LateClaim(w, scanDue)
          PROVE  Lifecycle!Next
      <4>1. UNCHANGED launches
        BY <3>4 DEF LateClaim
      <4>2. CASE ClaimNothing(w, scanDue, "orphanedLate")
        BY <3>1, <4>1, <4>2
      <4>3. CASE \E r \in Runs : ClaimRun(w, r, scanDue, "orphanedLate", "late")
        BY <1>2, <4>1, <4>3, ClaimRunAssigns
      <4>. QED
        BY <3>4, <4>2, <4>3 DEF LateClaim
    <3>5. ASSUME NEW w \in Workers, NEW r \in Runs, FinishClaim(w, r)
          PROVE  UNCHANGED Lifecycle!lifecycleVars
      <4>1. /\ UNCHANGED <<status, owner, launches>>
            /\ claim' = [claim EXCEPT ![r] = "done"]
            /\ Locked(r)
        BY <3>5 DEF FinishClaim, Open
      <4>2. Runner' = Runner
        BY <4>1, RunnerKept DEF Locked
      <4>. QED
        BY <2>0, <4>1, <4>2
    <3>. QED
      BY <2>2, <3>2, <3>3, <3>4, <3>5 DEF ClaimStep
  <2>3. CASE WorkerStep
    <3>1. ASSUME NEW w \in Workers, NEW r \in Runs, Launch(w, r) PROVE Lifecycle!Next
      <4>1. owner[r] = w /\ claim[r] = "done" /\ \A v \in Workers : launches[r][v] = 0
        BY <3>1 DEF Launch, AssignmentConsistent
      <4>2. launches' = [launches EXCEPT ![r][w] = 1]
        <5>1. launches[r][w] + 1 = 1
          BY <4>1
        <5>2. launches' = [launches EXCEPT ![r] = [launches[r] EXCEPT ![w] = launches[r][w] + 1]]
          BY <3>1, Zenon DEF Launch
        <5>. QED
          BY <5>1, <5>2
      <4>3. Runner' = Runner /\ UNCHANGED status
        BY <3>1, RunnerKept DEF Launch
      <4>4. Lifecycle!Launch(r, w)
        BY <4>1, <4>2, <4>3 DEF Lifecycle!Launch, Runner
      <4>. QED
        BY <4>4 DEF Lifecycle!Next
    <3>2. ASSUME NEW w \in Workers,
                 \/ AbandonClaim(w) \/ AbandonReply(w) \/ WorkerCrash(w) \/ WorkerRestart(w)
                 \/ \E r \in Runs :
                      \/ LoseOffer(w, r) \/ PollCanceling(w, r) \/ GiveUpFinish(w, r)
                      \/ \E rcZero, seen \in BOOLEAN : Exit(w, r, rcZero, seen)
                      \/ \E seen \in BOOLEAN : KillFinalized(w, r, seen)
          PROVE  UNCHANGED launches
      BY <3>2 DEF AbandonClaim, AbandonReply, WorkerCrash, WorkerRestart, LoseOffer,
                  PollCanceling, GiveUpFinish, Exit, KillFinalized, SendFinish
    <3>3. Runner' = Runner /\ UNCHANGED status
      <4>1. \A w \in Workers : claim' = GivenUp(w) =>
              \A r \in Runs : claim'[r] = "no" <=> claim[r] = "no"
        BY GiveUpMoves
      <4>. QED
        BY <2>3, <4>1, WorkerStepEffect, RunnerKept
    <3>. QED
      BY <2>0, <2>3, <3>1, <3>2, <3>3 DEF WorkerStep
  <2>4. CASE ServerStep
    <3>1. ASSUME NEW m \in finishes, NEW crashed \in BOOLEAN, HandleFinish(m, crashed)
          PROVE  Lifecycle!Next
      <4>1. UNCHANGED <<owner, launches>> /\ (claim' = claim \/ claim' = Interrupted)
        BY <3>1 DEF HandleFinish
      <4>2. \A r \in Runs : status'[r] = status[r]
                           \/ <<status[r], status'[r]>> \in ALLOWED_TRANSITIONS
        BY <3>1 DEF HandleFinish, Accepted, ValidTransition
      <4>3. Runner' = Runner
        BY <4>1, CrashMoves, RunnerKept
      <4>. QED
        BY <1>2, <4>1, <4>2, <4>3, AdvanceStep
    <3>2. ASSUME NEW r \in Runs, RecoverRunning(r) \/ RecoverCanceling(r)
          PROVE  Lifecycle!Next
      <4>1. UNCHANGED <<owner, claim, launches>>
        BY <3>2 DEF RecoverRunning, RecoverCanceling
      <4>2. \A q \in Runs : status'[q] = status[q]
                           \/ <<status[q], status'[q]>> \in ALLOWED_TRANSITIONS
        BY <3>2 DEF RecoverRunning, RecoverCanceling, ALLOWED_TRANSITIONS
      <4>. QED
        BY <1>2, <4>1, <4>2, RunnerKept, AdvanceStep
    <3>3. ASSUME (\E m \in finishes : LoseFinish(m)) \/ ServerCrash \/ ServerStart
          PROVE  UNCHANGED Lifecycle!lifecycleVars
      <4>1. UNCHANGED <<status, owner, launches>> /\ (claim' = claim \/ claim' = Interrupted)
        BY <3>3 DEF LoseFinish, ServerCrash, ServerStart
      <4>2. Runner' = Runner
        BY <4>1, CrashMoves, RunnerKept
      <4>. QED
        BY <2>0, <4>1, <4>2
    <3>. QED
      BY <2>4, <3>1, <3>2, <3>3 DEF ServerStep
  <2>5. CASE UNCHANGED vars
    BY <2>5 DEF vars, Lifecycle!lifecycleVars
  <2>. QED
    BY <1>2, <2>1, <2>2, <2>3, <2>4, <2>5 DEF Next
<1>. QED
  BY <1>1, <1>2, DispatchTypeOK, DispatchAssignment, PTL
  DEF Spec, ImplementsLifecycle, Lifecycle!Spec
=============================================================================
