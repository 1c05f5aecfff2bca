---------------------------- MODULE RunLifecycle ----------------------------
(***************************************************************************)
(* What the dispatcher promises about every run, independent of how        *)
(* records, index rows, requests and worker processes achieve it:          *)
(*                                                                         *)
(*   - a record moves only along ALLOWED_TRANSITIONS until it is purged;   *)
(*   - it is submitted queued, or running on account of its submitter;     *)
(*   - it is assigned to at most one worker, while it is queued, and the   *)
(*     assignment never changes;                                           *)
(*   - the assigned worker, and no other, launches it, at most once.       *)
(*                                                                         *)
(* A purged record has no worker left to check a launch against, so the    *)
(* assignment outlives the record here.                                    *)
(***************************************************************************)
EXTENDS ExecutionStatus, Naturals

CONSTANTS Runs, Workers, NoWorker

VARIABLES
  phase,      \* [Runs -> Statuses \cup Absent]
  runner,     \* the worker a run was assigned to
  launches    \* launches[r][w]: times w has started r's process

lifecycleVars == <<phase, runner, launches>>

Init ==
  /\ phase = [r \in Runs |-> "NONE"]
  /\ runner = [r \in Runs |-> NoWorker]
  /\ launches = [r \in Runs |-> [w \in Workers |-> 0]]

Submit(r) ==
  /\ phase[r] = "NONE"
  /\ \E initial \in {"QUEUED", "RUNNING"} : phase' = [phase EXCEPT ![r] = initial]
  /\ UNCHANGED <<runner, launches>>

Launch(r, w) ==
  /\ runner[r] = w
  /\ \A v \in Workers : launches[r][v] = 0
  /\ launches' = [launches EXCEPT ![r][w] = 1]
  /\ UNCHANGED <<phase, runner>>

(* Any number of records may move in one step: the dispatcher's self-heal  *)
(* rewrites all of a worker's records while it answers one claim.          *)
Advance ==
  /\ phase' \in [Runs -> Statuses \cup Absent]
  /\ \A r \in Runs : phase'[r] = phase[r]
                     \/ <<phase[r], phase'[r]>> \in ALLOWED_TRANSITIONS
  /\ UNCHANGED <<runner, launches>>

(* A queued run is assigned; the claim may have healed other records.      *)
Assign(r, w) ==
  /\ phase[r] = "QUEUED"
  /\ phase' \in [Runs -> Statuses \cup Absent]
  /\ phase'[r] = "RUNNING"
  /\ \A q \in Runs \ {r} : phase'[q] = phase[q]
                           \/ <<phase[q], phase'[q]>> \in ALLOWED_TRANSITIONS
  /\ runner' = [runner EXCEPT ![r] = w]
  /\ UNCHANGED launches

Purge(r) ==
  /\ phase[r] \in Statuses
  /\ phase' = [phase EXCEPT ![r] = "GONE"]
  /\ UNCHANGED <<runner, launches>>

Next ==
  \/ \E r \in Runs : Submit(r) \/ Purge(r)
  \/ Advance
  \/ \E r \in Runs, w \in Workers : Assign(r, w) \/ Launch(r, w)

Spec == Init /\ [][Next]_lifecycleVars
=============================================================================
