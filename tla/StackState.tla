---------------------------- MODULE StackState ----------------------------
(***************************************************************************)
(* The OpenTofu state of one cloud stack: the lock file that apply,        *)
(* destroy and refresh take, the version history, rollback, and the tofu   *)
(* processes on the workers that the lock is there to keep apart.          *)
(*                                                                         *)
(* A request is an HTTP call at the grain of its file operations.  The     *)
(* lock is released lazily: whoever reads it finds that its run has ended. *)
(***************************************************************************)
EXTENDS ExecutionStatus, Integers, Sequences, FiniteSets

CONSTANTS
  Requests,     \* calls about this stack, each made once
  Kind,         \* Kind[q]: what q asks for; a run has its request's name
  MaxVersions,
  NoLock, NoState, OldState,
  Allowed       \* which of Mishaps may happen

Kinds == {"apply", "lock", "unlock", "rollback", "snapshot", "overview"}

(* Two requests at once; a run that outlasts recovery's time limit; a      *)
(* record purged from the history; a lock broken by force; a server crash. *)
Mishaps == {"overlap", "long", "purge", "force", "crash"}

Of(kind) == {q \in Requests : Kind[q] = kind}
Runs == Of("apply")

ASSUME RequestsAssumption == Kind \in [Requests -> Kinds] /\ IsFiniteSet(Requests)
ASSUME ConstantsAssumption ==
  /\ MaxVersions \in Nat \ {0}
  /\ NoLock \notin Requests
  /\ {NoState, OldState} \cap Requests = {} /\ NoState # OldState
  /\ Allowed \subseteq Mishaps

(* A state is told apart by the run that wrote it last, a version by the   *)
(* request that took it.                                                   *)
States == Runs \cup {OldState}
Versions == [id : Requests, state : States, runs : SUBSET Runs]
Files == [id : Requests, state : States]

VARIABLES
  lock,          \* the request whose lock is in state-lock.json
  versions,      \* index.json, newest first
  files,         \* the version files
  tfstate,
  status,        \* each run's record
  tofu,          \* each run's process on its worker
  pc, reply,     \* each request's next step and answer
  seen,          \* the ended run's lock it is about to release
  copy,          \* the state and index it has read for its snapshot
  target         \* the version it rolls back to

vars == <<lock, versions, files, tfstate, status, tofu, pc, reply, seen, copy, target>>
runVars == <<status, tofu>>
requestVars == <<pc, reply, seen, copy, target>>

Steps == {"start", "compare", "unlink", "create", "target", "snapshot", "save",
          "index", "acquire", "write", "restore", "done"}
Replies == {"none", "ok", "refused", "failed"}
Processes == {"idle", "claimed", "running", "ended"}

Histories == UNION {[1 .. n -> Versions] : n \in 0 .. MaxVersions}

TypeOK ==
  /\ lock \in Requests \cup {NoLock}
  /\ versions \in Histories
  /\ files \in SUBSET Files
  /\ tfstate \in States \cup {NoState}
  /\ status \in [Runs -> Statuses \cup Absent]
  /\ tofu \in [Runs -> Processes]
  /\ pc \in [Requests -> Steps]
  /\ reply \in [Requests -> Replies]
  /\ seen \in [Requests -> Requests \cup {NoLock}]
  /\ copy \in [Requests -> [state : States \cup {NoState}, versions : Histories]]
  /\ target \in [Requests -> Requests \cup {NoLock}]

Init ==
  /\ lock = NoLock
  /\ versions = <<>> /\ files = {}
  /\ tfstate \in {NoState, OldState}
  /\ status = [r \in Runs |-> "NONE"]
  /\ tofu = [r \in Runs |-> "idle"]
  /\ pc = [q \in Requests |-> "start"]
  /\ reply = [q \in Requests |-> "none"]
  /\ seen = [q \in Requests |-> NoLock]
  /\ copy = [q \in Requests |-> [state |-> NoState, versions |-> <<>>]]
  /\ target = [q \in Requests |-> NoLock]

-----------------------------------------------------------------------------
Goto(q, step) == pc' = [pc EXCEPT ![q] = step] /\ UNCHANGED reply
Answer(q, answer) ==
  /\ pc' = [pc EXCEPT ![q] = "done"]
  /\ reply' = [reply EXCEPT ![q] = answer]

Idle(q) == pc[q] \in {"start", "done"}

(* A request comes in, alone unless requests may overlap.                  *)
Arrives(q) ==
  /\ pc[q] = "start"
  /\ "overlap" \in Allowed \/ \A p \in Requests : Idle(p)

(* Where a handler goes once read_lock has returned None.                  *)
Unlocked(q) ==
  CASE Kind[q] = "apply" -> IF status[q] = "NONE" THEN "create" ELSE "write"
    [] Kind[q] = "lock" -> "write"
    [] Kind[q] = "rollback" -> "target"
    [] Kind[q] = "overview" -> "done"

(* Mutant: a run that is being canceled no longer counts.                  *)
StaleCanceling(l) == l \in Runs /\ status[l] \in FINAL_STATUSES \cup {"CANCELING"}
Stale(l) == l \in Runs /\ status[l] \in FINAL_STATUSES

ReadsLock(q) ==
  \/ Kind[q] \in {"apply", "lock", "rollback", "overview"} /\ Arrives(q)
  \/ pc[q] = "acquire"

FindUnlocked(q) ==
  /\ ReadsLock(q)
  /\ lock = NoLock
  /\ Goto(q, Unlocked(q))
  /\ UNCHANGED <<lock, versions, files, tfstate, runVars, seen, copy, target>>

FindStale(q) ==
  /\ ReadsLock(q)
  /\ lock # NoLock /\ Stale(lock)
  /\ seen' = [seen EXCEPT ![q] = lock]
  /\ Goto(q, "compare")
  /\ UNCHANGED <<lock, versions, files, tfstate, runVars, copy, target>>

(* A lock found when a run's own is to be taken goes unnoticed: the result *)
(* of acquire_lock is not looked at.                                       *)
FindLocked(q) ==
  /\ ReadsLock(q)
  /\ lock # NoLock /\ ~Stale(lock)
  /\ Answer(q, IF Kind[q] = "overview" \/ pc[q] = "acquire" THEN "ok" ELSE "refused")
  /\ UNCHANGED <<lock, versions, files, tfstate, runVars, seen, copy, target>>

(* release_lock reads the file again and unlinks it when it is the same    *)
(* lock; either way read_lock returns None.                                *)
Compare(q) ==
  /\ pc[q] = "compare"
  /\ Goto(q, IF lock = seen[q] THEN "unlink" ELSE Unlocked(q))
  /\ UNCHANGED <<lock, versions, files, tfstate, runVars, seen, copy, target>>

Unlink(q) ==
  /\ pc[q] = "unlink"
  /\ lock' = NoLock
  /\ Goto(q, Unlocked(q))
  /\ UNCHANGED <<versions, files, tfstate, runVars, seen, copy, target>>

(* The run is queued first; its snapshot and its lock follow.              *)
CreateRun(q) ==
  /\ pc[q] = "create"
  /\ status' = [status EXCEPT ![q] = "QUEUED"]
  /\ Goto(q, "snapshot")
  /\ UNCHANGED <<lock, versions, files, tfstate, tofu, seen, copy, target>>

WriteLock(q) ==
  /\ pc[q] = "write"
  /\ lock' = q
  /\ Answer(q, "ok")
  /\ UNCHANGED <<versions, files, tfstate, runVars, seen, copy, target>>

(* DELETE .../lock names no lock: it removes what is there.                *)
Release(q) ==
  /\ Kind[q] = "unlock" /\ Arrives(q)
  /\ lock \in Runs => "force" \in Allowed
  /\ lock' = NoLock
  /\ Answer(q, "ok")
  /\ UNCHANGED <<versions, files, tfstate, runVars, seen, copy, target>>

-----------------------------------------------------------------------------
(* snapshot_state: read the state and the index, then write the version    *)
(* file, unlink those beyond the window and write the index.               *)
ReadForSnapshot(q) ==
  /\ pc[q] = "snapshot" \/ (Kind[q] = "snapshot" /\ Arrives(q))
  /\ copy' = [copy EXCEPT ![q] = [state |-> tfstate, versions |-> versions]]
  /\ Goto(q, "save")
  /\ UNCHANGED <<lock, versions, files, tfstate, runVars, seen, target>>

AfterSnapshot(q) ==
  CASE Kind[q] = "apply" -> Goto(q, "acquire")
    [] Kind[q] = "rollback" -> Goto(q, "restore")
    [] Kind[q] = "snapshot" -> Answer(q, "ok")

Newest(q) == copy[q].versions # <<>> /\ copy[q].versions[1].state = copy[q].state
ForRun(q) == {q} \cap Runs

(* No state, or the newest version's: no new version.  A run is noted as   *)
(* having started from the newest; a snapshot by hand is turned down.      *)
KeepVersions(q) ==
  /\ pc[q] = "save"
  /\ copy[q].state = NoState \/ Newest(q)
  /\ versions' = IF Newest(q) /\ q \in Runs
                 THEN [copy[q].versions EXCEPT ![1].runs = @ \cup {q}]
                 ELSE versions
  /\ IF Kind[q] = "snapshot" THEN Answer(q, "refused") ELSE AfterSnapshot(q)
  /\ UNCHANGED <<lock, files, tfstate, runVars, seen, copy, target>>

(* Mutants: the window is not applied to the index; its newest go.         *)
KeptAll(v) == v
KeptOldest(v) == SubSeq(v, IF Len(v) > MaxVersions THEN 1 + Len(v) - MaxVersions ELSE 1, Len(v))
Kept(v) == SubSeq(v, 1, IF Len(v) > MaxVersions THEN MaxVersions ELSE Len(v))

(* The index with q's version in front.                                    *)
Extended(q) ==
  <<[id |-> q, state |-> copy[q].state, runs |-> ForRun(q)]>> \o copy[q].versions

AddFile(q) ==
  /\ pc[q] = "save"
  /\ copy[q].state # NoState /\ ~Newest(q)
  /\ LET all == Extended(q)
         pruned == {all[i].id : i \in MaxVersions + 1 .. Len(all)}
     IN files' = {f \in files \cup {[id |-> q, state |-> copy[q].state]} : f.id \notin pruned}
  /\ Goto(q, "index")
  /\ UNCHANGED <<lock, versions, tfstate, runVars, seen, copy, target>>

SaveIndex(q) ==
  /\ pc[q] = "index"
  /\ versions' = Kept(Extended(q))
  /\ AfterSnapshot(q)
  /\ UNCHANGED <<lock, files, tfstate, runVars, seen, copy, target>>

(* rollback_state: does the version exist?  Snapshot; copy it over.        *)
FindVersion(q) ==
  /\ pc[q] = "target"
  /\ IF files = {} THEN Answer(q, "refused") /\ UNCHANGED target
     ELSE /\ \E f \in files : target' = [target EXCEPT ![q] = f.id]
          /\ Goto(q, "snapshot")
  /\ UNCHANGED <<lock, versions, files, tfstate, runVars, seen, copy>>

Restore(q) ==
  /\ pc[q] = "restore"
  /\ \/ \E f \in files :
          /\ f.id = target[q]
          /\ tfstate' = f.state
          /\ Answer(q, "ok")
     \/ /\ \A f \in files : f.id # target[q]
        /\ Answer(q, "failed")
        /\ UNCHANGED tfstate
  /\ UNCHANGED <<lock, versions, files, runVars, seen, copy, target>>

(* The server dies with the requests it was serving.                       *)
Crash ==
  /\ "crash" \in Allowed
  /\ \E q \in Requests : ~Idle(q)
  /\ pc' = [q \in Requests |-> IF pc[q] = "start" THEN "start" ELSE "done"]
  /\ UNCHANGED <<lock, versions, files, tfstate, runVars, reply, seen, copy, target>>

-----------------------------------------------------------------------------
(* The run's record and its process on the worker.                         *)
SetStatus(r, s) ==
  /\ status' = [status EXCEPT ![r] = s]
  /\ UNCHANGED <<lock, versions, files, tfstate, tofu, requestVars>>

SetTofu(r, p) ==
  /\ tofu' = [tofu EXCEPT ![r] = p]
  /\ UNCHANGED <<lock, versions, files, status, requestVars>>

Claim(r) ==
  /\ status[r] = "QUEUED"
  /\ status' = [status EXCEPT ![r] = "RUNNING"]
  /\ tofu' = [tofu EXCEPT ![r] = "claimed"]
  /\ UNCHANGED <<lock, versions, files, tfstate, requestVars>>

(* Installation and the policy gate come first; nobody looks at the record *)
(* in between.                                                             *)
Launch(r) == tofu[r] = "claimed" /\ SetTofu(r, "running") /\ UNCHANGED tfstate

WriteState(r) ==
  /\ tofu[r] = "running"
  /\ tfstate' = r
  /\ SetTofu(r, "running")

(* tofu ends, is killed, or never starts: its worker reports or dies.      *)
Exit(r) == tofu[r] \in {"claimed", "running"} /\ SetTofu(r, "ended") /\ UNCHANGED tfstate

Finish(r, outcome) ==
  /\ tofu[r] = "ended"
  /\ status[r] \in {"RUNNING", "CANCELING"} /\ ValidTransition(status[r], outcome)
  /\ SetStatus(r, outcome)

Cancel(r) == status[r] = "QUEUED" /\ SetStatus(r, "CANCELED")
Stop(r) == status[r] = "RUNNING" /\ SetStatus(r, "CANCELING")

(* Recovery goes by the age of the run or of the request to stop it.       *)
MayRecover(r) == tofu[r] = "ended" \/ "long" \in Allowed

Recover(r) ==
  /\ MayRecover(r)
  /\ \/ status[r] = "RUNNING" /\ SetStatus(r, "FAILED")
     \/ status[r] = "CANCELING" /\ SetStatus(r, "CANCELED")

Purge(r) ==
  /\ "purge" \in Allowed
  /\ status[r] \in Statuses
  /\ SetStatus(r, "GONE")

AllAnswered ==
  /\ \A q \in Requests : pc[q] = "done" \/ (Kind[q] = "unlock" /\ lock \in Runs)
  /\ \A r \in Runs : status[r] \in FINAL_STATUSES \cup Absent
                     /\ tofu[r] \in {"idle", "ended"}
  /\ UNCHANGED vars

Next ==
  \/ \E q \in Requests :
       \/ FindUnlocked(q) \/ FindStale(q) \/ FindLocked(q)
       \/ Compare(q) \/ Unlink(q)
       \/ CreateRun(q) \/ WriteLock(q) \/ Release(q)
       \/ ReadForSnapshot(q) \/ KeepVersions(q) \/ AddFile(q) \/ SaveIndex(q)
       \/ FindVersion(q) \/ Restore(q)
  \/ Crash
  \/ \E r \in Runs :
       \/ Claim(r) \/ Launch(r) \/ WriteState(r) \/ Exit(r)
       \/ \E outcome \in FINAL_STATUSES : Finish(r, outcome)
       \/ Cancel(r) \/ Stop(r) \/ Recover(r) \/ Purge(r)
  \/ AllAnswered

Spec == Init /\ [][Next]_vars

-----------------------------------------------------------------------------
(* Who writes the stack's state now, or is about to without looking again. *)
Mutators ==
  {r \in Runs : tofu[r] = "running"}
    \cup {q \in Of("rollback") : pc[q] \in {"snapshot", "save", "index", "restore"}}

(* "Apply, destroy and refresh are blocked until it is released": no two   *)
(* tofu processes, and no rollback and tofu, work on the state together.   *)
Exclusive == \A p, q \in Mutators : p = q

(* Nobody but a user who forces it takes the lock away from a live run.    *)
Live(r) == status[r] \in Statuses \ FINAL_STATUSES
LockKept ==
  [][\A r \in Runs : lock = r /\ Live(r) /\ lock' # r =>
       \E q \in Of("unlock") : pc'[q] # pc[q]]_vars

(* "Take the lock + snapshot first": the version noted as the one a run    *)
(* started from does not hold what that run wrote.                         *)
SnapshotFirst ==
  \A i \in 1 .. Len(versions) : \A r \in versions[i].runs : versions[i].state # r

(* With no snapshot under way, every version in the index can be opened.   *)
VersionsHaveFiles ==
  (\A q \in Requests : pc[q] # "index") =>
  \A i \in 1 .. Len(versions) : \E f \in files :
    f.id = versions[i].id /\ f.state = versions[i].state

(* "So a rollback is itself reversible": the state a rollback overwrites   *)
(* is among the versions.                                                  *)
RollbackKeeps ==
  [][\A q \in Of("rollback") :
       reply[q] = "none" /\ reply'[q] = "ok" /\ tfstate # NoState =>
         \E i \in 1 .. Len(versions) : versions[i].state = tfstate]_vars

(* And so is the version it was asked for: a rollback to a version that    *)
(* was found does not fail for want of it.                                 *)
RollbackRestores == \A q \in Requests : reply[q] # "failed"
=============================================================================
