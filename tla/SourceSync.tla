----------------------------- MODULE SourceSync -----------------------------
(***************************************************************************)
(* The synchronisation of a project's sources, its repo and its stacks,    *)
(* with local paths or git remotes.  A sync runs in a thread of its own; a *)
(* table under a lock lets one at a time run for a source, but two         *)
(* requests pull in their own thread, past the table.  The status of every *)
(* source is in one file, which each thread reads and writes back whole    *)
(* without a lock, and git commands run in the working directory of the    *)
(* server process, which all threads share.  What the syncs copy is not    *)
(* modelled.                                                               *)
(***************************************************************************)
EXTENDS Sequences, Naturals

CONSTANTS
  Sources,      \* the sources of a project
  SyncThreads,  \* bound: threads that may be syncing or waiting to clean up
  MaxRestarts   \* bound on restarts of the server

ASSUME SyncAssumption == "server" \notin Sources /\ MaxRestarts \in Nat

VARIABLES
  mode,       \* [Sources -> "local" or "git"], from project.json
  workDir,    \* the working directory of the server process
  active,     \* _active_jobs: [Sources -> the job's direction and status]
  sync,       \* [SyncThreads -> what a thread is doing]
  syncState,  \* .sync_state.json: which directions of a source are "running"
  disturbed,  \* two syncs have collided, or a restart broke one off (history)
  restarts

syncVars == <<mode, workDir, active, sync, syncState, disturbed, restarts>>
configured == <<mode, restarts>>

(* A status other than "running" is as good as none; a file that cannot be *)
(* parsed reads as empty.                                                  *)
Directions == {"push", "pull"}
States == [Sources -> SUBSET Directions]
NoneRunning == [k \in Sources |-> {}]

NoJob == [direction |-> "none", status |-> "none"]
Jobs == {NoJob} \cup [direction : Directions \cup {"both"},
                      status : {"running", "ok", "failed"}]

(* A thread saves a status for the first of the directions it has left: it *)
(* loads the file, truncates it and dumps, and goes on.                    *)
SyncSteps == {"load", "truncate", "dump", "transfer", "enter", "command",
              "leave", "finish", "cleanup"}
Lefts == {<<>>, <<"push">>, <<"pull">>, <<"pull", "push">>, <<"push", "pull">>}
NoSync == [step |-> "idle"]
Syncing == [step : SyncSteps, source : Sources, left : Lefts,
            saving : {"running", "ok", "failed"}, loaded : States,
            home : Sources \cup {"server"}, job : BOOLEAN]

Working(k) ==
  {t \in SyncThreads : /\ sync[t] # NoSync
                       /\ sync[t].source = k
                       /\ sync[t].step # "cleanup"}

SyncTypeOK ==
  /\ mode \in [Sources -> {"local", "git"}]
  /\ workDir \in Sources \cup {"server"}
  /\ active \in [Sources -> Jobs]
  /\ sync \in [SyncThreads -> Syncing \cup {NoSync}]
  /\ syncState \in States
  /\ disturbed \in BOOLEAN
  /\ restarts \in 0..MaxRestarts

SyncInit ==
  /\ mode \in [Sources -> {"local", "git"}]
  /\ workDir = "server"
  /\ active = [k \in Sources |-> NoJob]
  /\ sync = [t \in SyncThreads |-> NoSync]
  /\ syncState = NoneRunning
  /\ disturbed = FALSE
  /\ restarts = 0

SyncAt(t, step) == sync[t] # NoSync /\ sync[t].step = step
SyncGoes(t, step) == sync' = [sync EXCEPT ![t].step = step]
Src(t) == sync[t].source
Dir(t) == Head(sync[t].left)

-----------------------------------------------------------------------------
(* start_sync, under the lock of the job table: a finished job gives way.  *)
(* A sync of both directions first looks for a conflict, on a local path,  *)
(* and saves what it finds as the failure of both.                         *)
Began(k, left, saving) ==
  [step |-> "load", source |-> k, left |-> left, saving |-> saving,
   loaded |-> NoneRunning, home |-> "server", job |-> TRUE]
NewJob(t, k, direction) ==
  /\ sync[t] = NoSync
  /\ active[k].status # "running"
  /\ active' = [active EXCEPT ![k] =
                  [direction |-> direction, status |-> "running"]]
  /\ UNCHANGED <<workDir, syncState, configured>>
InTurn(direction) ==
  IF direction = "both" THEN <<"pull", "push">> ELSE <<direction>>

StartSync(t, k, direction) ==
  /\ NewJob(t, k, direction)
  /\ \/ sync' = [sync EXCEPT ![t] = Began(k, InTurn(direction), "running")]
     \/ /\ direction = "both" /\ mode[k] = "local"
        /\ sync' = [sync EXCEPT ![t] = Began(k, <<"push", "pull">>, "failed")]

(* The older request for a sync of git, and a change of the configuration  *)
(* that finds the storage empty, pull without a job.                       *)
PullInRequest(t, k) ==
  /\ sync[t] = NoSync
  /\ sync' = [sync EXCEPT ![t] =
                [Began(k, <<"pull">>, "running") EXCEPT !.job = FALSE]]
  /\ UNCHANGED <<workDir, active, syncState, configured>>

(* get_sync_state adds the direction of a running job, but not of one for  *)
(* both.  The scheduler of automatic syncs passes over such a source.      *)
SeenRunning(k) == syncState[k] # {} \/ active[k].direction \in Directions
AutoSync(t, k) ==
  /\ ~SeenRunning(k)
  /\ \E direction \in Directions \cup {"both"} : StartSync(t, k, direction)

-----------------------------------------------------------------------------
(* _update_sync_state.                                                     *)
LoadStatus(t) ==
  /\ SyncAt(t, "load")
  /\ sync' = [sync EXCEPT ![t].step = "truncate", ![t].loaded = syncState]
  /\ UNCHANGED <<workDir, active, syncState, configured>>

TruncateStatus(t) ==
  /\ SyncAt(t, "truncate")
  /\ syncState' = NoneRunning
  /\ SyncGoes(t, "dump")
  /\ UNCHANGED <<workDir, active, configured>>

(* What follows a saved status: the transfer, the other direction, the end.*)
AfterSave(t) ==
  LET left == sync[t].left
      next(step, rest, saving) ==
        [sync[t] EXCEPT !.step = step, !.left = rest, !.saving = saving,
                        !.loaded = NoneRunning]
  IN
  CASE sync[t].saving = "running" -> next("transfer", left, "running")
    [] sync[t].saving = "ok" /\ Len(left) = 2 ->
         next("load", Tail(left), "running")
    [] sync[t].saving = "failed" /\ left = <<"push", "pull">> ->
         next("load", <<"pull">>, "failed")
    [] OTHER -> next("finish", <<>>, sync[t].saving)

DumpStatus(t) ==
  /\ SyncAt(t, "dump")
  /\ syncState' = [sync[t].loaded EXCEPT ![Src(t)] =
                     IF sync[t].saving = "running" THEN @ \cup {Dir(t)}
                     ELSE @ \ {Dir(t)}]
  /\ sync' = [sync EXCEPT ![t] = AfterSave(t)]
  /\ UNCHANGED <<workDir, active, configured>>

-----------------------------------------------------------------------------
(* The copy, and for git the refresh of the clone before it.  Paths,       *)
(* permissions and the network may each be the end of it.                  *)
Conclude(t, status) ==
  sync' = [sync EXCEPT ![t].step = "load", ![t].saving = status]

(* Mutant: a failure is returned before it is saved.                       *)
CopyUnsaved(t) ==
  /\ SyncAt(t, "transfer")
  /\ \/ sync' = [sync EXCEPT ![t].step = "finish", ![t].left = <<>>,
                             ![t].saving = "failed"]
     \/ mode[Src(t)] = "local" /\ Conclude(t, "ok")
     \/ mode[Src(t)] = "git" /\ SyncGoes(t, "enter")
  /\ UNCHANGED <<workDir, active, syncState, configured>>
Copy(t) ==
  /\ SyncAt(t, "transfer")
  /\ \/ Conclude(t, "failed")
     \/ mode[Src(t)] = "local" /\ Conclude(t, "ok")
     \/ mode[Src(t)] = "git" /\ SyncGoes(t, "enter")
  /\ UNCHANGED <<workDir, active, syncState, configured>>

(* os.chdir to the clone, for rev-parse after a pull, and for the commands *)
(* of a push: add, commit, push.                                           *)
EnterClone(t) ==
  /\ SyncAt(t, "enter")
  /\ workDir' = Src(t)
  /\ sync' = [sync EXCEPT ![t].step = "command", ![t].home = workDir]
  /\ UNCHANGED <<active, syncState, configured>>

(* They run where the process is by now.  Outside of a clone they fail.    *)
GitCommand(t) ==
  /\ SyncAt(t, "command")
  /\ \E status \in {"ok", "failed"} :
       /\ workDir = "server" => status = "failed"
       /\ sync' = [sync EXCEPT ![t].step = "leave", ![t].saving = status]
  /\ UNCHANGED <<workDir, active, syncState, configured>>

(* Mutant: the directory is only restored at the end of a good run.        *)
LeaveCloneIfGood(t) ==
  /\ SyncAt(t, "leave")
  /\ workDir' = IF sync[t].saving = "ok" THEN sync[t].home ELSE workDir
  /\ sync' = [sync EXCEPT ![t].step = "load", ![t].home = "server"]
  /\ UNCHANGED <<active, syncState, configured>>
LeaveClone(t) ==
  /\ SyncAt(t, "leave")
  /\ workDir' = sync[t].home
  /\ sync' = [sync EXCEPT ![t].step = "load", ![t].home = "server"]
  /\ UNCHANGED <<active, syncState, configured>>

-----------------------------------------------------------------------------
(* The end of _sync_worker, under the lock; five seconds later the job, or *)
(* whichever job of the source has finished by then, is forgotten.         *)
Concluded(t) ==
  IF sync[t].job THEN [sync EXCEPT ![t].step = "cleanup", ![t].saving = "ok"]
  ELSE [sync EXCEPT ![t] = NoSync]
HasJob(t) == sync[t].job /\ active[Src(t)] # NoJob
(* Mutant: only a good end is entered in the table.                        *)
FinishGood(t) ==
  /\ SyncAt(t, "finish")
  /\ active' = IF sync[t].saving = "ok" /\ HasJob(t)
               THEN [active EXCEPT ![Src(t)].status = "ok"] ELSE active
  /\ sync' = Concluded(t)
  /\ UNCHANGED <<workDir, syncState, configured>>
Finish(t) ==
  /\ SyncAt(t, "finish")
  /\ active' = IF HasJob(t)
               THEN [active EXCEPT ![Src(t)].status = sync[t].saving]
               ELSE active
  /\ sync' = Concluded(t)
  /\ UNCHANGED <<workDir, syncState, configured>>

(* Mutant: the job is forgotten whatever its status.                       *)
CleanupAny(t) ==
  /\ SyncAt(t, "cleanup")
  /\ active' = [active EXCEPT ![Src(t)] = NoJob]
  /\ sync' = [sync EXCEPT ![t] = NoSync]
  /\ UNCHANGED <<workDir, syncState, configured>>
Cleanup(t) ==
  /\ SyncAt(t, "cleanup")
  /\ active' = IF active[Src(t)].status = "running" THEN active
               ELSE [active EXCEPT ![Src(t)] = NoJob]
  /\ sync' = [sync EXCEPT ![t] = NoSync]
  /\ UNCHANGED <<workDir, syncState, configured>>

-----------------------------------------------------------------------------
SyncThread(t) ==
  \/ LoadStatus(t) \/ TruncateStatus(t) \/ DumpStatus(t)
  \/ Copy(t) \/ EnterClone(t) \/ GitCommand(t) \/ LeaveClone(t)
  \/ Finish(t) \/ Cleanup(t)

SyncRestart ==
  /\ restarts < MaxRestarts
  /\ restarts' = restarts + 1
  /\ sync' = [t \in SyncThreads |-> NoSync]
  /\ active' = [k \in Sources |-> NoJob]
  /\ workDir' = "server"
  /\ disturbed' = (disturbed \/ \E k \in Sources : Working(k) # {})
  /\ UNCHANGED <<mode, syncState>>

(* Two syncs collide when both are between load and dump, or both have     *)
(* changed the working directory.  After that, and after a restart during  *)
(* a sync, the properties below have nothing to say: the model ends there. *)
Collision(steps) ==
  \E t, u \in SyncThreads :
    t # u /\ \A v \in {t, u} : \E step \in steps : SyncAt(v, step)
NotingCollisions(A) ==
  /\ ~disturbed
  /\ A
  /\ disturbed' = (\/ Collision({"truncate", "dump"})
                   \/ Collision({"command", "leave"}))'

SyncNext ==
  \/ NotingCollisions(\E t \in SyncThreads :
       \/ SyncThread(t)
       \/ \E k \in Sources :
            \/ AutoSync(t, k)
            \/ PullInRequest(t, k)
            \/ \E direction \in Directions \cup {"both"} :
                 StartSync(t, k, direction))
  \/ SyncRestart

SyncSpec == SyncInit /\ [][SyncNext]_syncVars

-----------------------------------------------------------------------------
(* Of the syncs with a job, one at a time works on a source: the job table *)
(* sees to it, through finished jobs that give way to new ones and through *)
(* late cleanups, each of which may find the job of another.               *)
OneSyncPerSource ==
  \A k \in Sources : \A t, u \in Working(k) :
    sync[t].job /\ sync[u].job => t = u

(* Every way a sync ends is saved: the file says running while one runs,   *)
(* and not when none does.  That lasts until two statuses are saved at the *)
(* same moment, or a restart breaks a sync off; then the scheduler may     *)
(* pass over a source for ever.                                            *)
StatusConcluded ==
  ~disturbed => \A k \in Sources : Working(k) = {} => syncState[k] = {}

(* Git commands run in the clone of the sync that gives them, and the      *)
(* server is back in its own directory after every end of a sync, a failed *)
(* one too: what it does next with a relative path finds its files.        *)
InClone == {t \in SyncThreads : SyncAt(t, "command") \/ SyncAt(t, "leave")}
WorkDirFollowsSync ==
  ~disturbed => \/ InClone = {} /\ workDir = "server"
                \/ \E t \in InClone : workDir = Src(t)

(* Threads run, and the scheduler of automatic syncs comes round again.    *)
SyncFairness ==
  /\ \A t \in SyncThreads : WF_syncVars(NotingCollisions(SyncThread(t)))
  /\ \A k \in Sources :
       SF_syncVars(NotingCollisions(\E t \in SyncThreads : AutoSync(t, k)))

(* Syncs come to an end and the scheduler starts the next one.             *)
KeepsSyncing ==
  \A k \in Sources : []<>(disturbed \/ Working(k) # {})
=============================================================================
