# OpenSible in TLA+

TLA+ models of the parts of OpenSible in which runs are queued, handed to
workers, executed, stopped, recovered and recorded, and of the services around
them (worker registry, schedulers, source sync, logs, pipelines, users,
inventories), with TLC configurations that check them on small instances and
TLAPS proofs of theorems about them.
`PROJECT.json` lists the components, the runs, the mutants that show each
property can fail, the source lines every definition stands for, the hazards
and the theorems. Paths below are relative to the repository.

Run a check with `tlc -config Dispatch.cfg MCDispatch.tla`, a proof with
`tlapm Dispatch_proofs.tla`.

## The system

OpenSible is a Flask server (`server/`, one process, many threads) that keeps
JSON files per project and a SQLite index over some of them, a Go worker
(`worker/`, any number of processes) that polls the server over HTTP and runs
Ansible and OpenTofu, and a React console. Everything that lasts is a file;
SQLite tables (`queued_executions`, `running_executions`, `execution_locations`)
only speed up lookups and can be rebuilt from the files.

| Component | State | Operations | Talks to |
|---|---|---|---|
| Executions API, history (`api/executions_routes.py`, `services/execution_history.py`) | one JSON record per run, its log | create, patch, cancel, stop, delete, clear, retention, log stream | record store, index |
| Dispatcher (`app.py`, `services/execution_dispatcher.py`, `api/worker_routes.py`) | the throttle of the disk scan, the claim rate limit | claim (cap, self-heal, listing, scan, requirements, assignment), finish, log, recovery thread | records, index, workers over HTTP |
| Record store (`storage/executions_store.py`) | the record file, rewritten in place | update, read, append to the log | index |
| Index (`storage/index_db.py`) | SQLite tables | add, remove, count, list, prune, backfill | records |
| Worker loop and client (`worker/internal/loop`, `httpclient`) | semaphore of slots, token file | poll, heartbeat, register, finish | server |
| Playbook execution (`worker/internal/execute/execute.go`) | a process group, a status ticker | launch, stream output, poll status, SIGTERM, SIGKILL, report | server |
| OpenTofu execution (`execute/tofu.go`) | the same, and the state file of the stack | init, policy gate, plan/apply/destroy, report | server |
| Stack state (`services/cloud_state.py`, `cloud_provisioning.py`) | `terraform.tfstate`, `state-lock.json`, version files and `index.json` | act, lock, unlock, snapshot, roll back | executions, records |
| Worker registry (`services/worker_registry.py`) | one JSON file per worker, rows of token hashes, a cache of verified tokens | register, heartbeat, verify, rotate, enable, disable, delete | worker routes, index |
| Playbook scheduler (`services/playbook_scheduler.py`) | `last_execution.json` and a copy in memory, a lock file per schedule | poll every interval, create a run, edit a schedule | executions API |
| Auto-sync scheduler (`services/autosync_scheduler.py`) and `project.json` | the configuration of sources and automatic syncs in one file | check, start syncs, write back; edits by requests | source sync |
| Source sync and git (`services/source_sync_service.py`) | job table in memory, `.sync_state.json`, the working directory of the process | start, save a status, copy, run git, finish, clean up | git |
| Log and its readers (`append_execution_log`, the event stream, `RunLogDialog.tsx`) | the log file, the offset of each reader | post, append, read a chunk, end | worker, console |
| CI/CD pipelines (`services/cicd_engine.py`, `storage/cicd_store.py`) | a JSON file per run, a thread per run | trigger, number, execute steps, edit, delete | shell |
| Users, roles, permissions (`storage/auth_db.py`, `auth/seed.py`, `services/user_service.py`, `role_service.py`) | SQLite tables with foreign keys, the JSON files of an older version | import, rename, seed at start; create, update, delete | |
| Inventories (`api/inventory_groups_hosts_routes.py`, `inventory_files_routes.py`) | YAML files with hosts in nested groups | move and add hosts, add and delete groups and files | playbook runs |
| Secrets, vaults, playbooks, templates, policy, cost | JSON and text files | create, read, update, delete, evaluate | |

What is hard: every handler is a thread of its own and most state is a file
that several of them read, change and write back, some under `flock` and some
not; the index lags behind the records and must only ever err in one direction;
workers lose replies, time out, die and come back; runs are concluded from four
sides (worker, user, self-heal, recovery); the stack lock is taken by one
request and released by whichever later one notices that its run has ended. The
services have two more: schedules that are polled by several processes and must
fire once, and a start of the server that can be broken off at any of its steps.

What makes the parts correct:

- a run is assigned to at most one worker, started at most once, and a
  concluded run keeps its conclusion (dispatcher, record store);
- no worker is given more runs than it has slots, although the server counts
  index rows and not processes, but for claims of it that overlap (index);
- a claim that its worker waits for declares no run orphaned that executes, a
  queued run is eventually taken, a slot comes back unless its process is one
  that no poll can stop (dispatcher, worker);
- a cancellation that was confirmed and an assignment never both happen unless
  a `PATCH` queues the run again, and no record stays unreadable (record store);
- nobody else works on a stack's state while a tofu process or a rollback does;
  a snapshot shows the state before the run; the version window never loses
  what a rollback needs (stack state);
- what an administrator was told of a worker, of a project's sources or of its
  automatic syncs is what the file says afterwards (registry, `project.json`);
- an occurrence of a schedule is run once, as long as no two processes are at
  the file of all schedules at once, and is run (playbook scheduler);
- one sync at a time works on a source, each end of a sync is recorded, and the
  process finds its way back to its own directory (source sync);
- a reader holds the log without gaps, an event stream also without repetition,
  and a complete stream is whole (log);
- a pipeline's record tells what its steps did, two runs share a number only if
  they were numbered beside one another, and a deleted run stays deleted, as far
  as clients leave steps and numbers alone (pipelines);
- an older file is renamed once its rows are in, a fresh server has an
  administrator with every permission (users and roles);
- a host is where a request has put it, and its variables with it (inventories).

## Modules

`ExecutionStatus` holds the statuses and the transition table that
`executions_store.py` validates against. `NONE` and `GONE` stand for a record
that does not exist yet or any more.

`RunLifecycle` is the abstract specification: phases move along the table, a
run gets its runner when it leaves the queue and keeps it, and is launched at
most once, by its runner. It says nothing of files, rows, slots or messages.

`Dispatch` is the core: the record (`status`, `owner`, `verdictBy` for its error
or cancel reason), the two index tables (`queuedIdx`, `runningIdx`), the claim
handlers under way (`claim`), the worker processes (`workerUp`, `job`, one
goroutine per run) and the calls on the network (`finishes`, `lateClaims`). Each
other handler is one action, with everything it does. A claim is two: `Claim`
prunes, counts, lists, drops stale rows, scans, checks requirements, counts again
and writes the record, under that record's lock; `FinishClaim` adds the index row,
lets go of the lock and replies. The count is of index rows, so claims of one
worker for different runs that overlap do not see one another. `launches` and
`atOnce` (how many claims of a worker ever held a record at once) are history.
Interleaved is everything else: crashes of the server inside create, claim and
finish (between the write of the file and the write of the index), lost and late
replies, worker crashes and restarts, users and recovery. `Dispatch` implements
`RunLifecycle` (`ImplementsLifecycle`).

- A worker gives up on a claim after ten seconds, before the server has handled it
  (`AbandonClaim`, later `LateClaim`) or between its two halves (`AbandonReply`).
  `LateLimit` bounds, for each worker, the abandoned claims on the network.
- A worker's goroutine is `offered` (the reply of its claim is on the way),
  `live`, `stopping` (SIGTERM sent), `awaiting` (process gone, finish call out)
  or `idle`. A preparation that fails is a launch that exits with FAILED.
- Playbook and tofu runs (`Tofu`) share the slots. The monitor of a playbook run
  stops it on CANCELING and kills it on any final status; that of a tofu run stops
  it on CANCELING and CANCELED only. So a tofu run that recovery has failed keeps
  its slot until its process ends by itself, and so does any run whose record was
  deleted: such a process is `Unreachable`.
- A worker crash takes its processes along: the worker is the main process of
  its container.
- `Posts` are the statuses and worker ids `POST /api/executions` may name: a run may
  begin RUNNING, or with a worker that has not claimed it.
- `PATCH /api/executions/<id>` is one step here, and may set any legal status; its
  other fields, and what it does between its read and its write, are
  `RecordStore`'s. Recovery acts at any time, since both ages it measures can be
  reached by a run of any length.
- `QueueLimit` is `list_queued`'s limit; `CanRun` abstracts tags, capabilities
  and the pinned worker that `_check_execution_requirements` compares.
- Left out: the claim rate limit (a 429 is a poll that finds nothing), a
  project filter on claims, the legacy directories.

`RecordStore` opens one handler up: one record file, at the grain of `open`,
`flock`, read, truncate, write and close, under claim, cancel, stop and
recovery, which lock, and `PATCH`, finish, self-heal, create and delete, which do
not. A `PATCH` makes one of `Bodies` of the record it has read: in the run the
queued record itself, which is what any change of another field writes back.
Inodes matter: a deleted file lives on for whoever has it open. Two dumps that
overlap may leave text that does not parse. Its `ImplementsLifecycle` maps the
last complete record at the path to `RunLifecycle`.

`StackState` is one stack: the lock file, the version index and files, the
state, the runs and their processes, and the requests at the grain of their
file operations. `Allowed` says which mishaps may happen: `overlap` (two
requests at once), `long` (a run that outlasts recovery's half hour), `purge`
(its record is deleted), `force` (a user breaks a run's lock), `crash` (of the
server). A state is told apart by the run that wrote it. Writing the lock is
one step, as it is written beside and renamed. A second stack, the deletion of
a stack, and unlocking with a lock id are left out.

The services have a module each. Their writers mostly load a file, change it and
write it back whole without a lock, so two overlapping writers lose one
another's change, really and unavoidably. Each module lets that happen, keeps a
history variable that says it has (named below), and states what holds as long
as it has not; where nothing more could be said the behaviour ends there.

`WorkerRegistry`: worker files, token rows, the token cache, handlers in request
threads at the grain of load, truncate, write and index, and the loop's
re-registration after a refused claim. `raced` is the set of ids of which an
administrator's request was overlapped by another handler. A token is the n-th
its id was given.

`PlaybookScheduler`: one playbook in discrete time. Processes poll when their
interval has passed, and may lag a tick; `ShouldRun` has the windows and the
minimum distance from the last run; the lock file is created, and left behind by
a crash. `last_execution.json` is one file for all playbooks, loaded, emptied and
dumped whole under the lock of the playbook that is run, so a process that runs
another playbook meanwhile (`LoadForOther`) is not kept out: what it has loaded
replaces this playbook's entry, and who loads the emptied file reads no run at
all. `mingled` says that two processes were at the file at once, or that one was
killed while it wrote it for another playbook. The cron expression is a constant
period; calendars and zones are croniter's.

`SourceSync`: threads of syncs, with a job or, from an older request, without;
the status file at the grain of load, truncate and dump; `chdir`, the git
command and `chdir` back. `disturbed` says that two threads saved a status at
once, or were both in a clone, or a restart broke a sync off.

`ProjectConfig`: the automatic syncs' copy of `project.json`, written back before
and after they are started, beside the requests that edit sources or automatic
syncs and the one that pulls between its read and its write. `overlapped` says
that writers came between each other.

`LogStream`: chunks posted one at a time, each of which may time out and still be
appended later; the server's own note after a stop; the finish call; and two
readers. The event stream asks for the size first and the status afterwards, one
chunk after the other, and gives up after `MaxEmpty` empty reads. The dialog
fetches a chunk every three seconds and whenever its user refreshes
(`FetchChunk`, `Refresh`), without looking whether an earlier fetch is still open;
answers come in any order or not at all, each is put behind what is shown and sets
the offset; the first complete one stops the interval and makes the effect fetch
once more. A dialog on a run that is over fetches once. `Fetches` are the fetches
open at once, `MaxMishaps` bounds those that overlap or fail, and `overlapped` says
that two were open at once. A chunk and the status are read at one moment; a
hidden page, which skips its turns, is one whose turn has not come.

`Pipelines`: the runs of one pipeline. A trigger numbers its run from the records
it can read (the listing is one step), creates the record and starts the thread,
which saves each change by read, truncate and write. A step succeeds, fails or
raises (its log cannot be opened, its configuration is no object); then the run is
saved as FAILED, with the step RUNNING and the rest PENDING. A client may delete a
run, or write to its record by a `PUT`, which merges any field: modelled are a
status, the steps and the number. `rewritten` are the runs whose steps or number a
client wrote. `crossed` says that a client's request met a saving of the thread
half-way, or that a restart ended a run; `miscounted` holds the pairs of runs of
which one was numbered while the other could not be seen. Two runs of different
pipelines do not meet: each pipeline counts its own.

`Directory`: the five tables, the import of three JSON files in one transaction,
their renames one by one, the seeding row by row, a start broken off anywhere,
and administrators' requests that look names up first and link them in a
transaction of their own, whose foreign keys may have gone. `importFailed` and
`brokenOff` are the two accidents from which later starts do not recover.

`Inventory`: the places of a file are `all`, groups and groups in groups;
requests load, change, truncate and dump one file after another. `mixed` says
that a file was read and written across one another, `alone` that nothing else
was written since a request began. Deleting the primary file is left out.

`MCDispatch`, `MCRecordStore`, `MCStackState` and `MCServices` define
the instances. The services share no state, so `MCServices` composes them by choice:
a behaviour is one of the service named by `service` while the others stand
still, and each liveness property is stated for its service under its fairness.

| Code | Definition |
|---|---|
| `server_claim_next_execution` | `Dispatch!Claim`, `PollEmpty`, `LateClaim` and `FinishClaim`, over `ClaimRun`, `ClaimNothing`, `Candidates`, `HealedRows`, ... |
| `prune_stale_running_for_worker` | `Dispatch!Orphans`, `HealedStatus`, `HealedRows`; `RecordStore!HealLook`, `HealRead` |
| `api_worker_execution_finish`, `update_execution_record` | `Dispatch!HandleFinish`, `Accepted`, `SyncIndex`; `RecordStore!FinishLookup`, `FinishRead`, `PatchRead`, `Update`, `Reopen` |
| `api_cancel_execution`, `api_stop_execution` | `Cancel`, `Stop`; in `RecordStore` `Open`, `LockAndRead`, `Truncate`, `Write`, `Release` |
| `server_recover_stuck_executions` | `RecoverRunning`, `RecoverCanceling`; `RecordStore!SkipLocked` |
| `backfill_if_empty` | `Dispatch!ServerStart` |
| `loop.Run`, `execute.Run` | `Dispatch!MayClaim`, `AbandonClaim`, `AbandonReply`, `Launch`, `PollCanceling`, `KillFinalized`, `Exit`, `GiveUpFinish` |
| `read_lock`, `release_lock`, `acquire_lock` | `StackState!FindUnlocked`, `FindStale`, `FindLocked`, `Compare`, `Unlink`, `WriteLock` |
| `snapshot_state`, `rollback_state` | `ReadForSnapshot`, `KeepVersions`, `AddFile`, `SaveIndex`, `FindVersion`, `Restore` |
| `executeTofuRun` | `StackState!Claim`, `Launch`, `WriteState`, `Exit`, `Finish` |
| `create_worker`, `verify_token`, `update_worker_heartbeat` | `WorkerRegistry!Registration`, `Verify`, `Remember`, `LoadForBeat` |
| `save_worker`, `rotate_worker_token`, `delete_worker` | `TruncateFile`, `WriteFile`, `SendEdit`, `UpdateIndex`, `SendDelete` |
| `_should_run_now`, `_create_scheduled_run` | `PlaybookScheduler!ShouldRun`, `Poll`, `TakeLock`, `EnterRun`, `LoadForOther`, `OpenFile`, `WriteEntries`, `CallApi` |
| `start_sync`, `execute_sync`, `_sync_worker` | `SourceSync!NewJob`, `StartSync`, `AfterSave`, `Copy`, `Finish`, `Cleanup` |
| `_update_sync_state`, `_sync_git_push` | `LoadStatus`, `TruncateStatus`, `DumpStatus`; `EnterClone`, `GitCommand`, `LeaveClone` |
| `_check_and_run_autosync`, `_run_autosync` | `ProjectConfig!Check`, `PutBack`, `StartSyncs`; `SourceSync!AutoSync` |
| `api_update_project_sources`, `api_update_autosync_config` | `EditSources`, `EditAutosync`, `TruncateConfig`, `WriteConfig` |
| `append_execution_log`, `api_get_execution_log_stream`, `RunLogDialog` | `LogStream!AppendLog`, `AskSize`, `StreamReads`; `FetchChunk`, `Refresh`, `FetchSize`, `AnswerFetch`, `ShowChunk` |
| `create_pipeline_run`, `_run_pipeline_thread`, `update_pipeline_run` | `Pipelines!NumberRun`, `CreateRun`, `PhaseNext`, `ExecuteStep`, `StepRaises`, `ReadRecord`, `TruncateRecord`, `WriteRecord` |
| `migrate_from_json_if_needed`, `seed_default_roles`, `seed_default_user` | `Directory!Import`, `ImportFails`, `RenameFile`, `SeedPermission`, `SeedRole`, `SeedUser`, `SeedAdmin` |
| `update_user`, `update_role`, `delete_role` | `AskForUser`, `WriteUser`, `AskForRole`, `WriteRole`, `DeleteRole` |
| `api_update_host_groups`, `api_update_group_hosts`, `api_delete_inventory_group` | `Inventory!UpdateHostGroups`, `UpdateGroupHosts`, `DeleteGroup` over `Moved`, `Filled`, `Dropped`, `Load`, `TruncateInventory`, `DumpInventory` |

## What the runs check

| Run | Instance | Shows |
|---|---|---|
| `dispatch` | two runs, the first a tofu run pinned to one of two workers of one slot, a listing of one row, posts that begin RUNNING or name a worker, one claim of the first worker that is late; 1.3 million states | `AssignmentConsistent`, `RunningIsCounted`, `CapRespected`, `OrphanVerdictSound` and the refinement of `RunLifecycle`, through overlapping and late claims, crashes, lost replies, late finish calls, deletes and recovery |
| `dispatch_live` | two runs, the first of tofu, one worker, one claim that is late; 220 thousand states | `QueueDrains` and `SlotReleased` under fairness, once crashes stop |
| `dispatch_orphans` | two runs, one worker of one slot, one claim that is late | `ClaimingWorkerIsIdle` fails, see below |
| `record_locked` | two claims, cancel, stop, two recoveries | the record moves along `RunLifecycle` system call by system call, and with no writer at work it can be read |
| `record_mixed` | create, two claims, cancel, finish, `PATCH`, self-heal, delete, crashes; 2.6 million states | `DecidedOnce`: the record is given or its cancellation confirmed once, and a second time only if a `PATCH` queues it again |
| `record_final` | claim, finish, recovery | `FinalIsFinal` fails, see below |
| `stack_serial` | two applies, a lock and an unlock by hand, a rollback, a snapshot, one request at a time, purged records, a window of two versions; 860 thousand states | `Exclusive`, `VersionsHaveFiles`, `RollbackKeeps` |
| `stack_crash` | two applies, an unlock, an overview, one request at a time, with crashes, forced unlocks, purged records and runs recovery concludes under way; 1.2 million states | `LockKept` |
| `stack_overlap` | two applies at once | `Exclusive` fails, see below |
| `stack_snapshot` | two applies | `SnapshotFirst` fails, see below |
| `stack_oldest` | two applies, a snapshot, a rollback, a window of two | `RollbackRestores` fails, see below |
| `services` | the eight services, each in the instance given below; 680 thousand states | the properties of each service listed below, and its liveness |

What `services` shows of each:

- registry: `AdminHasTheLastWord` (after heartbeats, claims and registrations the
  file says what the administrator was told, and no token but the last is
  accepted, from cache, row or file) and `WorkersRecover`;
- playbook scheduler: `RunOnce` and `NoOccurrenceMissed`, with two processes that
  poll out of phase, a crash, a lock file left behind, an edit;
- source sync: `OneSyncPerSource`, `StatusConcluded`, `WorkDirFollowsSync` and
  `SyncsGoOn`;
- `project.json`: `EditsLast` and `AutosyncsGoOn`;
- log: `ReaderHoldsPrefix` (of the stream, and of the dialog until two of its
  fetches overlap), `ShowsNoGap` (of the dialog however they overlap),
  `CompleteStreamIsWhole` and `ReadersStop`;
- pipelines: `RecordTellsRun`, `DeletedStaysDeleted`, `NumbersDistinct` and
  `PipelinesEnd`;
- users and roles: `RenamedIsImported` and `AdministratorSeeded`;
- inventories: `HostWhereAsked` and, as an action property, `VariablesKept`.

Bounds. Two runs and two workers are what the dispatcher's hazards need: one run
to hold a slot, a row or a place at the head of the listing and another to
suffer from it; one worker to be assigned and another to claim after it. A
listing of one row makes the second run depend on the removal of the first. The
record store's requests are each made once, so two of a kind are what a race of
that kind needs. A window of two versions fills with two snapshots and prunes
with the third. `LateLimit` caps the late claims of a worker at one, which is enough
to exceed the cap (two runs RUNNING on a worker of one slot) and to fail a live run;
`launches` is bounded by the refinement itself.

In `services`: two worker ids let a refused worker register once more, and two
request threads with one administrator's request are what a race on a file
needs. Two scheduler processes, an interval of 60 s, a period of 600 s (ten
intervals, so that windows before and after an occurrence do not meet those of
the next), a tick of one interval and a horizon of 1080 s, past the end of one
occurrence's window and into the beginning of the next's, so that a second run
of the first and a mistaken early run of the second are both in reach. Two
sources and two threads: a sync beside another of the same source, of another
source, and beside a late cleanup. Three edits of `project.json` by two threads:
one each and one beside the scheduler. Two chunks with one to a read: a
remainder is left after a full read, and two overlapping fetches of the dialog ask
for the same chunk; two empty reads make a stream give up between two chunks; one
mishap of the dialog, an overlap or a failure. Two pipeline runs of two steps: one
step to fail or raise and one to be skipped or left pending, one run to be numbered
past the other; one request of a client or restart. One crash, edit or run of
another playbook. The directory has one role and one user of an older version, the
first administrator, a second permission the older version lacked, one edit and
three starts, so that an import can fail, be followed by a seed, and by another
start. Of the two sources of a sync either may be local and the other remote; they
are alike, so the instance takes one of the two assignments. The inventory has two files, a host
that is listed in `all` and in a group within a group, and two requests.

Deadlock is checked in every run but `services`: there the clock stops at its
horizon, a log that is over and read has no more steps, edits and restarts are
bounded, and `SourceSync`, `ProjectConfig` and `Pipelines` end after a collision.

Fairness. `Dispatch!Fairness` assumes what the code repeats: the loop polls
while a slot is free, and one of its polls falls after the throttle of the disk
scan; a claim handler that holds a record goes on; the monitor polls every two
seconds and kills after its grace period; HTTP calls time out; recovery revisits
every record; the container manager restarts a dead worker or server. It does not
assume that an Ansible or tofu process ever ends by itself, and nothing in the code
does. Where no poll can stop one (`Unreachable`), `SlotReleased` promises nothing, and
`QueueDrains` has the premise that such a process ends. Both have the premise
`CrashesStop`: with crashes for ever nothing is promised.

The services assume less. Registry: request threads go on (WF); the loop claims,
and of its refusals and registrations some reach it (SF, since the loop retries
for ever and replies may be lost in between); `WorkersRecover` has the premise
that administration and restarts end and that ids last. Source sync: threads go
on (WF) and the scheduler comes round again for each source (SF, since it looks
at a moment at which the source may be busy). `project.json`: the scheduler's loop
(SF), the requests and the clock (WF). Log: only the reader is fair (WF): the
stream polls until it ends whatever the worker does, and the dialog's interval
goes on. Pipelines: a thread goes on (WF), but for the command of a step, which
nothing limits: `PipelinesEnd` says that a run ends or is in one command for ever.
No fairness is assumed of users, of restarts, of commands or of anything that
fails.

`stack_serial` excludes overlapping requests, runs of more than half an hour,
forced unlocks and crashes, because with each of them `Exclusive` fails: the
first by `stack_overlap`, the second because recovery fails the run and its
lock becomes stale while tofu still works (its monitor looks for CANCELING and
CANCELED only, `worker/internal/execute/tofu.go:476`), the third by intention,
the last because a crash between queueing a run and locking leaves the run
without a lock. When the record of a finished run has been purged its lock is
never found stale, so later runs are refused until a user forces it: the model
has the behaviour, and nothing unsafe follows from it.

## Where the code and its statements differ

- `dispatch_orphans`: the self-heal fails every record that runs on the
  claiming worker, on the ground that a worker that claims is idle
  (`server/storage/index_db.py:301`). Nothing withdraws a claim its client has given
  up (`worker/internal/httpclient/httpclient.go:188`): a worker with one slot
  abandons a claim, takes and starts a run by its next one, and the server then
  handles the abandoned one, finds the worker at its cap and fails the run. With two
  slots no late claim is needed, as a worker then claims while it runs: runs 1 and 2
  are claimed, the reply for 2 is lost, and the next claim fails run 1.
- `record_final`: a finish call reads the record RUNNING, recovery writes FAILED
  under the lock, the finish writes SUCCESS over it: a final status was changed.
- `stack_overlap`: two applies find no lock, both queue a run, both tofu
  processes run; the answer of `acquire_lock` is not looked at.
- `stack_snapshot`: the run is queued before its snapshot is taken; a worker is
  faster, and the snapshot holds the result of the run it should precede.
- `stack_oldest`: with a full history a rollback to the oldest version first
  snapshots, which prunes that version, and then fails to read it.

What follows has no run that fails; it was found while the modules were written or
proved about, and is why their properties say what they say:

- Claims: the cap is counted under the lock of one record, and the row added later
  (`server/app.py:2610`, `2642`), so two claims of one worker for different runs, one
  of them given up by the worker, both pass it; `CapRespected` bounds the excess by
  the number of claims that overlapped.
- Tofu runs: one that recovery has failed goes on and keeps its slot, and the lock
  of its stack is taken for stale meanwhile.
- Records: a `PATCH` takes no lock, so one that read a queued record writes QUEUED back
  after a claim, and the run is given twice; `DecidedOnce` counts one decision more
  for each. A `PATCH` to CANCELED is ordered with claims by nothing, and may be
  answered beside one.
- Worker registry: a heartbeat that overlaps a rotation, a disabling or a deletion
  writes back what it read before (`raced`).
- Playbook scheduler: windows and minimum distance fit periods of more than five
  check intervals (`SchedulerRunsOnce`); with shorter ones an occurrence may be
  run twice or left out. A schedule of four minutes, polled every minute, is due
  from one minute before an occurrence to two minutes after it, and two runs need
  only be 168 s apart (`server/services/playbook_scheduler.py:316`): a process runs
  the occurrence 60 s early, another one, or the same one started again, polls at
  other seconds of the minute and runs it again 110 s late, both under the lock that
  "prevents duplicate runs even if multiple backend processes are running" (line
  357). TLC finds that behaviour of `PlaybookScheduler` with a period of 240, a
  tick of 10 and a horizon of 360.
  A lock file left by a crash turns every later run of its schedule away.
  And the lock is one of each schedule, while the file is one of all
  (`server/services/playbook_scheduler.py:445`): of two processes that run different
  schedules at once one loses the other's entry, or reads the emptied file, and an
  occurrence runs twice. `RunOnce` holds until that happens (`mingled`); without this
  condition TLC finds a second run in sixteen states.
- Automatic syncs: a status file that says running for ever, after a restart or
  two overlapping saves, makes the scheduler pass over the source for ever
  (`disturbed`). An older request of the console writes back the `project.json`
  it read before a long pull (`overlapped`).
- Source sync: the working directory belongs to the process, so two git syncs at
  once may commit in one another's clone.
- Log: what is appended between the question for the size and the one for the
  status is missing from a stream that ends complete, and so is the server's own
  line, which is written after the status. The dialog stops after its first complete
  answer and one fetch more, so of a log of more than twice a read's limit (1 MB) it
  may lack the end. Its fetches may overlap
  (`console/src/components/infrastructure/RunLogDialog.tsx:77`): two answers from one
  offset are both put behind what is shown, and a chunk is there twice.
- Pipelines: two triggers, or one beside a record that is being saved, may give
  two runs one number; a run deleted between a read and a write is back
  afterwards; a restart leaves a run RUNNING, and so does a command that never ends
  (`server/services/cicd_engine.py:170`); a run whose step raised is FAILED with
  that step RUNNING for ever. A `PUT` merges any field of its body into the record
  (`server/storage/cicd_store.py:205`), the steps and the number among them.
- Users and roles: `storage/auth_db.py:15` says the JSON files are renamed after a
  successful import. When the import is rolled back (a role grants a permission
  that does not exist: `INSERT OR IGNORE` does not ignore a foreign key) the seed
  fills the tables, and the next start finds nothing to import and renames the
  files (`importFailed`). A start broken off between the first administrator and
  its role leaves a server without an administrator (`brokenOff`).
- Inventories: changing a host's groups loses the variables of its entry (its
  `ansible_host`), while changing a group's hosts keeps them; deleting or filling
  a group touches only the first file that has it; a reader of a file that is
  being written takes it for empty and may write back its own entry alone; a
  crash between taking a host out and putting it in loses it.

## What is proved

Every invariant and every action property of a passing run is a theorem, for all
values of the constants that satisfy the modules' named `ASSUME`s (TLC evaluates
them on each run) and the hypothesis a theorem states. So are the two
refinements of `RunLifecycle`. A theorem module belongs to one module or to a few
that touch: `Workers_proofs` to the registry and the log, `Scheduling_proofs` to the
scheduler, the syncs and `project.json`, `Administration_proofs` to the directory
and the inventories.

`Dispatch_proofs`, for any finite set of runs, any set of workers, any number
of slots and any limit of the listing:

- `DispatchTypeOK`.
- `DispatchAssignment`: `AssignmentConsistent` was written so as to be inductive
  with `TypeOK`: the last two of its parts (an offer precedes the launch, an
  unassigned run has no owner and no launch) are what a claim needs. The proof
  goes action by action.
- `DispatchRunningIsCounted`: inductive with the former. A record that is RUNNING
  has its row or a claim under way that is about to add it. It speaks of states
  with the server up only, because a crash inside a claim separates the record
  from its row; the server's start restores the row before any other handler runs.
  Of CANCELING records it says nothing: those lose their row at a restart.
- `DispatchCapRespected`, from `CapInv`: what a worker holds is bounded by its slots
  and by the number of its claims that were at once between count and row. It holds
  the runs that are RUNNING, those that no longer are but still have their row, and
  those whose row a claim has yet to add: the count a claim made may be old when the
  row comes, and only this sum is not disturbed by the rows of other claims. The
  cardinality steps are lemmas of their own.
- `DispatchOrphanVerdictSound`, for `Slots = 1`: a worker with one slot that waits
  for a claim has no goroutine, so nothing it is counted for runs. The inductive
  strengthening `OrphanInv` adds that an orphaned record stays FAILED until it is
  deleted, so that nobody is assigned it again, and is no run of a claim under way.
  It is about claims whose worker waits for the answer; what a claim given up by its
  worker fails is marked `orphanedLate`, and `dispatch_orphans` shows that such a
  record may be live. With two slots the theorem does not hold.
- `DispatchImplementsLifecycle`: initial states map to initial states and every
  step to a step of `RunLifecycle` or a stutter, with `AssignmentConsistent` for
  the launches and the owners.

`RecordStore_proofs`, for any set of requests, locked or not, with or without
crashes:

- `RecordTypeOK`, with `Prepared`: a request past its read holds a record it may
  move, and an open file.
- `RecordDecidedOnce`: the inductive invariant `DecidedInv` counts. The creation
  makes one offer of the run, and each `PATCH` that read the record while it was
  queued may make one more by writing QUEUED back. An offer is a file that says
  QUEUED and that no decider is about to truncate; a claim or a cancel that reads it
  under the lock uses it up. So the deciders, the offers and the writes that are
  about to make an offer are never more than one and the `PATCH`es. That the other
  unlocked handlers (finish, self-heal) and crashes make no offer is part of the
  proof.
- `RecordImplementsLifecycle`, under `LockedOnly` (every request is a creation or one
  of the kinds that lock). Neither the refinement mapping nor a single step says
  that the record a handler writes follows from the one that is there:
  `LockedInv` does. There is one file, one request at a time has it (`OneHolder`),
  the last complete record is the file's or, while it is torn, the one its writer
  has read (`SavedInFile`, `HeldRecord`). The run's launch is the release of a
  claim. It needs no absence of crashes: a crash leaves a torn file that nobody
  can read or move.
- `RecordQuietReadable`, under `LockedOnly` and without crashes: whoever finds the
  record unreadable has met a writer at work (`LeftReadable`). A crash between the
  truncation and the write is what the second hypothesis excludes.
- `RecordFinalStays`, under `LockedOnly`: a concluded record keeps its conclusion,
  since every system call is a step of the lifecycle (`LockedImplements`).
  `record_final` shows that a finish call, which does not lock, breaks it.

`StackState_proofs`, for any runs, any requests of every kind and any window:

- `StackTypeCorrect`, whatever mishaps are allowed; the type says that the index
  lists at most `MaxVersions` versions.
- `StackExclusive` under `Careful`, which allows no mishap but purged records, as
  `stack_serial` does. `LockInv` says that one request is at work at a time, that
  a process belongs to a run the record has under way or no longer has
  (`RecordMatches`), that a run under way holds the lock or has its request still
  unanswered (`Guarded`), and what a request that found the stack unlocked may
  rely on (`LockFound`).
- `StackLockKept` under `NoOverlap` alone, with crashes, purged records, forced
  unlocks and runs that outlast recovery: whoever is about to release a stale lock
  still holds the one it looked at, of a run that is over (`LockRead`).
- `StackVersionsHaveFiles` and `StackRollbackKeeps` under `Careful`, from
  `HistoryInv`. A snapshot copies the index, prunes the copy, adds its file and
  writes the copy back: what it will list can be opened (`CopyHolds`) because
  nobody changes the index meanwhile, the versions have ids of their own
  (`VersionsApart`), and a request snapshots at most once, so the file it adds
  takes nobody's place (`VersionsTaken`). A rollback past its snapshot finds the
  state it is about to overwrite among the versions (`RollbackHeld`): the newest is
  never the one pruned.

`Workers_proofs`, of the log, for any number of chunks, any limit of a read and any
number of empty reads, fetches and mishaps of the dialog:

- `LogWellTyped`, `LogPrefixHeld`, `LogShowsNoGap` and `LogCompleteIsWhole`. The
  inductive invariant `LogInv` is `Typed`, `Accounted` (the lines in the file, those
  on their way and the server's own still to come are no more than were sent, and
  one), `Following` (the stream holds the log up to its offset, the size it asked
  for is one the log had, and is the log's when the run had settled), `Watching`
  (what the dialog shows are the first lines of the log, in some order and perhaps
  repeated, and neither its offset nor a fetch on its way is beyond them: so no
  answer, however late, leaves a gap) and `Serial` (until two fetches of the dialog
  overlap it is as exact as the stream).
  The steps on sequences (a beginning extended by a `SubSeq`, an appended line)
  are lemmas.

`Workers_proofs`, of the registry, for any ids, any finite number of request threads
and any number of an administrator's requests:

- `RegistryLastWord`, with `RegistryWellTyped`, from `WordInv`: an id that was
  never raced over is `Honest`. A handler that administers it is the only one at
  work on it (`Alone`) and is on its way to what it will answer (`Underway`);
  while nobody administers it, its file, its row, the cached tokens and the
  copies that heartbeats are about to write back all say what was granted last
  (`Agreed`). Every action is shown to keep that for each id, provided the id has
  no race afterwards. The threads are finite so that two handlers at work
  make `Cardinality` exceed one.

`Scheduling_proofs`, of the playbook scheduler, for any number of processes, any
tick and any horizon:

- `SchedulerTypeCorrect`, with `LockInv`: a process that has a run to make read the
  clock near an occurrence, and the one that makes it holds the lock file.
- `SchedulerRunsOnce`, under `Spaced`: the check interval and the execution window
  are together less than seven tenths of the period. Two times that serve one
  occurrence are at most that far apart, and two runs at least seven tenths. The
  file is shared with the runs of other playbooks, whose locks are others, so
  `RunOnce` speaks of the time until two processes were at it at once or one was
  killed there (`mingled`); until then `AloneInv` gives the file one writer.
  `OnceInv` (`Remembered`) says that what has been run is in the file, at a time not
  before the occurrence's, or in the hands of the process that has emptied it and
  will write it back (`EntryKnown`), and that nobody is calling for it again; after a
  crash that left the lock file nobody calls at all. With the default interval of 60 s
  every period of more than five minutes satisfies `Spaced`; five minutes are the
  limit, and below it an occurrence may be run twice (see above).
- `SchedulerMissesNone`, under `Timely`: the interval is a number of ticks, and the
  interval and two ticks fit into three tenths of the period. With an interval of
  60 s and the tick of the run, 60 s, these are the periods from ten minutes.
  `ProgressInv` says that an occurrence the property counts has been entered, or a
  process at a ripe time holds the lock for it, or every process still polls within
  its window; it needs `AllPunctual` (nobody is late by more than a tick), `FileInv`
  (the file names a time near an occurrence, and no process believes in a later
  one) and `EnteredInv` (the occurrence in the file has been entered). The case that
  matters is a poll that comes too early after the run of the occurrence before:
  `UnripePollsAgain` shows that the next poll is in time.

`Scheduling_proofs`, of the syncs, for any sources, threads and number of restarts:

- `SyncOnePerSource`, with `SyncWellTyped`, from `TableInv`: the table says running
  for the source of every sync with a job (`JobsRunning`). That is why the late
  cleanup of a finished job, which forgets whatever job has ended by then, cannot
  forget a running one.
- `SyncConcluded` and `SyncWorkDir`, from `QuietInv`: as long as nothing was
  disturbed, the thread that saves is alone, every direction that the file, or
  its loaded copy, records as running is one some thread is at work on
  (`SavedInv`), and the thread in a clone is alone there and will return to the
  directory of the server (`CloneInv`). A collision is noted by the step that
  makes it, so the step itself needs no case of its own.

`Scheduling_proofs`, of `project.json`, for any number of request threads, edits and
restarts:

- `ConfigEditsLast`, from `EditsInv`: as long as no two writers of `project.json`
  overlapped, the file says what the administrator was told (`FileAgrees`, and a
  truncated file has its writer), so does every whole copy a handler or the
  scheduler will write back, except for the part being edited (`RequestsAgree`,
  `AutosyncerAgrees`), and the scheduler goes on with a sync only while that is
  still wanted. The overlap itself is noted in the step that makes it.

`Pipelines_proofs`, for any finite set of runs, any number of steps but none, and any
number of a client's requests and restarts:

- `PipelineTypeCorrect`: a number never exceeds the count of the runs, because the
  highest number in the files is at most the count of the triggered.
- `PipelineRecordTellsRun`, `PipelineDeletedStays` and `PipelineNumbersDistinct`, from
  the inductive `PipelineInv`. The properties speak of the record only; what a
  thread will write next is in its memory. So `ThreadInv` says what each phase
  remembers of its steps (those before the current one succeeded, the ones after
  it have not begun), and `FilesInv` what the file, or its copy in the hands of the
  thread or of a client between its read and its write, says beside that: the same,
  or behind it by the one change that is being saved (`Fits`, `Writing`). A run has
  three ends (`Told`): all steps succeeded, one failed and the rest were skipped, or
  one raised and is RUNNING for good, with the rest PENDING. A deleted run has no
  file and nobody about to write one. `NumberInv` follows a number from the run
  that waits for its record to the file and every copy of it (`Carries`). Runs whose
  steps or number a client wrote (`rewritten`) and pairs that were numbered beside
  one another (`miscounted`) are left out run by run and pair by pair, all others
  stay. A step that crosses another is noted as it is made, so the steps have
  no case for it.

`Administration_proofs`, of users, roles and permissions, for any of these, any
older files and any number of starts:

- `DirectoryLinksHold`: no link names a row that is not there, in particular when a
  role is deleted between a request's look-up and its write.
- `DirectoryAdministrator` and `DirectoryImported`: from the order in which a start
  proceeds (`StartsInOrder`), what a fresh start has seeded at each step
  (`FreshAdministrator`), and that until somebody edits the tables they either
  hold what the files say or are as no import has touched them
  (`LoadedOrUntouched`).

`Administration_proofs`, of the inventories, for any files, groups and hosts, any
number of threads and any inventories whose entries are those of their groups
(`Sound`):

- `InventoryTypeCorrect`.
- `InventoryHostWhereAsked`, from `InventoryInv`. While no read went wrong, the file a
  thread is writing is its own, holds nothing, and what will be written follows
  from what was there (`SaveInv`). Of a request that was alone, the files it has
  gone through no longer have its hosts and nobody is writing them, and when it has
  placed the hosts they are in the groups asked for (`MoveInv`, phase by phase in
  `Moving`).
- `InventoryVariablesKept`: no step takes the variables of an entry that stays, where
  a file that is being written counts as what its writer is about to write
  (`View`). It needs `SaveInv` to know that there is one such writer. It is said of
  steps, not of requests: one that gives a host the group it is in takes the entry
  out in one step and enters it anew in another, and its variables are gone.

`Services_proofs`: `ServicesApart` says that a behaviour of `MCServices` satisfies the
specification of each service, since a step of one is a stutter of the others.
`ServicesTypeCorrect` follows from the eight type theorems, and `ServicesCorrect`, under
`Spaced` and `Timely`, from the others: all that `services` checks but liveness, each
property within the limits it states itself (`raced`, `mingled`, `disturbed`,
`overlapped`, `rewritten`, ...). The instance of the run satisfies both hypotheses.

Attempts to prove showed three things that the runs had not. `Onward` in `Inventory`
had two alternatives of a `CASE` that could both hold, of which TLC takes the
first and the logic any: they exclude one another now. The scheduler took a
playbook that never ran for one that ran a while before the first instant, which
for a period long enough is not long enough ago: `LongSince` now says that never is
always long ago, as 1970 is in the code. And the limit of five check intervals for
the period is itself too short.

TLC checked every listed invariant before it was proved, or the property it
strengthens. Only model-checked are the liveness properties, since neither fairness
nor `ENABLED` is within reach of the prover: `QueueDrains`, `SlotReleased`,
`WorkersRecover`, `SyncsGoOn`, `AutosyncsGoOn`, `ReadersStop` and `PipelinesEnd`.

## Not modelled

The legacy in-process run; the legacy claim and recovery files of the worker,
which nothing calls any more; secrets and vaults; playbook and role storage; cost
and policy; templates, provider catalogues and blueprints; the console beyond its
log dialog. Much of the code is of that kind: generated text, an API
description, catalogues, and handlers that read or write one file of one user.
Of the modelled components these parts are left out: the search and settings of
the history, the payload a claim answers with, tofu's init, policy gate and cost,
drift and the audit trail of a stack, its creation and deletion, the migration of
the registry's legacy file, a `PUT` of the other fields of a pipeline run, what a sync copies and its conflict detection, the
definitions of pipelines and their artifacts, passwords, sessions, API tokens and
the audit log, INI inventories, variables in files of their own, backups, and
the text editor. `PROJECT.json` says so component by component, and lists the
hazards no property covers, with the reason.

## Plan

1. The deletion of a stack beside its runs, and a run that outlasts recovery as a
   statement of its own, in `StackState`.
2. A head of the queue that no connected worker may take, as an instance of
   `Dispatch` whose listing is full of such rows.
3. `PolicyVerdict`: the evaluation of a plan's policy as functions, checked against
   a reference definition.
4. Proofs: what these modules gain by 1 and 2, and the dispatcher's verdict on
   orphans for more slots under the condition on its claims that makes it true.
