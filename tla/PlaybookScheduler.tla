------------------------- MODULE PlaybookScheduler -------------------------
(***************************************************************************)
(* The scheduler of playbooks, for one playbook whose cron expression      *)
(* names an occurrence every Period seconds.  Every server process polls   *)
(* the schedules every CheckInterval seconds.  A poll does not look for an *)
(* occurrence to serve but for one that is near, before or after; a run is *)
(* not repeated because the last one is remembered, in a file that the     *)
(* processes share.  A lock file protects the run of one playbook; the     *)
(* file of the last runs is one for all playbooks, and is read and written *)
(* whole under the lock of whichever is run.                               *)
(***************************************************************************)
EXTENDS Integers

CONSTANTS
  Schedulers,     \* the server processes
  CheckInterval,  \* seconds a process sleeps between two polls
  Period,         \* seconds between two occurrences of the cron expression
  Tick,           \* seconds the clock advances by, and a process may lag by
  Horizon,        \* bound: the clock stops there
  MaxUpsets       \* bound on crashes, edits and runs of other playbooks

ASSUME SchedulerAssumption ==
  /\ {CheckInterval, Period, Tick, Horizon} \subseteq Nat \ {0}
  /\ MaxUpsets \in Nat
  /\ CheckInterval >= 15
ASSUME SchedulersAssumption ==
  Schedulers # {} /\ Schedulers \cap {"left", "none"} = {}

VARIABLES
  now,       \* seconds since the processes started
  enabled,   \* the schedule is enabled
  editedAt,  \* when a user last changed that (history)
  process,   \* [Schedulers -> what a process is doing, and since when]
  seen,      \* [Schedulers -> time]: a process's copy of last_execution
  lastExec,  \* last_execution.json: this playbook's last run, Never or NoJson
  lockFile,  \* the process that created it, "left" by a crash, or "none"
  runs,      \* [Occurrences -> the calls of the run API in its time] (history)
  upsets,    \* how many crashes, edits and other runs there were
  mingled    \* two read and wrote last_execution.json at once (history)

schedulerVars == <<now, enabled, editedAt, process, seen, lastExec, lockFile,
                   runs, upsets, mingled>>
scheduleFiles == <<lastExec, lockFile, runs>>
schedule == <<enabled, editedAt>>

Never == -1000000
NoJson == -2000000    \* truncated, or half written: no JSON
StartupGracePeriod == 60
LongerOf(a, b) == IF a > b THEN a ELSE b

Times == 0..Horizon
Occurrences == {o \in Times : o % Period = 0}
Elsewhere == {"sleeping", "other", "otherWriting"}
AtFile == {"entering", "writing", "other", "otherWriting"}
Doing == {"due", "locked", "calling"} \cup Elsewhere \cup AtFile
Process == [doing : Doing, at : 0..(Horizon + CheckInterval), started : Times]

SchedulerTypeOK ==
  /\ now \in Times
  /\ enabled \in BOOLEAN
  /\ editedAt \in Times
  /\ process \in [Schedulers -> Process]
  /\ seen \in [Schedulers -> Times \cup {Never}]
  /\ lastExec \in Times \cup {Never, NoJson}
  /\ lockFile \in Schedulers \cup {"left", "none"}
  /\ runs \in [Occurrences -> Nat]
  /\ upsets \in 0..MaxUpsets
  /\ mingled \in BOOLEAN

(* A process's first poll may come at any time: the processes do not start *)
(* together, nor together with the minute.                                 *)
SchedulerInit ==
  /\ now = 0
  /\ enabled \in BOOLEAN
  /\ editedAt = 0
  /\ process \in [Schedulers -> [doing : {"sleeping"}, started : {0},
                                 at : {t \in 0..CheckInterval : t % Tick = 0}]]
  /\ seen = [s \in Schedulers |-> Never]
  /\ lastExec = Never
  /\ lockFile = "none"
  /\ runs = [o \in Occurrences |-> 0]
  /\ upsets = 0
  /\ mingled = FALSE

-----------------------------------------------------------------------------
(* croniter: the occurrence before a time, strictly, and the one after it. *)
PrevTime(t) == Period * ((t + Period - 1) \div Period) - Period
NextTime(t) == PrevTime(t) + Period

ExecutionWindow ==
  IF Period <= 600 THEN LongerOf(CheckInterval * 2, Period \div 2)
  ELSE CheckInterval * 2

Urgent(t) == NextTime(t) - t <= 5
IsNear(t) ==
  \/ NextTime(t) - t <= CheckInterval
  \/ t - PrevTime(t) <= ExecutionWindow

(* At least thirty seconds and seven tenths of the period since a run; no  *)
(* run at all is one in 1970.                                              *)
LongSince(run, t) ==
  run = Never \/ (t - run >= 30 /\ 10 * (t - run) >= 7 * Period)

(* _should_run_now asks the process's own copy of last_execution.          *)
ShouldRun(s) ==
  /\ IsNear(now) \/ Urgent(now)
  /\ IF Urgent(now) THEN now - seen[s] >= 5 ELSE LongSince(seen[s], now)

Turn(s, doing, at) ==
  process' = [process EXCEPT ![s].doing = doing, ![s].at = at]
Sleep(s) == Turn(s, "sleeping", now + CheckInterval)

(* One pass of the loop, up to the lock file.                              *)
Poll(s) ==
  /\ process[s].doing = "sleeping"
  /\ now >= process[s].at
  /\ IF /\ enabled
        /\ ShouldRun(s)
        /\ now - process[s].started >= StartupGracePeriod
     THEN Turn(s, "due", now)
     ELSE Sleep(s)
  /\ UNCHANGED <<now, seen, scheduleFiles, schedule, upsets, mingled>>

(* The lock file is created, unless it exists.                             *)
TakeLock(s) ==
  /\ process[s].doing = "due"
  /\ IF lockFile = "none"
     THEN lockFile' = s /\ Turn(s, "locked", process[s].at)
     ELSE Sleep(s) /\ UNCHANGED lockFile
  /\ UNCHANGED <<now, seen, lastExec, runs, schedule, upsets, mingled>>

-----------------------------------------------------------------------------
(* last_execution.json: what cannot be read is taken for no run at all.    *)
Reads(file) == IF file = NoJson THEN Never ELSE file

(* A process that loads the file to write it back, while another does the  *)
(* same for another playbook.                                              *)
LoadEntries(s) ==
  mingled' =
    (mingled \/ \E q \in Schedulers \ {s} : process[q].doing \in AtFile)

(* Mutant: the file is not read again under the lock.                      *)
EnterRunUnchecked(s) ==
  /\ process[s].doing = "locked"
  /\ seen' = [seen EXCEPT ![s] = process[s].at]
  /\ Turn(s, "entering", process[s].at)
  /\ LoadEntries(s)
  /\ UNCHANGED <<now, scheduleFiles, schedule, upsets>>

(* Under the lock, the file is read again and asked again, and the run is  *)
(* entered before the API is called.  The time is the poll's.              *)
EnterRun(s) ==
  /\ process[s].doing = "locked"
  /\ IF LongSince(Reads(lastExec), process[s].at)
     THEN /\ seen' = [seen EXCEPT ![s] = process[s].at]
          /\ Turn(s, "entering", process[s].at)
          /\ LoadEntries(s)
          /\ UNCHANGED lockFile
     ELSE /\ seen' = [seen EXCEPT ![s] = Reads(lastExec)]
          /\ lockFile' = "none"
          /\ Sleep(s)
          /\ UNCHANGED mingled
  /\ UNCHANGED <<now, lastExec, runs, schedule, upsets>>

(* The same process runs another playbook, under another lock: it loads    *)
(* the file, and leaves it at that or is to write it back.                 *)
LoadForOther(s) ==
  /\ process[s].doing = "sleeping"
  /\ upsets < MaxUpsets
  /\ upsets' = upsets + 1
  /\ seen' = [seen EXCEPT ![s] = Reads(lastExec)]
  /\ \/ Turn(s, "other", process[s].at) /\ LoadEntries(s)
     \/ UNCHANGED <<process, mingled>>
  /\ UNCHANGED <<now, scheduleFiles, schedule>>

(* The file is saved: opened, which empties it, and then written.          *)
OpenFile(s) ==
  /\ \/ process[s].doing = "entering" /\ Turn(s, "writing", process[s].at)
     \/ process[s].doing = "other" /\ Turn(s, "otherWriting", process[s].at)
  /\ lastExec' = NoJson
  /\ UNCHANGED <<now, seen, lockFile, runs, schedule, upsets, mingled>>

(* What another process has written since is written over, and what is     *)
(* longer than this sticks out behind.                                     *)
WriteEntries(s) ==
  /\ \/ process[s].doing = "writing" /\ Turn(s, "calling", process[s].at)
     \/ process[s].doing = "otherWriting" /\ Turn(s, "sleeping", process[s].at)
  /\ \/ lastExec' = seen[s]
     \/ lastExec # NoJson /\ lastExec' = NoJson
  /\ UNCHANGED <<now, seen, lockFile, runs, schedule, upsets, mingled>>

(* The run is made, or refused; the lock file is removed either way.       *)
Served(t) ==
  IF NextTime(t) - t <= CheckInterval THEN NextTime(t) ELSE PrevTime(t)
(* Mutant: the lock file is only closed.                                   *)
CallApiLocked(s) ==
  /\ process[s].doing = "calling"
  /\ runs' = [o \in Occurrences |->
                IF o = Served(process[s].at) THEN runs[o] + 1 ELSE runs[o]]
  /\ Sleep(s)
  /\ UNCHANGED <<now, seen, lastExec, lockFile, schedule, upsets, mingled>>
CallApi(s) ==
  /\ process[s].doing = "calling"
  /\ runs' = [o \in Occurrences |->
                IF o = Served(process[s].at) THEN runs[o] + 1 ELSE runs[o]]
  /\ lockFile' = "none"
  /\ Sleep(s)
  /\ UNCHANGED <<now, seen, lastExec, schedule, upsets, mingled>>

-----------------------------------------------------------------------------
(* A process is killed and starts again.  Its lock file stays, and so does *)
(* a file it has emptied; that of another playbook's run is a loss here.   *)
SchedulerCrash(s) ==
  /\ upsets < MaxUpsets
  /\ upsets' = upsets + 1
  /\ lockFile' = IF lockFile = s THEN "left" ELSE lockFile
  /\ mingled' = (mingled \/ process[s].doing = "otherWriting")
  /\ seen' = [seen EXCEPT ![s] = Reads(lastExec)]
  /\ process' = [process EXCEPT ![s] =
       [doing |-> "sleeping", at |-> now, started |-> now]]
  /\ UNCHANGED <<now, lastExec, runs, schedule>>

EditSchedule ==
  /\ upsets < MaxUpsets
  /\ upsets' = upsets + 1
  /\ enabled' = ~enabled
  /\ editedAt' = now
  /\ UNCHANGED <<now, process, seen, scheduleFiles, mingled>>

(* Nothing a process has to do waits longer than one Tick.                 *)
SchedulerClock ==
  /\ now + Tick <= Horizon
  /\ \A s \in Schedulers : now < process[s].at + Tick
  /\ now' = now + Tick
  /\ UNCHANGED <<process, seen, scheduleFiles, schedule, upsets, mingled>>

SchedulerNext ==
  \/ \E s \in Schedulers :
       \/ Poll(s) \/ TakeLock(s) \/ EnterRun(s) \/ LoadForOther(s)
       \/ OpenFile(s) \/ WriteEntries(s) \/ CallApi(s) \/ SchedulerCrash(s)
  \/ EditSchedule
  \/ SchedulerClock

SchedulerSpec == SchedulerInit /\ [][SchedulerNext]_schedulerVars

-----------------------------------------------------------------------------
(* However many processes poll, in whatever phase, and however they lag or *)
(* crash, one occurrence is run once: the lock file and the time that is   *)
(* entered under it do that as long as no two processes are at the file of *)
(* all playbooks at once, each for another of them, and none is killed     *)
(* while it writes it for another.                                         *)
RunOnce == ~mingled => \A o \in Occurrences : runs[o] <= 1

(* And it is run: between two runs enough time passes for the next one to  *)
(* be far enough from the last when its turn comes.  Not counted are       *)
(* occurrences a user's edit or a restart comes too close to, and those    *)
(* after a crash that left the lock file behind.                           *)
NoOccurrenceMissed ==
  \A o \in Occurrences :
    \/ now <= o + ExecutionWindow + 2 * Tick
    \/ runs[o] > 0
    \/ ~enabled
    \/ editedAt > o - CheckInterval
    \/ lockFile = "left"
    \/ \E s \in Schedulers :
         process[s].started + StartupGracePeriod > o - CheckInterval
=============================================================================
