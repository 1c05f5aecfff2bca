-------------------------- MODULE Scheduling_proofs ---------------------------
(***************************************************************************)
(* Theorems about what runs by the clock or in the background: the         *)
(* scheduler of playbooks (PlaybookScheduler), the synchronisation of      *)
(* sources (SourceSync), and the project's configuration with its          *)
(* automatic syncs (ProjectConfig).  They hold for any schedulers,         *)
(* sources and threads, and any number of edits and restarts.              *)
(***************************************************************************)
EXTENDS PlaybookScheduler, SourceSync, ProjectConfig, TLAPS

(***************************************************************************)
(* Playbooks on schedule.                                                  *)
(***************************************************************************)

(* Multiples of a length of time: two of them are that length apart.       *)
Multiple(x, d) == \E k \in Int : x = d * k

(* Two different multiples are at least the length apart.                  *)
LEMMA MultiplesApart ==
  ASSUME NEW d \in Nat \ {0}, NEW a \in Int, NEW b \in Int,
         Multiple(a, d), Multiple(b, d), a < b
  PROVE  a + d <= b
<1>1. PICK i \in Int : a = d * i BY DEF Multiple
<1>2. PICK j \in Int : b = d * j BY DEF Multiple
<1>3. i < j
  <2>1. CASE i >= j
    <3>1. d * i >= d * j BY <2>1
    <3> QED BY <1>1, <1>2, <3>1
  <2> QED BY <2>1
<1>4. d * (i + 1) <= d * j BY <1>3
<1>5. d * (i + 1) = d * i + d OBVIOUS
<1> QED BY <1>1, <1>2, <1>4, <1>5

(* The sum of two multiples is one.                                        *)
LEMMA MultiplesAdd ==
  ASSUME NEW d \in Nat \ {0}, NEW a \in Int, NEW b \in Int,
         Multiple(a, d), Multiple(b, d)
  PROVE  Multiple(a + b, d)
<1>1. PICK i \in Int : a = d * i BY DEF Multiple
<1>2. PICK j \in Int : b = d * j BY DEF Multiple
<1>3. d * (i + j) = d * i + d * j OBVIOUS
<1>4. a + b = d * (i + j) BY <1>1, <1>2, <1>3
<1>5. i + j \in Int OBVIOUS
<1> QED BY <1>4, <1>5, Zenon DEF Multiple

(* Division with remainder.                                                *)
LEMMA Division ==
  ASSUME NEW d \in Nat \ {0}, NEW a \in Nat
  PROVE  a = d * (a \div d) + (a % d)
  OBVIOUS

(* What is left of a number without its remainder is a multiple.           *)
LEMMA RemainderMultiple ==
  ASSUME NEW d \in Nat \ {0}, NEW a \in Nat, a % d = 0
  PROVE  Multiple(a, d)
<1>1. a = d * (a \div d) + (a % d) BY Division
<1>2. a \div d \in Int OBVIOUS
<1>3. a = d * (a \div d) + 0 BY <1>1
<1> QED BY <1>2, <1>3 DEF Multiple

(* The occurrence before a time: the last multiple of the period.          *)
LEMMA PrevFacts ==
  ASSUME NEW t \in Nat
  PROVE  /\ PrevTime(t) \in Int /\ Multiple(PrevTime(t), Period)
         /\ PrevTime(t) < t /\ t <= PrevTime(t) + Period
<1>0. Period \in Nat \ {0} BY SchedulerAssumption
<1> DEFINE q == (t + Period - 1) \div Period
<1>1. q \in Int BY <1>0
<1>2. Period * q <= t + Period - 1 /\ t + Period - 1 < Period * q + Period
  BY <1>0
<1>3. PrevTime(t) = Period * (q - 1) BY <1>0 DEF PrevTime
<1>4. PrevTime(t) = Period * q - Period BY <1>0 DEF PrevTime
<1> HIDE DEF q
<1> QED BY <1>0, <1>1, <1>2, <1>3, <1>4 DEF Multiple

(* The lengths of time are naturals, and the window is two intervals at    *)
(* least.                                                                  *)
LEMMA Sizes ==
  /\ CheckInterval \in Nat /\ CheckInterval >= 15
  /\ Period \in Nat \ {0} /\ Tick \in Nat \ {0} /\ Horizon \in Nat
  /\ MaxUpsets \in Nat
  /\ ExecutionWindow \in Nat /\ ExecutionWindow >= 2 * CheckInterval
<1>1. /\ CheckInterval \in Nat /\ CheckInterval >= 15
      /\ Period \in Nat \ {0} /\ Tick \in Nat \ {0} /\ Horizon \in Nat
      /\ MaxUpsets \in Nat
  BY SchedulerAssumption
<1>2. Period \div 2 \in Nat BY <1>1
<1> QED BY <1>1, <1>2 DEF ExecutionWindow, LongerOf

(* The period is a multiple of itself.                                     *)
LEMMA PeriodMultiple == Multiple(Period, Period)
<1>1. Period = Period * 1 BY Sizes
<1> QED BY <1>1 DEF Multiple

-----------------------------------------------------------------------------
(* A run is made near the occurrence it serves: no sooner than an interval *)
(* before it, and no later than a window after it.                         *)
NearTime(t) == IsNear(t) \/ Urgent(t)

(* An occurrence that is served is near the time it is served at.          *)
LEMMA ServedNear ==
  ASSUME NEW t \in Nat, NearTime(t)
  PROVE  /\ Served(t) \in Int /\ Multiple(Served(t), Period)
         /\ Served(t) - CheckInterval <= t
         /\ t <= Served(t) + ExecutionWindow
<1>1. /\ PrevTime(t) \in Int /\ Multiple(PrevTime(t), Period)
      /\ PrevTime(t) < t /\ t <= PrevTime(t) + Period
  BY PrevFacts
<1>2. NextTime(t) = PrevTime(t) + Period BY DEF NextTime
<1>3. Multiple(NextTime(t), Period)
  BY <1>1, <1>2, PeriodMultiple, MultiplesAdd, Sizes
<1>4. \/ Served(t) = NextTime(t) /\ NextTime(t) - t <= CheckInterval
      \/ Served(t) = PrevTime(t) /\ t - PrevTime(t) <= ExecutionWindow
  BY <1>1, <1>2, Sizes DEF Served, NearTime, IsNear, Urgent
<1> QED BY <1>1, <1>2, <1>3, <1>4, Sizes

(* And the other way round, when the two reaches of an occurrence do not   *)
(* meet those of its neighbours.                                           *)
LEMMA NearServed ==
  ASSUME NEW t \in Nat, NEW o \in Int, Multiple(o, Period),
         CheckInterval + ExecutionWindow < Period,
         o - CheckInterval <= t, t <= o + ExecutionWindow
  PROVE  IsNear(t) /\ Served(t) = o
<1>1. /\ PrevTime(t) \in Int /\ Multiple(PrevTime(t), Period)
      /\ PrevTime(t) < t /\ t <= PrevTime(t) + Period
  BY PrevFacts
<1>2. o < PrevTime(t) => o + Period <= PrevTime(t)
  BY <1>1, MultiplesApart, Sizes
<1>3. PrevTime(t) < o => PrevTime(t) + Period <= o
  BY <1>1, MultiplesApart, Sizes
<1>4. CASE o < t
  <2>1. PrevTime(t) = o BY <1>1, <1>2, <1>3, <1>4, Sizes
  <2> QED BY <1>1, <2>1, Sizes DEF IsNear, Served, NextTime
<1>5. CASE t <= o
  <2> DEFINE N == PrevTime(t) + Period
  <2>0. Multiple(N, Period)
    BY <1>1, PeriodMultiple, MultiplesAdd, Sizes
  <2>1. N \in Int /\ Multiple(N, Period) /\ t <= N
    BY <1>1, <2>0, Sizes
  <2>2. N <= o
    BY <1>1, <1>3, <1>5
  <2>3. t > o - Period
    BY Sizes
  <2>4. N < o => N + Period <= o
    <3> HIDE DEF N
    <3> QED BY <2>1, MultiplesApart, Sizes
  <2>5. N = o
    BY <2>1, <2>2, <2>3, <2>4, Sizes
  <2> QED BY <1>1, <1>5, <2>5, Sizes DEF IsNear, Served, NextTime
<1> QED BY <1>4, <1>5
-----------------------------------------------------------------------------
(* What a process does next, and since when, is written at once.           *)
LEMMA TurnFacts ==
  ASSUME process \in [Schedulers -> Process],
         NEW s \in Schedulers, NEW doing \in Doing,
         NEW at \in 0..(Horizon + CheckInterval), Turn(s, doing, at)
  PROVE  /\ process' \in [Schedulers -> Process]
         /\ process'[s].doing = doing /\ process'[s].at = at
         /\ process'[s].started = process[s].started
         /\ \A q \in Schedulers \ {s} : process'[q] = process[q]
  BY DEF Turn, Process

(* The types, as far as they are numbers.                                  *)
LEMMA TypedNumbers ==
  ASSUME SchedulerTypeOK
  PROVE  /\ now \in Nat /\ editedAt \in Nat /\ Reads(lastExec) \in Int
         /\ \A s \in Schedulers :
              /\ process[s].at \in Nat /\ process[s].started \in Nat
              /\ seen[s] \in Int
<1>1. now \in Nat /\ editedAt \in Nat /\ Reads(lastExec) \in Int
  BY Sizes DEF SchedulerTypeOK, Times, Never, Reads
<1>2. ASSUME NEW s \in Schedulers
      PROVE  /\ process[s].at \in Nat /\ process[s].started \in Nat
             /\ seen[s] \in Int
  <2>1. process[s] \in Process /\ seen[s] \in Times \cup {Never}
    BY DEF SchedulerTypeOK
  <2> QED
    BY <2>1, Sizes DEF Process, Times, Never
<1> QED
  BY <1>1, <1>2

(* Types at the start.                                                     *)
LEMMA SchedulerInitTyped == SchedulerInit => SchedulerTypeOK
<1> SUFFICES ASSUME SchedulerInit PROVE SchedulerTypeOK
  OBVIOUS
<1>1. process \in [Schedulers -> Process]
  BY Sizes DEF SchedulerInit, Process, Doing, Elsewhere, Times
<1>2. now \in Times /\ editedAt \in Times /\ upsets \in 0..MaxUpsets
  BY Sizes DEF SchedulerInit, Times
<1>3. runs \in [Occurrences -> Nat]
  BY DEF SchedulerInit
<1> QED
  BY <1>1, <1>2, <1>3 DEF SchedulerInit, SchedulerTypeOK

(* A scheduler's pause, by what it changes.                                *)
LEMMA SleepFacts ==
  ASSUME SchedulerTypeOK, NEW s \in Schedulers, Sleep(s)
  PROVE  /\ process' \in [Schedulers -> Process]
         /\ process'[s].doing = "sleeping"
         /\ process'[s].at = now + CheckInterval
         /\ process'[s].started = process[s].started
         /\ \A q \in Schedulers \ {s} : process'[q] = process[q]
<1>1. now + CheckInterval \in 0..(Horizon + CheckInterval)
  BY Sizes DEF SchedulerTypeOK, Times
<1>2. "sleeping" \in Doing
  BY DEF Doing, Elsewhere
<1>3. Turn(s, "sleeping", now + CheckInterval)
  BY DEF Sleep
<1>4. process \in [Schedulers -> Process]
  BY DEF SchedulerTypeOK
<1> QED
  BY <1>1, <1>2, <1>3, <1>4, TurnFacts

(* A scheduler's step within a poll.                                       *)
LEMMA MoveFacts ==
  ASSUME SchedulerTypeOK, NEW s \in Schedulers, NEW doing \in Doing,
         Turn(s, doing, process[s].at)
  PROVE  /\ process' \in [Schedulers -> Process]
         /\ process'[s].doing = doing /\ process'[s].at = process[s].at
         /\ process'[s].started = process[s].started
         /\ \A q \in Schedulers \ {s} : process'[q] = process[q]
<1>1. process[s].at \in 0..(Horizon + CheckInterval)
      /\ process \in [Schedulers -> Process]
  BY DEF SchedulerTypeOK, Process
<1> QED
  BY <1>1, TurnFacts

(* A scheduler's step to a run that is due.                                *)
LEMMA DueFacts ==
  ASSUME SchedulerTypeOK, NEW s \in Schedulers, Turn(s, "due", now)
  PROVE  /\ process' \in [Schedulers -> Process]
         /\ process'[s].doing = "due" /\ process'[s].at = now
         /\ process'[s].started = process[s].started
         /\ \A q \in Schedulers \ {s} : process'[q] = process[q]
<1>1. now \in 0..(Horizon + CheckInterval) /\ "due" \in Doing
      /\ process \in [Schedulers -> Process]
  BY Sizes DEF SchedulerTypeOK, Times, Doing
<1> QED
  BY <1>1, TurnFacts

(* A crash of a scheduler restarts it.                                     *)
LEMMA RestartFacts ==
  ASSUME SchedulerTypeOK, NEW s \in Schedulers, SchedulerCrash(s)
  PROVE  /\ process' \in [Schedulers -> Process]
         /\ process'[s].doing = "sleeping" /\ process'[s].at = now
         /\ process'[s].started = now
         /\ \A q \in Schedulers \ {s} : process'[q] = process[q]
<1>1. [doing |-> "sleeping", at |-> now, started |-> now] \in Process
  BY Sizes DEF SchedulerTypeOK, Process, Doing, Elsewhere, Times
<1> QED
  BY <1>1 DEF SchedulerTypeOK, SchedulerCrash

(* A step at the file of all playbooks: a process stays in the run it is   *)
(* at, or elsewhere, and the lock is not touched.                          *)
Serving == {"locked", "entering", "writing", "calling"}
Entrant == {"entering", "writing", "calling"}
EntryStep(s) == LoadForOther(s) \/ OpenFile(s) \/ WriteEntries(s)
LEMMA FileStepFacts ==
  ASSUME SchedulerTypeOK, NEW s \in Schedulers, EntryStep(s)
  PROVE  /\ process' \in [Schedulers -> Process]
         /\ process'[s].at = process[s].at
         /\ process'[s].started = process[s].started
         /\ process'[s].doing \in Elsewhere <=> process[s].doing \in Elsewhere
         /\ process'[s].doing \in Serving <=> process[s].doing \in Serving
         /\ process'[s].doing \in Entrant <=> process[s].doing \in Entrant
         /\ process'[s].doing # "locked" /\ process[s].doing # "locked"
         /\ process'[s].doing # "due" /\ process[s].doing # "due"
         /\ \A q \in Schedulers \ {s} : process'[q] = process[q]
         /\ UNCHANGED <<now, lockFile, runs, schedule>>
<1> USE DEF Elsewhere, Serving, Entrant, schedule, scheduleFiles
<1>0. /\ process \in [Schedulers -> Process]
      /\ {"other", "otherWriting", "writing", "calling", "sleeping"}
           \subseteq Doing
  BY DEF SchedulerTypeOK, Doing, AtFile
<1>1. CASE LoadForOther(s)
  <2>1. CASE Turn(s, "other", process[s].at)
    BY <1>0, <1>1, <2>1, MoveFacts DEF LoadForOther
  <2>2. CASE UNCHANGED process
    BY <1>0, <1>1, <2>2 DEF LoadForOther
  <2> QED
    BY <1>1, <2>1, <2>2 DEF LoadForOther
<1>2. CASE OpenFile(s)
  BY <1>0, <1>2, MoveFacts DEF OpenFile
<1>3. CASE WriteEntries(s)
  BY <1>0, <1>3, MoveFacts DEF WriteEntries
<1> QED
  BY <1>1, <1>2, <1>3 DEF EntryStep

(* A process that has a run to make is at a time near the occurrence; the  *)
(* one that makes it holds the lock, and remembers that time once it has   *)
(* entered it.                                                             *)
LockInv ==
  \A s \in Schedulers :
    /\ process[s].doing \notin Elsewhere =>
         process[s].at \in Times /\ NearTime(process[s].at)
    /\ process[s].doing \in Serving => lockFile = s
    /\ process[s].doing \in Entrant => seen[s] = process[s].at

(* Nobody holds the lock at the start.                                     *)
LEMMA InitLock == SchedulerInit => SchedulerTypeOK /\ LockInv
<1> SUFFICES ASSUME SchedulerInit PROVE LockInv
  BY SchedulerInitTyped
<1>1. \A s \in Schedulers : process[s].doing = "sleeping"
  BY DEF SchedulerInit
<1> QED
  BY <1>1 DEF LockInv, Elsewhere, Serving, Entrant

(* The doings of a process apart from one another.                         *)
LEMMA Doings ==
  /\ "sleeping" \in Elsewhere /\ Elsewhere \cap Serving = {}
  /\ "due" \notin Elsewhere \cup Serving
  /\ Entrant \subseteq Serving /\ Serving \subseteq Doing
  /\ "locked" \in Serving /\ "locked" \notin Entrant
  /\ "sleeping" \notin AtFile /\ "due" \notin AtFile
  /\ "locked" \notin AtFile /\ "calling" \notin AtFile
  BY DEF Elsewhere, Serving, Entrant, Doing, AtFile

(* Every step keeps the types and the lock.                                *)
LEMMA NextLock ==
  SchedulerTypeOK /\ LockInv /\ [SchedulerNext]_schedulerVars
    => SchedulerTypeOK' /\ LockInv'
<1> SUFFICES ASSUME SchedulerTypeOK, LockInv, [SchedulerNext]_schedulerVars
    PROVE  SchedulerTypeOK' /\ LockInv'
  OBVIOUS
<1> USE DEF SchedulerTypeOK, scheduleFiles, schedule
<1>a. Reads(lastExec) \in Times \cup {Never}
  BY DEF Reads
<1>1. ASSUME NEW s \in Schedulers, Poll(s)
      PROVE  SchedulerTypeOK' /\ LockInv'
  <2>1. CASE Turn(s, "due", now) /\ ShouldRun(s)
    <3>1. NearTime(now)
      BY <2>1 DEF ShouldRun, NearTime
    <3>2. LockInv'
      BY <1>1, <2>1, <3>1, DueFacts, Doings DEF Poll, LockInv
    <3> QED
      BY <1>1, <2>1, <3>2, DueFacts DEF Poll
  <2>2. CASE Sleep(s)
    <3>1. LockInv'
      BY <1>1, <2>2, SleepFacts, Doings DEF Poll, LockInv
    <3> QED
      BY <1>1, <2>2, <3>1, SleepFacts DEF Poll
  <2> QED
    BY <1>1, <2>1, <2>2 DEF Poll
<1>2. ASSUME NEW s \in Schedulers, TakeLock(s)
      PROVE  SchedulerTypeOK' /\ LockInv'
  <2>1. CASE lockFile = "none" /\ lockFile' = s
             /\ Turn(s, "locked", process[s].at)
    <3>1. "locked" \in Doing
      BY DEF Doing
    <3>2. LockInv'
      BY <1>2, <2>1, <3>1, MoveFacts, Doings, SchedulersAssumption
      DEF TakeLock, LockInv
    <3> QED
      BY <1>2, <2>1, <3>1, <3>2, MoveFacts DEF TakeLock
  <2>2. CASE Sleep(s) /\ lockFile' = lockFile
    <3>1. LockInv'
      BY <1>2, <2>2, SleepFacts, Doings DEF TakeLock, LockInv
    <3> QED
      BY <1>2, <2>2, <3>1, SleepFacts DEF TakeLock
  <2> QED
    BY <1>2, <2>1, <2>2 DEF TakeLock
<1>3. ASSUME NEW s \in Schedulers, EnterRun(s)
      PROVE  SchedulerTypeOK' /\ LockInv'
  <2>0. /\ lockFile = s /\ process[s].at \in Times
        /\ NearTime(process[s].at)
        /\ \A q \in Schedulers \ {s} : process[q].doing \notin Serving
    BY <1>3, Doings DEF EnterRun, LockInv
  <2>1. CASE /\ seen' = [seen EXCEPT ![s] = process[s].at]
             /\ Turn(s, "entering", process[s].at) /\ LoadEntries(s)
             /\ lockFile' = lockFile
    <3>1. "entering" \in Doing
      BY DEF Doing, AtFile
    <3>2. LockInv'
      BY <1>3, <2>0, <2>1, <3>1, MoveFacts DEF EnterRun, LockInv
    <3>3. mingled' \in BOOLEAN
      BY <2>1 DEF LoadEntries
    <3> QED
      BY <1>3, <2>0, <2>1, <3>1, <3>2, <3>3, MoveFacts DEF EnterRun
  <2>2. CASE /\ seen' = [seen EXCEPT ![s] = Reads(lastExec)]
             /\ lockFile' = "none" /\ Sleep(s) /\ mingled' = mingled
    <3>1. LockInv'
      BY <1>3, <2>0, <2>2, SleepFacts, Doings DEF EnterRun, LockInv
    <3> QED
      BY <1>3, <1>a, <2>0, <2>2, <3>1, SleepFacts DEF EnterRun
  <2> QED
    BY <1>3, <2>1, <2>2 DEF EnterRun
<1>4. ASSUME NEW s \in Schedulers, CallApi(s)
      PROVE  SchedulerTypeOK' /\ LockInv'
  <2>0. lockFile = s /\ \A q \in Schedulers \ {s} :
             process[q].doing \notin Serving
    BY <1>4 DEF CallApi, LockInv, Serving
  <2>1. Sleep(s)
    BY <1>4 DEF CallApi
  <2>2. runs' \in [Occurrences -> Nat]
    BY <1>4 DEF CallApi
  <2>3. LockInv'
    BY <1>4, <2>0, <2>1, SleepFacts, Doings DEF CallApi, LockInv
  <2> QED
    BY <1>4, <2>1, <2>2, <2>3, SleepFacts DEF CallApi
<1>5. ASSUME NEW s \in Schedulers, SchedulerCrash(s)
      PROVE  SchedulerTypeOK' /\ LockInv'
  <2>1. upsets' \in 0..MaxUpsets
    BY <1>5, Sizes DEF SchedulerCrash
  <2>3. seen' \in [Schedulers -> Times \cup {Never}]
    BY <1>5, <1>a DEF SchedulerCrash
  <2>4. lockFile' \in Schedulers \cup {"left", "none"}
        /\ mingled' \in BOOLEAN
    BY <1>5 DEF SchedulerCrash
  <2>5. LockInv'
    <3>1. \A q \in Schedulers \ {s} :
            /\ process[q].doing \in Serving => lockFile' = q
            /\ seen'[q] = seen[q]
      BY <1>5 DEF SchedulerCrash, LockInv
    <3> QED
      BY <1>5, <3>1, RestartFacts, Doings DEF LockInv, SchedulerCrash
  <2> QED
    BY <1>5, <2>1, <2>3, <2>4, <2>5, RestartFacts DEF SchedulerCrash
<1>9. ASSUME NEW s \in Schedulers, EntryStep(s)
      PROVE  SchedulerTypeOK' /\ LockInv'
  <2>1. upsets' \in 0..MaxUpsets
    BY <1>9, Sizes DEF EntryStep, LoadForOther, OpenFile, WriteEntries
  <2>2. mingled' \in BOOLEAN
    BY <1>9 DEF EntryStep, LoadForOther, OpenFile, WriteEntries, LoadEntries
  <2>3. seen' \in [Schedulers -> Times \cup {Never}]
    BY <1>9, <1>a DEF EntryStep, LoadForOther, OpenFile, WriteEntries
  <2>4. lastExec' \in Times \cup {Never, NoJson}
    BY <1>9 DEF EntryStep, LoadForOther, OpenFile, WriteEntries
  <2>5. \A q \in Schedulers : process[q].doing \in Entrant => seen'[q] = seen[q]
    BY <1>9, Doings DEF EntryStep, LoadForOther, OpenFile, WriteEntries
  <2>6. \A q \in Schedulers : process'[q].at = process[q].at
    BY <1>9, FileStepFacts
  <2>7. \A q \in Schedulers :
          /\ process'[q].doing \in Elsewhere <=> process[q].doing \in Elsewhere
          /\ process'[q].doing \in Serving <=> process[q].doing \in Serving
          /\ process'[q].doing \in Entrant <=> process[q].doing \in Entrant
    BY <1>9, FileStepFacts
  <2>8. now' = now /\ lockFile' = lockFile /\ runs' = runs
        /\ enabled' = enabled /\ editedAt' = editedAt
        /\ process' \in [Schedulers -> Process]
    BY <1>9, FileStepFacts
  <2>9. LockInv'
    BY <2>5, <2>6, <2>7, <2>8
    DEF LockInv, NearTime, IsNear, Urgent, NextTime, PrevTime,
        ExecutionWindow
  <2> QED
    BY <2>1, <2>2, <2>3, <2>4, <2>8, <2>9
<1>6. CASE EditSchedule
  <2>1. upsets' \in 0..MaxUpsets
    BY <1>6, Sizes DEF EditSchedule
  <2> QED
    BY <1>6, <2>1 DEF EditSchedule, LockInv
<1>7. CASE SchedulerClock
  <2>1. now' \in Times
    BY <1>7, Sizes DEF SchedulerClock, Times
  <2> QED
    BY <1>7, <2>1 DEF SchedulerClock, LockInv
<1>8. CASE UNCHANGED schedulerVars
  BY <1>8 DEF schedulerVars, LockInv
<1> QED
  BY <1>1, <1>2, <1>3, <1>4, <1>5, <1>6, <1>7, <1>8, <1>9
  DEF SchedulerNext, EntryStep

-----------------------------------------------------------------------------
(* Every variable of the scheduler keeps to its type.                      *)
THEOREM SchedulerTypeCorrect == SchedulerSpec => []SchedulerTypeOK
<1>1. SchedulerTypeOK /\ LockInv => SchedulerTypeOK
  OBVIOUS
<1> QED
  BY <1>1, InitLock, NextLock, PTL DEF SchedulerSpec

(* The runs of an occurrence are apart from those of the next by more than *)
(* the reach of one occurrence, as the seven tenths of the period are.     *)
Spaced == 10 * (CheckInterval + ExecutionWindow) < 7 * Period

(* Two processes are at the file at once only where that is counted out,   *)
(* and what one of them has opened is empty until it has written it.       *)
AtDump(s) == process[s].doing \in {"writing", "otherWriting"}
AloneInv ==
  ~mingled =>
    \A s \in Schedulers :
      /\ AtDump(s) => lastExec = NoJson
      /\ process[s].doing \in AtFile =>
           \A q \in Schedulers \ {s} : process[q].doing \notin AtFile

(* What has been run is known to the file, and to whoever writes it back;  *)
(* nobody is about to run it again, unless a crash has left the lock, and  *)
(* then nothing is run at all.                                             *)
LateFor(t, o) == t \in Times /\ t >= o - CheckInterval
EntryWritten(o) ==
  \/ runs[o] > 0
  \/ \E s \in Schedulers :
       process[s].doing = "calling" /\ Served(process[s].at) = o
EntryKnown(o) ==
  /\ LateFor(lastExec, o) \/ \E s \in Schedulers : AtDump(s)
  /\ \A s \in Schedulers :
       /\ process[s].doing \in AtFile => LateFor(seen[s], o)
       /\ process[s].doing \in {"entering", "writing"} =>
            Served(process[s].at) # o
       /\ process[s].doing = "calling" /\ runs[o] > 0 =>
            Served(process[s].at) # o
Remembered(o) ==
  ~mingled => /\ runs[o] <= 1
              /\ lockFile # "left" /\ EntryWritten(o) => EntryKnown(o)
OnceInv == AloneInv /\ \A o \in Occurrences : Remembered(o)

(* An occurrence is a multiple of the period.                              *)
LEMMA OccurrenceTypes ==
  \A o \in Occurrences : o \in Int /\ Multiple(o, Period)
  BY Sizes, RemainderMultiple DEF Occurrences, Times

(* Nothing has run at the start.                                           *)
LEMMA InitOnce == SchedulerInit => OnceInv
<1> SUFFICES ASSUME SchedulerInit PROVE OnceInv
  OBVIOUS
<1>1. \A s \in Schedulers : process[s].doing = "sleeping"
  BY DEF SchedulerInit
<1>2. AloneInv
  BY <1>1 DEF AloneInv, AtDump, AtFile
<1>3. \A o \in Occurrences : runs[o] = 0
  BY DEF SchedulerInit
<1> QED
  BY <1>1, <1>2, <1>3 DEF OnceInv, Remembered, EntryWritten

(* A step of a process that is not at the file after it.                   *)
LEMMA StepsAside ==
  ASSUME SchedulerTypeOK, OnceInv, NEW s \in Schedulers,
         process'[s].doing \notin AtFile, mingled' = mingled,
         \A q \in Schedulers \ {s} : process'[q] = process[q],
         process[s].doing \notin AtFile, lastExec' = lastExec
  PROVE  AloneInv'
  BY DEF OnceInv, AloneInv, AtDump, AtFile

(* Every step that is not counted out leaves at most one at the file.      *)
LEMMA NextAlone ==
  SchedulerTypeOK /\ OnceInv /\ [SchedulerNext]_schedulerVars => AloneInv'
<1> SUFFICES ASSUME SchedulerTypeOK, OnceInv, [SchedulerNext]_schedulerVars
             PROVE  AloneInv'
  OBVIOUS
<1>0. AloneInv
  BY DEF OnceInv
<1> USE DEF scheduleFiles, schedule
<1>1. ASSUME NEW s \in Schedulers, Poll(s)
      PROVE  AloneInv'
  <2>1. process'[s].doing \in {"due", "sleeping"}
        /\ \A q \in Schedulers \ {s} : process'[q] = process[q]
    BY <1>1, SleepFacts, DueFacts DEF Poll
  <2> QED
    BY <1>1, <2>1, StepsAside, Doings DEF Poll
<1>2. ASSUME NEW s \in Schedulers, TakeLock(s)
      PROVE  AloneInv'
  <2>1. process'[s].doing \in {"locked", "sleeping"}
        /\ \A q \in Schedulers \ {s} : process'[q] = process[q]
    BY <1>2, SleepFacts, MoveFacts, Doings DEF TakeLock
  <2> QED
    BY <1>2, <2>1, StepsAside, Doings DEF TakeLock
<1>3. ASSUME NEW s \in Schedulers, EnterRun(s)
      PROVE  AloneInv'
  <2>1. CASE Turn(s, "entering", process[s].at) /\ LoadEntries(s)
    <3>1. "entering" \in Doing
      BY DEF Doing, AtFile
    <3>2. process'[s].doing = "entering" /\ ~AtDump(s)'
          /\ \A q \in Schedulers \ {s} : process'[q] = process[q]
      BY <2>1, <3>1, MoveFacts DEF AtDump
    <3>3. ~mingled' => ~mingled /\ \A q \in Schedulers \ {s} :
                                     process[q].doing \notin AtFile
      BY <2>1 DEF LoadEntries
    <3>4. ASSUME ~mingled', NEW q \in Schedulers
          PROVE  ~AtDump(q)'
      BY <3>2, <3>3, <3>4 DEF AtDump, AtFile
    <3> QED
      BY <3>2, <3>3, <3>4 DEF AloneInv
  <2>2. CASE Sleep(s) /\ mingled' = mingled
    BY <1>3, <2>2, SleepFacts, StepsAside, Doings DEF EnterRun
  <2> QED
    BY <1>3, <2>1, <2>2 DEF EnterRun
<1>4. ASSUME NEW s \in Schedulers, CallApi(s)
      PROVE  AloneInv'
  BY <1>4, SleepFacts, StepsAside, Doings DEF CallApi
<1>5. ASSUME NEW s \in Schedulers, SchedulerCrash(s)
      PROVE  AloneInv'
  BY <1>0, <1>5, RestartFacts, Doings
  DEF SchedulerCrash, AloneInv, AtDump
<1>9. ASSUME NEW s \in Schedulers, LoadForOther(s)
      PROVE  AloneInv'
  <2>1. CASE Turn(s, "other", process[s].at) /\ LoadEntries(s)
    <3>1. "other" \in Doing
      BY DEF Doing, AtFile
    <3>2. process'[s].doing = "other" /\ ~AtDump(s)'
          /\ \A q \in Schedulers \ {s} : process'[q] = process[q]
      BY <2>1, <3>1, MoveFacts DEF AtDump
    <3>3. ~mingled' => ~mingled /\ \A q \in Schedulers \ {s} :
                                     process[q].doing \notin AtFile
      BY <2>1 DEF LoadEntries
    <3>4. ASSUME ~mingled', NEW q \in Schedulers
          PROVE  ~AtDump(q)'
      BY <3>2, <3>3, <3>4 DEF AtDump, AtFile
    <3> QED
      BY <3>2, <3>3, <3>4 DEF AloneInv
  <2>2. CASE UNCHANGED <<process, mingled>>
    BY <1>0, <1>9, <2>2 DEF LoadForOther, AloneInv, AtDump
  <2> QED
    BY <1>9, <2>1, <2>2 DEF LoadForOther
<1>10. ASSUME NEW s \in Schedulers, OpenFile(s)
       PROVE  AloneInv'
  <2>1. /\ process[s].doing \in AtFile /\ lastExec' = NoJson
        /\ mingled' = mingled
        /\ \A q \in Schedulers \ {s} : process'[q] = process[q]
    BY <1>10, FileStepFacts DEF OpenFile, AtFile, EntryStep
  <2> QED
    BY <1>0, <2>1 DEF AloneInv
<1>11. ASSUME NEW s \in Schedulers, WriteEntries(s)
       PROVE  AloneInv'
  <2>1. /\ process[s].doing \in AtFile /\ mingled' = mingled
        /\ \A q \in Schedulers \ {s} : process'[q] = process[q]
    BY <1>11, FileStepFacts DEF WriteEntries, AtFile, EntryStep
  <2>2. {"calling", "sleeping"} \subseteq Doing
    BY DEF Doing, Elsewhere
  <2>3. process'[s].doing \in {"calling", "sleeping"}
    BY <1>11, <2>2, MoveFacts DEF WriteEntries
  <2>4. process'[s].doing \notin AtFile /\ ~AtDump(s)'
    BY <2>3 DEF AtFile, AtDump
  <2>5. ASSUME ~mingled, NEW q \in Schedulers \ {s}
        PROVE  ~AtDump(q)'
    BY <1>0, <2>1, <2>5 DEF AloneInv, AtDump, AtFile
  <2> QED
    BY <1>0, <2>1, <2>4, <2>5 DEF AloneInv
<1>6. CASE EditSchedule
  BY <1>0, <1>6 DEF EditSchedule, AloneInv, AtDump
<1>7. CASE SchedulerClock
  BY <1>0, <1>7 DEF SchedulerClock, AloneInv, AtDump
<1>8. CASE UNCHANGED schedulerVars
  BY <1>0, <1>8 DEF schedulerVars, AloneInv, AtDump
<1> QED
  BY <1>1, <1>2, <1>3, <1>4, <1>5, <1>6, <1>7, <1>8, <1>9, <1>10, <1>11
  DEF SchedulerNext

(* What is known stays so while the file, what is written back and who is  *)
(* about to run do not change.                                             *)
LEMMA StaysKnown ==
  ASSUME SchedulerTypeOK, OnceInv, NEW o \in Occurrences, NEW s \in Schedulers,
         \A q \in Schedulers \ {s} : process'[q] = process[q]
                                      /\ seen'[q] = seen[q],
         process'[s].doing \in {"sleeping", "due", "locked"},
         process[s].doing \notin AtFile,
         lastExec' = lastExec, mingled' = mingled, runs' = runs,
         lockFile' # "left" => lockFile # "left"
  PROVE  Remembered(o)'
<1>1. Remembered(o)
  BY DEF OnceInv
<1>2. EntryWritten(o)' => EntryWritten(o)
  BY DEF EntryWritten, Served, NextTime, PrevTime
<1>3. EntryKnown(o) => EntryKnown(o)'
  <2> SUFFICES ASSUME EntryKnown(o) PROVE EntryKnown(o)'
    OBVIOUS
  <2>1. \A q \in Schedulers : AtDump(q)' <=> AtDump(q)
    BY DEF AtDump, AtFile
  <2>2. LateFor(lastExec, o)' <=> LateFor(lastExec, o)
    BY DEF LateFor
  <2>3. process'[s].doing \notin AtFile \cup {"calling"}
    BY DEF AtFile
  <2> QED
    BY <2>1, <2>2, <2>3
    DEF EntryKnown, LateFor, AtFile, Served, NextTime, PrevTime
<1> QED
  BY <1>1, <1>2, <1>3 DEF Remembered

(* Every step keeps the last run remembered, where schedules are spaced.   *)
LEMMA NextOnce ==
  ASSUME Spaced
  PROVE  SchedulerTypeOK /\ LockInv /\ OnceInv
           /\ [SchedulerNext]_schedulerVars => OnceInv'
<1> SUFFICES ASSUME SchedulerTypeOK, LockInv, OnceInv,
                    [SchedulerNext]_schedulerVars,
                    NEW o \in Occurrences
             PROVE  Remembered(o)'
  BY NextAlone DEF OnceInv
<1>0. /\ o \in Int /\ runs[o] \in Nat /\ Remembered(o) /\ AloneInv
      /\ \A s \in Schedulers : seen[s] \in Times \cup {Never}
  BY OccurrenceTypes DEF OnceInv, SchedulerTypeOK
<1> USE DEF scheduleFiles, schedule
<1>1. ASSUME NEW s \in Schedulers, Poll(s)
      PROVE  Remembered(o)'
  <2>1. process'[s].doing \in {"due", "sleeping"}
        /\ \A q \in Schedulers \ {s} : process'[q] = process[q]
    BY <1>1, SleepFacts, DueFacts DEF Poll
  <2> QED
    BY <1>1, <2>1, StaysKnown, Doings DEF Poll
<1>2. ASSUME NEW s \in Schedulers, TakeLock(s)
      PROVE  Remembered(o)'
  <2>1. process'[s].doing \in {"locked", "sleeping"}
        /\ \A q \in Schedulers \ {s} : process'[q] = process[q]
    BY <1>2, SleepFacts, MoveFacts, Doings DEF TakeLock
  <2>2. lockFile' # "left" => lockFile # "left"
    BY <1>2 DEF TakeLock
  <2> QED
    BY <1>2, <2>1, <2>2, StaysKnown, Doings DEF TakeLock
<1>3. ASSUME NEW s \in Schedulers, EnterRun(s)
      PROVE  Remembered(o)'
  <2>0. /\ lockFile = s /\ lockFile # "left"
        /\ process[s].at \in Times /\ NearTime(process[s].at)
        /\ \A q \in Schedulers \ {s} : process[q].doing \notin Serving
    BY <1>3, SchedulersAssumption, Doings DEF EnterRun, LockInv
  <2>1. CASE /\ LongSince(Reads(lastExec), process[s].at)
             /\ seen' = [seen EXCEPT ![s] = process[s].at]
             /\ Turn(s, "entering", process[s].at) /\ LoadEntries(s)
    <3> SUFFICES ASSUME ~mingled' PROVE Remembered(o)'
      BY DEF Remembered
    <3>1. "entering" \in Doing
      BY DEF Doing, AtFile
    <3>2. /\ process'[s].doing = "entering" /\ process'[s].at = process[s].at
          /\ \A q \in Schedulers \ {s} : process'[q] = process[q]
      BY <2>1, <3>1, MoveFacts
    <3>3. /\ ~mingled
          /\ \A q \in Schedulers \ {s} : process[q].doing \notin AtFile
      BY <2>1 DEF LoadEntries
    <3>4. \A q \in Schedulers : ~AtDump(q)
      BY <1>3, <3>3 DEF EnterRun, AtDump, AtFile
    <3>5. /\ runs' = runs /\ lastExec' = lastExec /\ lockFile' = lockFile
          /\ seen'[s] = process[s].at
      BY <1>3, <2>0, <2>1, SchedulersAssumption
      DEF EnterRun, SchedulerTypeOK
    <3>6. EntryWritten(o)' => EntryWritten(o)
      BY <3>2, <3>5 DEF EntryWritten, Served, NextTime, PrevTime
    <3>7. ASSUME EntryWritten(o)
          PROVE  EntryKnown(o)'
      <4> DEFINE t == process[s].at
      <4>1. /\ t \in Nat /\ Served(t) \in Int
            /\ t <= Served(t) + ExecutionWindow
        BY <2>0, ServedNear DEF Times
      <4>2. EntryKnown(o)
        BY <1>0, <2>0, <3>3, <3>7 DEF Remembered
      <4>3. lastExec \in Nat /\ lastExec >= o - CheckInterval
        BY <3>4, <4>2 DEF EntryKnown, LateFor, Times
      <4>4. Reads(lastExec) = lastExec
        BY <4>3 DEF Reads, NoJson
      <4>5. t - lastExec >= 30 /\ 10 * (t - lastExec) >= 7 * Period
        BY <2>1, <4>3, <4>4 DEF LongSince, Never
      <4>6. seen'[s] = t /\ process'[s].at = t /\ t \in Times
        BY <2>0, <3>2, <3>5
      <4> HIDE DEF t
      <4>7. t > o + ExecutionWindow
        BY <1>0, <4>1, <4>3, <4>5, Sizes DEF Spaced
      <4>8. Served(t) # o
        BY <1>0, <4>1, <4>7, Sizes
      <4>9. t >= o - CheckInterval
        BY <1>0, <4>1, <4>7, Sizes
      <4>10. Served(process'[s].at) # o
        BY <4>6, <4>8
      <4>11. LateFor(seen'[s], o)
        BY <4>6, <4>9 DEF LateFor
      <4>12. LateFor(lastExec', o)
        BY <3>4, <3>5, <4>2 DEF EntryKnown
      <4>13. \A q \in Schedulers \ {s} :
               process'[q].doing \notin AtFile \cup {"calling"}
        BY <2>0, <3>2, <3>3 DEF Serving
      <4> QED
        BY <3>2, <4>10, <4>11, <4>12, <4>13
        DEF EntryKnown, LateFor, AtFile, Served, NextTime, PrevTime
    <3> QED
      BY <1>0, <3>3, <3>5, <3>6, <3>7 DEF Remembered
  <2>2. CASE /\ Sleep(s) /\ mingled' = mingled
             /\ seen' = [seen EXCEPT ![s] = Reads(lastExec)]
    <3>1. process'[s].doing = "sleeping"
          /\ \A q \in Schedulers \ {s} : process'[q] = process[q]
                                          /\ seen'[q] = seen[q]
      BY <2>2, SleepFacts
    <3> QED
      BY <1>3, <2>0, <2>2, <3>1, StaysKnown, Doings DEF EnterRun
  <2> QED
    BY <1>3, <2>1, <2>2 DEF EnterRun
<1>4. ASSUME NEW s \in Schedulers, CallApi(s)
      PROVE  Remembered(o)'
  <2> SUFFICES ASSUME ~mingled' PROVE Remembered(o)'
    BY DEF Remembered
  <2>0. /\ lockFile = s /\ lockFile # "left"
        /\ process[s].doing = "calling" /\ ~mingled
        /\ \A q \in Schedulers \ {s} : process[q].doing \notin Serving
    BY <1>4, SchedulersAssumption DEF CallApi, LockInv, Serving
  <2>1. process'[s].doing = "sleeping"
        /\ \A q \in Schedulers \ {s} : process'[q] = process[q]
    BY <1>4, SleepFacts DEF CallApi
  <2>2. lastExec' = lastExec /\ seen' = seen
    BY <1>4 DEF CallApi
  <2>3. \A q \in Schedulers : process'[q].doing \notin Serving
    BY <2>0, <2>1, Doings
  <2>4. runs'[o] = IF o = Served(process[s].at) THEN runs[o] + 1 ELSE runs[o]
    BY <1>4 DEF CallApi
  <2>5. runs'[o] <= 1 /\ (runs'[o] > 0 => EntryWritten(o))
    <3>1. CASE o = Served(process[s].at)
      <4>1. EntryWritten(o)
        BY <2>0, <3>1 DEF EntryWritten
      <4>2. EntryKnown(o)
        BY <1>0, <2>0, <4>1 DEF Remembered
      <4>3. ~(runs[o] > 0)
        BY <2>0, <3>1, <4>2 DEF EntryKnown
      <4> QED
        BY <1>0, <2>4, <4>1, <4>3
    <3>2. CASE o # Served(process[s].at)
      BY <1>0, <2>0, <2>4, <3>2 DEF Remembered, EntryWritten
    <3> QED
      BY <3>1, <3>2
  <2>6. EntryWritten(o)' => EntryWritten(o)
    BY <2>3, <2>5 DEF EntryWritten, Serving
  <2>7. EntryKnown(o) => EntryKnown(o)'
    <3>1. \A q \in Schedulers :
            /\ AtDump(q) <=> AtDump(q)'
            /\ process'[q].doing \in AtFile => process'[q] = process[q]
            /\ process'[q].doing \notin {"entering", "writing", "calling"}
      BY <2>0, <2>1, <2>3 DEF AtDump, AtFile, Serving
    <3> QED
      BY <2>2, <3>1 DEF EntryKnown, LateFor
  <2> QED
    BY <1>0, <2>0, <2>5, <2>6, <2>7 DEF Remembered
<1>5. ASSUME NEW s \in Schedulers, SchedulerCrash(s)
      PROVE  Remembered(o)'
  <2> SUFFICES ASSUME ~mingled' PROVE Remembered(o)'
    BY DEF Remembered
  <2>0. /\ runs' = runs /\ lastExec' = lastExec /\ ~mingled
        /\ process[s].doing # "otherWriting"
        /\ \A q \in Schedulers \ {s} : seen'[q] = seen[q]
    BY <1>5 DEF SchedulerCrash, SchedulerTypeOK
  <2>1. CASE lockFile' = "left"
    BY <1>0, <2>0, <2>1 DEF Remembered
  <2>2. CASE lockFile' # "left"
    <3>1. lockFile # "left" /\ process[s].doing \notin Serving
      BY <1>5, <2>2 DEF SchedulerCrash, LockInv
    <3>2. process'[s].doing = "sleeping"
          /\ \A q \in Schedulers \ {s} : process'[q] = process[q]
      BY <1>5, RestartFacts
    <3>3. EntryWritten(o)' => EntryWritten(o)
      BY <2>0, <3>2 DEF EntryWritten, Served, NextTime, PrevTime
    <3>4. EntryKnown(o) => EntryKnown(o)'
      <4>1. \A q \in Schedulers :
              /\ AtDump(q) <=> AtDump(q)'
              /\ process'[q].doing \in AtFile \cup {"calling"} =>
                   process'[q] = process[q] /\ seen'[q] = seen[q]
        BY <2>0, <3>1, <3>2 DEF AtDump, AtFile, Serving
      <4> QED
        BY <2>0, <4>1
        DEF EntryKnown, LateFor, AtFile, Served, NextTime, PrevTime
    <3> QED
      BY <1>0, <2>0, <3>1, <3>3, <3>4 DEF Remembered
  <2> QED
    BY <2>1, <2>2
<1>9. ASSUME NEW s \in Schedulers, LoadForOther(s)
      PROVE  Remembered(o)'
  <2> SUFFICES ASSUME ~mingled' PROVE Remembered(o)'
    BY DEF Remembered
  <2>0. /\ process[s].doing = "sleeping" /\ lastExec' = lastExec
        /\ runs' = runs /\ lockFile' = lockFile
        /\ seen' = [seen EXCEPT ![s] = Reads(lastExec)]
    BY <1>9 DEF LoadForOther
  <2>1. CASE Turn(s, "other", process[s].at) /\ LoadEntries(s)
    <3>1. "other" \in Doing
      BY DEF Doing, AtFile
    <3>2. /\ process'[s].doing = "other"
          /\ \A q \in Schedulers \ {s} : process'[q] = process[q]
      BY <2>1, <3>1, MoveFacts
    <3>3. /\ ~mingled
          /\ \A q \in Schedulers \ {s} : process[q].doing \notin AtFile
      BY <2>1 DEF LoadEntries
    <3>4. \A q \in Schedulers : ~AtDump(q)
      BY <2>0, <3>3 DEF AtDump, AtFile
    <3>6. EntryWritten(o)' => EntryWritten(o)
      BY <2>0, <3>2 DEF EntryWritten, Served, NextTime, PrevTime
    <3>7. ASSUME EntryKnown(o)
          PROVE  EntryKnown(o)'
      <4>1. LateFor(lastExec, o)
        BY <3>4, <3>7 DEF EntryKnown
      <4>2. Reads(lastExec) = lastExec
        BY <4>1 DEF LateFor, Times, Reads, NoJson
      <4>3. seen'[s] = lastExec
        BY <2>0, <4>2 DEF SchedulerTypeOK
      <4>4. \A q \in Schedulers \ {s} : process'[q].doing \notin AtFile
        BY <3>2, <3>3
      <4>5. \A q \in Schedulers : process'[q].doing = "calling" =>
              process'[q] = process[q]
        BY <3>2
      <4> QED
        BY <2>0, <3>2, <3>7, <4>1, <4>3, <4>4, <4>5
        DEF EntryKnown, LateFor, AtFile, Served, NextTime, PrevTime
    <3> QED
      BY <1>0, <2>0, <3>3, <3>6, <3>7 DEF Remembered
  <2>2. CASE UNCHANGED <<process, mingled>>
    <3>1. process'[s].doing \in {"sleeping", "due", "locked"}
          /\ process[s].doing \notin AtFile
          /\ \A q \in Schedulers \ {s} : process'[q] = process[q]
                                          /\ seen'[q] = seen[q]
      BY <2>0, <2>2, Doings
    <3> QED
      BY <2>0, <2>2, <3>1, StaysKnown
  <2> QED
    BY <1>9, <2>1, <2>2 DEF LoadForOther
<1>10. ASSUME NEW s \in Schedulers, OpenFile(s)
       PROVE  Remembered(o)'
  <2>1. /\ seen' = seen /\ runs' = runs /\ lockFile' = lockFile
        /\ mingled' = mingled /\ AtDump(s)'
        /\ process[s].doing \in AtFile
        /\ process'[s].doing \in {"entering", "writing"} =>
             process[s].doing \in {"entering", "writing"}
        /\ process'[s].doing # "calling"
    <3>1. {"writing", "otherWriting"} \subseteq Doing
      BY DEF Doing, AtFile
    <3> QED
      BY <1>10, <3>1, MoveFacts DEF OpenFile, AtDump, AtFile
  <2>2. process'[s].at = process[s].at
        /\ \A q \in Schedulers \ {s} : process'[q] = process[q]
    BY <1>10, FileStepFacts DEF EntryStep
  <2>3. EntryWritten(o)' => EntryWritten(o)
    BY <2>1, <2>2 DEF EntryWritten, Served, NextTime, PrevTime
  <2>4. EntryKnown(o) => EntryKnown(o)'
    BY <2>1, <2>2 DEF EntryKnown, LateFor, Served, NextTime, PrevTime
  <2> QED
    BY <1>0, <2>1, <2>3, <2>4 DEF Remembered
<1>11. ASSUME NEW s \in Schedulers, WriteEntries(s)
       PROVE  Remembered(o)'
  <2> SUFFICES ASSUME ~mingled' PROVE Remembered(o)'
    BY DEF Remembered
  <2>0. {"calling", "sleeping"} \subseteq Doing
    BY DEF Doing, Elsewhere
  <2>1. /\ seen' = seen /\ runs' = runs /\ lockFile' = lockFile
        /\ ~mingled /\ AtDump(s) /\ process[s].doing \in AtFile
        /\ \/ process[s].doing = "writing" /\ process'[s].doing = "calling"
           \/ process[s].doing # "writing" /\ process'[s].doing = "sleeping"
    BY <1>11, <2>0, MoveFacts DEF WriteEntries, AtFile, AtDump
  <2>2. process'[s].at = process[s].at
        /\ \A q \in Schedulers \ {s} : process'[q] = process[q]
    BY <1>11, FileStepFacts DEF EntryStep
  <2>3. lastExec' = seen[s]
        /\ \A q \in Schedulers \ {s} : process[q].doing \notin AtFile
    BY <1>0, <1>11, <2>1 DEF AloneInv, WriteEntries
  <2>4. ASSUME EntryKnown(o), ~(process'[s].doing = "calling"
                            /\ Served(process[s].at) = o)
        PROVE  EntryKnown(o)'
    <3>1. LateFor(lastExec, o)'
      BY <2>1, <2>3, <2>4 DEF EntryKnown, LateFor
    <3>2. \A q \in Schedulers : process'[q].doing \notin AtFile
      BY <2>1, <2>2, <2>3 DEF AtFile
    <3>3. \A q \in Schedulers : process'[q].doing = "calling" =>
            q = s \/ process'[q] = process[q]
      BY <2>2
    <3> QED
      BY <2>1, <2>2, <2>4, <3>1, <3>2, <3>3
      DEF EntryKnown, AtFile, Served, NextTime, PrevTime
  <2>5. CASE process'[s].doing = "calling" /\ Served(process[s].at) = o
    <3>1. process[s].doing = "writing"
      BY <2>1, <2>5
    <3>2. /\ lockFile = s /\ lockFile # "left" /\ seen[s] = process[s].at
          /\ process[s].at \in Times /\ NearTime(process[s].at)
          /\ \A q \in Schedulers \ {s} : process[q].doing \notin Serving
      BY <3>1, SchedulersAssumption
      DEF LockInv, Serving, Entrant, Elsewhere
    <3>3. ~(runs[o] > 0)
      BY <1>0, <2>1, <2>5, <3>1, <3>2 DEF Remembered, EntryWritten, EntryKnown
    <3>4. LateFor(lastExec, o)'
      BY <1>0, <2>3, <2>5, <3>2, ServedNear, Sizes DEF LateFor, Times
    <3>5. \A q \in Schedulers : process'[q].doing \notin AtFile
      BY <2>2, <2>3, <2>5 DEF AtFile
    <3>6. EntryKnown(o)'
      BY <2>1, <3>3, <3>4, <3>5 DEF EntryKnown, AtFile
    <3> QED
      BY <1>0, <2>1, <3>6 DEF Remembered
  <2>6. CASE ~(process'[s].doing = "calling" /\ Served(process[s].at) = o)
    <3>1. EntryWritten(o)' => EntryWritten(o)
      BY <2>1, <2>2, <2>6 DEF EntryWritten, Served, NextTime, PrevTime
    <3> QED
      BY <1>0, <2>1, <2>4, <2>6, <3>1 DEF Remembered
  <2> QED
    BY <2>5, <2>6
<1>6. CASE EditSchedule
  BY <1>0, <1>6
  DEF EditSchedule, Remembered, EntryWritten, EntryKnown, AtDump, LateFor
<1>7. CASE SchedulerClock
  BY <1>0, <1>7
  DEF SchedulerClock, Remembered, EntryWritten, EntryKnown, AtDump, LateFor
<1>8. CASE UNCHANGED schedulerVars
  BY <1>0, <1>8
  DEF schedulerVars, Remembered, EntryWritten, EntryKnown, AtDump, LateFor
<1> QED
  BY <1>1, <1>2, <1>3, <1>4, <1>5, <1>6, <1>7, <1>8, <1>9, <1>10, <1>11
  DEF SchedulerNext

(* When the runs of one occurrence are as far apart from those of the next *)
(* as the code wants two runs to be, an occurrence is run once, however    *)
(* many processes poll, and however they lag, crash or start again, unless *)
(* two of them were at the file of all playbooks at once, or one was       *)
(* killed while it wrote another playbook's run into it.                   *)
THEOREM SchedulerRunsOnce ==
  ASSUME Spaced
  PROVE  SchedulerSpec => []RunOnce
<1>1. SchedulerTypeOK /\ LockInv /\ OnceInv => RunOnce
  BY DEF OnceInv, Remembered, RunOnce
<1>2. SchedulerInit => SchedulerTypeOK /\ LockInv /\ OnceInv
  BY InitLock, InitOnce
<1>3. SchedulerTypeOK /\ LockInv /\ OnceInv /\ [SchedulerNext]_schedulerVars
        => (SchedulerTypeOK /\ LockInv /\ OnceInv)'
  BY NextLock, NextOnce
<1> QED
  BY <1>1, <1>2, <1>3, PTL DEF SchedulerSpec

-----------------------------------------------------------------------------
(* The clock and the polls go by Ticks, and what is left of a period when  *)
(* its seven tenths have passed is enough for a poll that comes late.      *)
Timely ==
  /\ CheckInterval % Tick = 0
  /\ 10 * (CheckInterval + 2 * Tick) <= 3 * Period

(* What the hypothesis says of the lengths of time.                        *)
LEMMA TimelySizes ==
  ASSUME Timely
  PROVE  /\ Multiple(CheckInterval, Tick) /\ Tick <= CheckInterval
         /\ 2 * Tick <= ExecutionWindow
         /\ CheckInterval + ExecutionWindow + Tick < Period
         /\ CheckInterval + 2 * Tick + 30 <= Period
<1>1. Multiple(CheckInterval, Tick)
  BY Sizes, RemainderMultiple DEF Timely
<1>2. Tick <= CheckInterval
  <2>1. Multiple(0, Tick)
    <3>1. 0 = Tick * 0 BY Sizes
    <3> QED BY <3>1 DEF Multiple
  <2>2. 0 + Tick <= CheckInterval
    BY <1>1, <2>1, MultiplesApart, Sizes
  <2> QED
    BY <2>2, Sizes
<1>3. 10 * CheckInterval + 20 * Tick <= 3 * Period
  BY Sizes DEF Timely
<1>4. ExecutionWindow <= 2 * CheckInterval
        \/ 2 * ExecutionWindow <= Period
  BY Sizes DEF ExecutionWindow, LongerOf
<1>5. CheckInterval + ExecutionWindow + Tick < Period
  BY <1>3, <1>4, Sizes
<1>6. CheckInterval + 2 * Tick + 30 <= Period
  BY <1>3, Sizes
<1>7. 2 * Tick <= ExecutionWindow
  BY <1>2, Sizes
<1> QED
  BY <1>1, <1>2, <1>5, <1>6, <1>7

(* A poll is ripe for an occurrence when it is within its reach, and long  *)
(* since the last run of the one before.  A process that sleeps at a time  *)
(* that is not ripe, and lags, still polls again in the occurrence's time. *)
Ripe(t, o) ==
  /\ t >= o - CheckInterval
  /\ t - (o - Period + ExecutionWindow) >= 30
  /\ 10 * (t - (o - Period + ExecutionWindow)) >= 7 * Period

(* From a poll too early for an occurrence the next comes within its       *)
(* window.                                                                 *)
LEMMA UnripePollsAgain ==
  ASSUME Timely, NEW t \in Nat, NEW o \in Int, ~Ripe(t, o)
  PROVE  t + CheckInterval + 2 * Tick <= o + ExecutionWindow
<1>1. CASE t < o - CheckInterval
  BY <1>1, TimelySizes, Sizes
<1>2. CASE t - (o - Period + ExecutionWindow) < 30
  BY <1>2, TimelySizes, Sizes
<1>3. CASE 10 * (t - (o - Period + ExecutionWindow)) < 7 * Period
  BY <1>3, Sizes DEF Timely
<1> QED
  BY <1>1, <1>2, <1>3, Sizes DEF Ripe

(* A run near one occurrence is out of the reach of every other.           *)
LEMMA RunsElsewhere ==
  ASSUME Timely, NEW t \in Nat, NearTime(t),
         NEW o \in Int, Multiple(o, Period),
         Served(t) # o, t <= o + ExecutionWindow + Tick
  PROVE  t <= o - Period + ExecutionWindow
<1> DEFINE v == Served(t)
<1>1. /\ v \in Int /\ Multiple(v, Period)
      /\ v - CheckInterval <= t /\ t <= v + ExecutionWindow
  BY ServedNear
<1>2. v # o
  OBVIOUS
<1> HIDE DEF v
<1>3. o < v => o + Period <= v
  BY <1>1, MultiplesApart, Sizes
<1>4. v < o => v + Period <= o
  BY <1>1, MultiplesApart, Sizes
<1> QED
  BY <1>1, <1>2, <1>3, <1>4, TimelySizes, Sizes

(* A time ripe for an occurrence and within its window serves it.          *)
LEMMA RipeServes ==
  ASSUME Timely, NEW t \in Nat, NEW o \in Int, Multiple(o, Period),
         Ripe(t, o), t <= o + ExecutionWindow
  PROVE  IsNear(t) /\ Served(t) = o
<1>1. CheckInterval + ExecutionWindow < Period
  BY TimelySizes, Sizes
<1>2. o - CheckInterval <= t
  BY DEF Ripe
<1> QED
  BY <1>1, <1>2, NearServed

(* The clock, the polls and the processes go by Ticks; a process that does *)
(* not sleep is late by at most one.                                       *)
Punctual(s) ==
  /\ Multiple(process[s].at, Tick)
  /\ now <= process[s].at + Tick
  /\ process[s].doing \in Elsewhere => process[s].at <= now + CheckInterval
  /\ process[s].doing \notin Elsewhere => process[s].at <= now
AllPunctual == Multiple(now, Tick) /\ \A s \in Schedulers : Punctual(s)

(* An occurrence is entered when it has been run, or is about to be.       *)
Entered(o) ==
  \/ runs[o] > 0
  \/ \E s \in Schedulers :
       process[s].doing \in Entrant /\ Served(process[s].at) = o

(* What the file, the copies of it and the lock file tell of the           *)
(* processes: a time that is remembered is that of an occurrence that was  *)
(* entered.                                                                *)
Recalled(t) == t \in Times => NearTime(t) /\ t <= now
Stands(t) ==
  \A o \in Occurrences : t \in Times /\ Served(t) = o => Entered(o)
FileInv ==
  /\ Recalled(lastExec) /\ \A s \in Schedulers : Recalled(seen[s])
  /\ lockFile \in Schedulers => process[lockFile].doing \in Serving
EnteredInv ==
  lockFile # "left" =>
    Stands(lastExec) /\ \A s \in Schedulers : Stands(seen[s])

(* The schedulers start in time.                                           *)
LEMMA InitPunctual ==
  ASSUME Timely
  PROVE  SchedulerInit => AllPunctual
<1> SUFFICES ASSUME SchedulerInit PROVE AllPunctual
  OBVIOUS
<1>1. Multiple(0, Tick)
  <2>1. 0 = Tick * 0 BY Sizes
  <2> QED BY <2>1 DEF Multiple
<1>2. ASSUME NEW s \in Schedulers PROVE Punctual(s)
  <2>1. /\ process[s].doing = "sleeping"
        /\ process[s].at \in 0..CheckInterval /\ process[s].at % Tick = 0
    BY DEF SchedulerInit
  <2>2. process[s].at \in Nat
    BY <2>1, Sizes
  <2>3. Multiple(process[s].at, Tick)
    BY <2>1, <2>2, RemainderMultiple, Sizes
  <2> QED
    BY <2>1, <2>2, <2>3, Sizes, Doings DEF Punctual, SchedulerInit
<1> QED
  BY <1>1, <1>2 DEF AllPunctual, SchedulerInit

(* Every step keeps the schedulers in time.                                *)
LEMMA NextPunctual ==
  ASSUME Timely
  PROVE  SchedulerTypeOK /\ AllPunctual /\ [SchedulerNext]_schedulerVars
           => AllPunctual'
<1> SUFFICES ASSUME SchedulerTypeOK, AllPunctual,
                    [SchedulerNext]_schedulerVars
             PROVE  AllPunctual'
  OBVIOUS
<1>0. /\ now \in Nat /\ Multiple(now, Tick)
      /\ \A s \in Schedulers : Punctual(s) /\ process[s].at \in Nat
  BY Sizes DEF SchedulerTypeOK, Times, Process, AllPunctual
<1>a. Multiple(now + CheckInterval, Tick)
  BY <1>0, TimelySizes, MultiplesAdd, Sizes
<1>b. ASSUME NEW s \in Schedulers, Sleep(s), now' = now
      PROVE  AllPunctual'
  <2>1. Punctual(s)'
    BY <1>0, <1>a, <1>b, SleepFacts, Sizes, Doings DEF Punctual
  <2>2. \A q \in Schedulers \ {s} : Punctual(q)'
    BY <1>0, <1>b, SleepFacts DEF Punctual
  <2> QED
    BY <1>0, <1>b, <2>1, <2>2 DEF AllPunctual
<1>c. ASSUME NEW s \in Schedulers, process'[s].at = process[s].at,
             process'[s].doing \in Elsewhere <=> process[s].doing \in Elsewhere,
             \A q \in Schedulers \ {s} : process'[q] = process[q], now' = now
      PROVE  AllPunctual'
  <2>1. Punctual(s)'
    BY <1>0, <1>c DEF Punctual
  <2>2. \A q \in Schedulers \ {s} : Punctual(q)'
    BY <1>0, <1>c DEF Punctual
  <2> QED
    BY <1>0, <1>c, <2>1, <2>2 DEF AllPunctual
<1>1. ASSUME NEW s \in Schedulers, Poll(s)
      PROVE  AllPunctual'
  <2>1. CASE Turn(s, "due", now)
    <3>0. now' = now
      BY <1>1 DEF Poll
    <3>1. Punctual(s)'
      BY <1>0, <2>1, <3>0, DueFacts, Sizes, Doings DEF Punctual
    <3>2. \A q \in Schedulers \ {s} : Punctual(q)'
      BY <1>0, <2>1, <3>0, DueFacts DEF Punctual
    <3> QED
      BY <1>0, <3>0, <3>1, <3>2 DEF AllPunctual
  <2> QED
    BY <1>1, <1>b, <2>1 DEF Poll
<1>2. ASSUME NEW s \in Schedulers, TakeLock(s)
      PROVE  AllPunctual'
  <2>1. CASE Turn(s, "locked", process[s].at)
    <3>1. /\ process'[s].at = process[s].at
          /\ process'[s].doing = "locked" /\ process[s].doing = "due"
          /\ \A q \in Schedulers \ {s} : process'[q] = process[q]
          /\ now' = now
      BY <1>2, <2>1, MoveFacts, Doings DEF TakeLock
    <3> QED
      BY <1>c, <3>1 DEF Elsewhere
  <2> QED
    BY <1>2, <1>b, <2>1 DEF TakeLock
<1>3. ASSUME NEW s \in Schedulers, EnterRun(s)
      PROVE  AllPunctual'
  <2>1. CASE Turn(s, "entering", process[s].at)
    <3>1. /\ process'[s].at = process[s].at
          /\ process'[s].doing = "entering" /\ process[s].doing = "locked"
          /\ \A q \in Schedulers \ {s} : process'[q] = process[q]
          /\ now' = now
      BY <1>3, <2>1, MoveFacts DEF EnterRun, Doing, AtFile
    <3> QED
      BY <1>c, <3>1 DEF Elsewhere
  <2> QED
    BY <1>3, <1>b, <2>1 DEF EnterRun
<1>9. ASSUME NEW s \in Schedulers, EntryStep(s)
      PROVE  AllPunctual'
  BY <1>9, <1>c, FileStepFacts
<1>4. ASSUME NEW s \in Schedulers, CallApi(s)
      PROVE  AllPunctual'
  BY <1>4, <1>b DEF CallApi
<1>5. ASSUME NEW s \in Schedulers, SchedulerCrash(s)
      PROVE  AllPunctual'
  <2>0. now' = now
    BY <1>5 DEF SchedulerCrash
  <2>1. Punctual(s)'
    BY <1>0, <1>5, <2>0, RestartFacts, Sizes, Doings DEF Punctual
  <2>2. \A q \in Schedulers \ {s} : Punctual(q)'
    BY <1>0, <1>5, <2>0, RestartFacts DEF Punctual
  <2> QED
    BY <1>0, <2>0, <2>1, <2>2 DEF AllPunctual
<1>6. CASE EditSchedule
  BY <1>0, <1>6 DEF EditSchedule, AllPunctual, Punctual
<1>7. CASE SchedulerClock
  <2>1. /\ now' = now + Tick /\ process' = process
        /\ \A s \in Schedulers : now < process[s].at + Tick
    BY <1>7 DEF SchedulerClock
  <2>2. Multiple(Tick, Tick)
    <3>1. Tick = Tick * 1 BY Sizes
    <3> QED BY <3>1 DEF Multiple
  <2>3. Multiple(now', Tick)
    BY <1>0, <2>1, <2>2, MultiplesAdd, Sizes
  <2>4. ASSUME NEW s \in Schedulers PROVE Punctual(s)'
    <3> DEFINE at == process[s].at
    <3>1. at \in Nat /\ Multiple(at, Tick) /\ now < at + Tick
      BY <1>0, <2>1 DEF Punctual
    <3>2. now <= at
      <4> HIDE DEF at
      <4>1. at < now => at + Tick <= now
        BY <1>0, <3>1, MultiplesApart, Sizes
      <4> QED
        BY <1>0, <3>1, <4>1, Sizes
    <3> QED
      BY <1>0, <2>1, <3>1, <3>2, Sizes DEF Punctual
  <2> QED
    BY <2>3, <2>4 DEF AllPunctual
<1>8. CASE UNCHANGED schedulerVars
  BY <1>0, <1>8 DEF schedulerVars, AllPunctual, Punctual
<1> QED
  BY <1>1, <1>2, <1>3, <1>4, <1>5, <1>6, <1>7, <1>8, <1>9
  DEF SchedulerNext, EntryStep

(* The file at the start.                                                  *)
LEMMA InitFile == SchedulerInit => FileInv /\ EnteredInv
<1> SUFFICES ASSUME SchedulerInit PROVE FileInv /\ EnteredInv
  OBVIOUS
<1>1. /\ lastExec \notin Times /\ \A s \in Schedulers : seen[s] \notin Times
      /\ lockFile \notin Schedulers
  BY SchedulersAssumption DEF SchedulerInit, Never, Times
<1> QED
  BY <1>1 DEF FileInv, EnteredInv, Recalled, Stands

(* What a step writes into the file or into a copy was in one of them, or  *)
(* is the time a process enters.                                           *)
LEMMA NothingInvented ==
  ASSUME SchedulerTypeOK, LockInv, SchedulerNext
  PROVE  /\ \/ lastExec' \in {lastExec, NoJson}
            \/ \E s \in Schedulers : lastExec' = seen[s]
         /\ \A s \in Schedulers :
              \/ seen'[s] \in {seen[s], lastExec, Never}
              \/ EnterRun(s) /\ seen'[s] = process[s].at
                   /\ process'[s].doing \in Entrant
                   /\ process'[s].at = process[s].at
<1> USE DEF scheduleFiles, schedule
<1>0. seen \in [Schedulers -> Times \cup {Never}]
  BY DEF SchedulerTypeOK
<1>1. \/ lastExec' \in {lastExec, NoJson}
      \/ \E s \in Schedulers : lastExec' = seen[s]
  BY DEF SchedulerNext, Poll, TakeLock, EnterRun, LoadForOther, OpenFile,
         WriteEntries, CallApi, SchedulerCrash, EditSchedule, SchedulerClock
<1>2. Reads(lastExec) \in {lastExec, Never}
  BY DEF Reads
<1>3. ASSUME NEW s \in Schedulers, EnterRun(s), NEW q \in Schedulers
      PROVE  \/ seen'[q] \in {seen[q], lastExec, Never}
             \/ EnterRun(q) /\ seen'[q] = process[q].at
                  /\ process'[q].doing \in Entrant
                  /\ process'[q].at = process[q].at
  <2>1. CASE /\ seen' = [seen EXCEPT ![s] = process[s].at]
             /\ Turn(s, "entering", process[s].at)
    <3>1. "entering" \in Doing
      BY DEF Doing, AtFile
    <3>2. process'[s].doing \in Entrant /\ process'[s].at = process[s].at
      BY <2>1, <3>1, MoveFacts DEF Entrant
    <3> QED
      BY <1>0, <1>3, <2>1, <3>2
  <2>2. CASE seen' = [seen EXCEPT ![s] = Reads(lastExec)]
    BY <1>0, <1>2, <2>2
  <2> QED
    BY <1>3, <2>1, <2>2 DEF EnterRun
<1>4. ASSUME NEW s \in Schedulers,
             LoadForOther(s) \/ SchedulerCrash(s), NEW q \in Schedulers
      PROVE  seen'[q] \in {seen[q], lastExec, Never}
  BY <1>0, <1>2, <1>4 DEF LoadForOther, SchedulerCrash
<1>5. ASSUME NEW s \in Schedulers,
             Poll(s) \/ TakeLock(s) \/ OpenFile(s) \/ WriteEntries(s)
               \/ CallApi(s)
      PROVE  seen' = seen
  BY <1>5 DEF Poll, TakeLock, OpenFile, WriteEntries, CallApi
<1>6. EditSchedule \/ SchedulerClock => seen' = seen
  BY DEF EditSchedule, SchedulerClock
<1> QED
  BY <1>1, <1>3, <1>4, <1>5, <1>6 DEF SchedulerNext

(* A step moves the lock and the processes together.                       *)
LEMMA HolderServes ==
  ASSUME SchedulerTypeOK, LockInv, FileInv, SchedulerNext,
         lockFile' \in Schedulers
  PROVE  process'[lockFile'].doing \in Serving
<1> USE DEF scheduleFiles, schedule
<1>1. ASSUME NEW s \in Schedulers, Poll(s)
      PROVE  process'[lockFile'].doing \in Serving
  <2>1. \A q \in Schedulers : process[q].doing \in Serving =>
          process'[q] = process[q]
    BY <1>1, SleepFacts, DueFacts, Doings DEF Poll
  <2> QED
    BY <1>1, <2>1 DEF Poll, FileInv
<1>2. ASSUME NEW s \in Schedulers, TakeLock(s)
      PROVE  process'[lockFile'].doing \in Serving
  <2>1. CASE lockFile' = s /\ Turn(s, "locked", process[s].at)
    BY <1>2, <2>1, MoveFacts, Doings
  <2>2. CASE Sleep(s) /\ lockFile' = lockFile
    BY <1>2, <2>2, SleepFacts, Doings DEF TakeLock, FileInv
  <2> QED
    BY <1>2, <2>1, <2>2 DEF TakeLock
<1>3. ASSUME NEW s \in Schedulers, EnterRun(s)
      PROVE  process'[lockFile'].doing \in Serving
  <2>1. lockFile = s
    BY <1>3, Doings DEF EnterRun, LockInv
  <2>2. Turn(s, "entering", process[s].at) /\ lockFile' = s
    BY <1>3, <2>1, SchedulersAssumption DEF EnterRun
  <2>3. "entering" \in Doing /\ "entering" \in Serving
    BY DEF Doing, AtFile, Serving
  <2> QED
    BY <2>2, <2>3, MoveFacts
<1>4. ASSUME NEW s \in Schedulers, CallApi(s)
      PROVE  FALSE
  BY <1>4, SchedulersAssumption DEF CallApi
<1>5. ASSUME NEW s \in Schedulers, SchedulerCrash(s)
      PROVE  process'[lockFile'].doing \in Serving
  <2>1. lockFile' = lockFile /\ lockFile # s
    BY <1>5, SchedulersAssumption DEF SchedulerCrash
  <2> QED
    BY <1>5, <2>1, RestartFacts DEF FileInv
<1>9. ASSUME NEW s \in Schedulers, EntryStep(s)
      PROVE  process'[lockFile'].doing \in Serving
  <2>1. lockFile' = lockFile
        /\ \A q \in Schedulers :
             process[q].doing \in Serving => process'[q].doing \in Serving
    BY <1>9, FileStepFacts
  <2> QED
    BY <2>1 DEF FileInv
<1>6. EditSchedule \/ SchedulerClock => process' = process
                                          /\ lockFile' = lockFile
  BY DEF EditSchedule, SchedulerClock
<1> QED
  BY <1>1, <1>2, <1>3, <1>4, <1>5, <1>6, <1>9
  DEF SchedulerNext, EntryStep, FileInv

(* Every step keeps the file behind the clock.                             *)
LEMMA NextFile ==
  ASSUME Timely
  PROVE  SchedulerTypeOK /\ LockInv /\ AllPunctual /\ FileInv
           /\ [SchedulerNext]_schedulerVars => FileInv'
<1> SUFFICES ASSUME SchedulerTypeOK, LockInv, AllPunctual, FileInv,
                    [SchedulerNext]_schedulerVars
             PROVE  FileInv'
  OBVIOUS
<1>0. now \in Nat
  BY DEF SchedulerTypeOK, Times
<1>1. CASE UNCHANGED schedulerVars
  BY <1>1
  DEF schedulerVars, FileInv, Recalled, NearTime, IsNear, Urgent, NextTime,
      PrevTime, ExecutionWindow
<1>2. CASE SchedulerNext
  <2>1. now' \in Nat /\ now <= now'
    BY <1>0, <1>2, Sizes, FileStepFacts
    DEF SchedulerNext, Poll, TakeLock, EnterRun, EntryStep, CallApi,
        SchedulerCrash, EditSchedule, SchedulerClock
  <2>2. ASSUME NEW t, Recalled(t), NEW u, u = t
        PROVE  u \in Times => NearTime(u) /\ u <= now'
    BY <1>0, <2>1, <2>2 DEF Recalled, Times
  <2>3. Never \notin Times /\ NoJson \notin Times
    BY DEF Never, NoJson, Times
  <2>4. lastExec' \in Times => NearTime(lastExec') /\ lastExec' <= now'
    BY <1>2, <2>2, <2>3, NothingInvented DEF FileInv
  <2>5. ASSUME NEW s \in Schedulers
        PROVE  seen'[s] \in Times => NearTime(seen'[s]) /\ seen'[s] <= now'
    <3>1. CASE seen'[s] \in {seen[s], lastExec, Never}
      BY <2>2, <2>3, <3>1 DEF FileInv
    <3>2. CASE EnterRun(s) /\ seen'[s] = process[s].at
      <4>1. NearTime(process[s].at) /\ process[s].at <= now
        BY <3>2 DEF EnterRun, LockInv, AllPunctual, Punctual, Elsewhere
      <4>2. Recalled(process[s].at)
        BY <4>1 DEF Recalled
      <4> QED
        BY <2>2, <3>2, <4>2
    <3> QED
      BY <1>2, <3>1, <3>2, NothingInvented
  <2> QED
    BY <1>2, <2>4, <2>5, HolderServes
    DEF FileInv, Recalled, NearTime, IsNear, Urgent, NextTime, PrevTime,
        ExecutionWindow
<1> QED
  BY <1>1, <1>2

(* An occurrence that was entered stays so, unless a crash leaves the lock.*)
LEMMA EnteredStays ==
  ASSUME SchedulerTypeOK, LockInv, SchedulerNext, NEW o \in Occurrences,
         Entered(o), lockFile' # "left"
  PROVE  Entered(o)'
<1>0. runs[o] \in Nat
  BY DEF SchedulerTypeOK
<1> USE DEF scheduleFiles, schedule
<1>1. ASSUME NEW s \in Schedulers, Poll(s)
      PROVE  Entered(o)'
  <2>1. \A q \in Schedulers :
          process[q].doing \in Entrant => process'[q] = process[q]
    BY <1>1, SleepFacts, DueFacts, Doings DEF Poll
  <2> QED
    BY <1>1, <2>1 DEF Poll, Entered
<1>2. ASSUME NEW s \in Schedulers, TakeLock(s)
      PROVE  Entered(o)'
  <2>1. process[s].doing \notin Entrant
        /\ \A q \in Schedulers \ {s} : process'[q] = process[q]
    BY <1>2, SleepFacts, MoveFacts, Doings DEF TakeLock
  <2> QED
    BY <1>2, <2>1 DEF TakeLock, Entered
<1>3. ASSUME NEW s \in Schedulers, EnterRun(s)
      PROVE  Entered(o)'
  <2>1. "entering" \in Doing
    BY DEF Doing, AtFile
  <2>2. process[s].doing \notin Entrant
        /\ \A q \in Schedulers \ {s} : process'[q] = process[q]
    BY <1>3, <2>1, SleepFacts, MoveFacts, Doings DEF EnterRun
  <2> QED
    BY <1>3, <2>2 DEF EnterRun, Entered
<1>4. ASSUME NEW s \in Schedulers, CallApi(s)
      PROVE  Entered(o)'
  <2>1. /\ process[s].doing = "calling" /\ Sleep(s)
        /\ \A q \in Schedulers \ {s} : process[q].doing \notin Entrant
    BY <1>4, Doings DEF CallApi, LockInv, Serving
  <2>2. runs'[o] = IF o = Served(process[s].at) THEN runs[o] + 1 ELSE runs[o]
    BY <1>4 DEF CallApi
  <2>3. runs[o] > 0 \/ o = Served(process[s].at)
    BY <2>1 DEF Entered
  <2>4. runs'[o] > 0
    BY <1>0, <2>2, <2>3
  <2> QED
    BY <2>4 DEF Entered
<1>5. ASSUME NEW s \in Schedulers, SchedulerCrash(s)
      PROVE  Entered(o)'
  <2>1. process[s].doing \notin Entrant /\ runs' = runs
    BY <1>5, Doings DEF SchedulerCrash, LockInv
  <2> QED
    BY <1>5, <2>1, RestartFacts DEF Entered
<1>9. ASSUME NEW s \in Schedulers, EntryStep(s)
      PROVE  Entered(o)'
  <2>1. runs' = runs
        /\ \A q \in Schedulers :
             /\ process[q].doing \in Entrant => process'[q].doing \in Entrant
             /\ process'[q].at = process[q].at
    BY <1>9, FileStepFacts
  <2> QED
    BY <2>1 DEF Entered, Served, NextTime, PrevTime
<1>6. CASE EditSchedule
  BY <1>6 DEF EditSchedule, Entered
<1>7. CASE SchedulerClock
  BY <1>7 DEF SchedulerClock, Entered
<1> QED
  BY <1>1, <1>2, <1>3, <1>4, <1>5, <1>6, <1>7, <1>9
  DEF SchedulerNext, EntryStep

(* A lock file that a crash has left stays.                                *)
LEMMA LeftStays ==
  ASSUME LockInv, SchedulerNext, lockFile' # "left"
  PROVE  lockFile # "left"
<1> USE DEF scheduleFiles
<1>1. \A s \in Schedulers : process[s].doing \in Serving => lockFile # "left"
  BY SchedulersAssumption DEF LockInv
<1> QED
  BY <1>1
  DEF SchedulerNext, Poll, TakeLock, EnterRun, LoadForOther, OpenFile,
      WriteEntries, CallApi, SchedulerCrash, EditSchedule, SchedulerClock,
      Serving

(* Every step keeps what the file says of an occurrence.                   *)
LEMMA NextEntered ==
  SchedulerTypeOK /\ LockInv /\ EnteredInv /\ [SchedulerNext]_schedulerVars
    => EnteredInv'
<1> SUFFICES ASSUME SchedulerTypeOK, LockInv, EnteredInv,
                    [SchedulerNext]_schedulerVars, lockFile' # "left"
             PROVE  Stands(lastExec)'
                    /\ \A s \in Schedulers : Stands(seen[s])'
  BY DEF EnteredInv, Stands, Served, NextTime, PrevTime
<1>1. CASE UNCHANGED schedulerVars
  BY <1>1
  DEF schedulerVars, EnteredInv, Stands, Entered, Served, NextTime, PrevTime
<1>2. CASE SchedulerNext
  <2>1. Stands(lastExec) /\ \A s \in Schedulers : Stands(seen[s])
    BY <1>2, LeftStays DEF EnteredInv
  <2>2. ASSUME NEW t, Stands(t), NEW o \in Occurrences,
               t \in Times, Served(t) = o
        PROVE  Entered(o)'
    BY <1>2, <2>2, EnteredStays DEF Stands
  <2>3. Never \notin Times /\ NoJson \notin Times
    BY DEF Never, NoJson, Times
  <2>4. ASSUME NEW o \in Occurrences, lastExec' \in Times,
               Served(lastExec') = o
        PROVE  Entered(o)'
    <3>1. \/ lastExec' = lastExec
          \/ \E s \in Schedulers : lastExec' = seen[s]
      BY <1>2, <2>3, <2>4, NothingInvented
    <3> QED
      BY <2>1, <2>2, <2>4, <3>1
  <2>5. ASSUME NEW s \in Schedulers, NEW o \in Occurrences,
               seen'[s] \in Times, Served(seen'[s]) = o
        PROVE  Entered(o)'
    <3>1. CASE seen'[s] \in {seen[s], lastExec, Never}
      BY <2>1, <2>2, <2>3, <2>5, <3>1
    <3>2. CASE /\ process'[s].doing \in Entrant
               /\ process'[s].at = seen'[s]
      <4>1. Served(process'[s].at) = o
        BY <2>5, <3>2
      <4> QED
        BY <3>2, <4>1 DEF Entered, Served, NextTime, PrevTime
    <3> QED
      BY <1>2, <3>1, <3>2, NothingInvented
  <2> QED
    BY <2>4, <2>5 DEF Stands, Served, NextTime, PrevTime
<1> QED
  BY <1>1, <1>2

-----------------------------------------------------------------------------
(* What the property of missed occurrences does not count out.             *)
Counted(o) ==
  /\ enabled /\ editedAt <= o - CheckInterval /\ lockFile # "left"
  /\ \A s \in Schedulers :
       process[s].started + StartupGracePeriod <= o - CheckInterval

(* A process is in time for an occurrence when it polls in its time, even  *)
(* late, or has done so.  One that is in time and holds the lock at a ripe *)
(* time will enter the occurrence.                                         *)
InTime(s, o) ==
  /\ process[s].doing \in Elsewhere =>
       process[s].at + Tick <= o + ExecutionWindow
  /\ process[s].doing \notin Elsewhere =>
       process[s].at <= o + ExecutionWindow
Entering(s, o) ==
  /\ process[s].doing = "locked"
  /\ Ripe(process[s].at, o) /\ process[s].at <= o + ExecutionWindow
Progress(o) ==
  Counted(o) =>
    \/ Entered(o)
    \/ \E s \in Schedulers : Entering(s, o)
    \/ \A s \in Schedulers : InTime(s, o)
ProgressInv == \A o \in Occurrences : Progress(o)

ScheduleInv ==
  /\ SchedulerTypeOK /\ LockInv /\ AllPunctual /\ FileInv /\ EnteredInv

(* A run of another occurrence does not stand in the way of one that is    *)
(* ripe: it is earlier by most of a period.                                *)
LEMMA RipeIsLongSince ==
  ASSUME Timely, ScheduleInv, NEW o \in Occurrences, ~Entered(o),
         NEW t \in Nat, Ripe(t, o), now <= t + Tick,
         t <= o + ExecutionWindow,
         NEW run \in Times \cup {Never}, Recalled(run), Stands(run)
  PROVE  LongSince(run, t) /\ t - run >= 5
<1>0. o \in Int /\ Multiple(o, Period) /\ now \in Nat
  BY OccurrenceTypes DEF ScheduleInv, SchedulerTypeOK, Times
<1>1. CASE run = Never
  BY <1>1 DEF LongSince, Never
<1>2. CASE run \in Times
  <2>1. run \in Nat /\ run <= now /\ NearTime(run) /\ Served(run) # o
    BY <1>2 DEF Recalled, Stands, Times
  <2>2. run <= o + ExecutionWindow + Tick
    BY <1>0, <2>1, Sizes
  <2>3. run <= o - Period + ExecutionWindow
    BY <1>0, <2>1, <2>2, RunsElsewhere
  <2>4. t - run >= 30 /\ 10 * (t - run) >= 7 * Period
    BY <1>0, <2>1, <2>3, Sizes DEF Ripe
  <2> QED
    BY <1>0, <2>1, <2>4 DEF LongSince
<1> QED
  BY <1>1, <1>2

(* Long before an occurrence every process is in time.                     *)
LEMMA EarlyInTime ==
  ASSUME Timely, SchedulerTypeOK', AllPunctual', NEW o \in Occurrences,
         now' <= o - CheckInterval
  PROVE  \A s \in Schedulers : InTime(s, o)'
<1> SUFFICES ASSUME NEW s \in Schedulers PROVE InTime(s, o)'
  OBVIOUS
<1>1. o \in Int /\ now' \in Nat /\ process'[s].at \in Nat /\ Punctual(s)'
  BY OccurrenceTypes, Sizes
  DEF AllPunctual, SchedulerTypeOK, Process, Times
<1> QED
  BY <1>1, TimelySizes, Sizes DEF InTime, Punctual

(* A process that goes to sleep at a time that is not ripe, or that is     *)
(* before the last run but one's reach, will be in time.                   *)
LEMMA SleepsInTime ==
  ASSUME Timely, SchedulerTypeOK, AllPunctual, NEW o \in Occurrences,
         NEW s \in Schedulers, Sleep(s), NEW t \in Nat, now <= t + Tick,
         ~Ripe(t, o),
         \A q \in Schedulers : InTime(q, o)
  PROVE  \A q \in Schedulers : InTime(q, o)'
<1>1. o \in Int /\ now \in Nat
  BY OccurrenceTypes DEF SchedulerTypeOK, Times
<1>2. t + CheckInterval + 2 * Tick <= o + ExecutionWindow
  BY <1>1, UnripePollsAgain
<1>3. now + CheckInterval + Tick <= o + ExecutionWindow
  BY <1>1, <1>2, Sizes
<1>4. InTime(s, o)'
  BY <1>3, SleepFacts, Doings DEF InTime, ExecutionWindow
<1>5. \A q \in Schedulers \ {s} : InTime(q, o)'
  BY SleepFacts DEF InTime, ExecutionWindow
<1> QED
  BY <1>4, <1>5

(* Who serves another occurrence does so at a time that is not ripe.       *)
LEMMA ServingIsUnripe ==
  ASSUME Timely, ScheduleInv, NEW o \in Occurrences, ~Entered(o),
         NEW s \in Schedulers, process[s].doing \in Entrant, InTime(s, o)
  PROVE  ~Ripe(process[s].at, o)
<1> DEFINE t == process[s].at
<1>1. /\ t \in Nat /\ NearTime(t) /\ Served(t) # o
      /\ t <= o + ExecutionWindow
      /\ o \in Int /\ Multiple(o, Period)
  BY OccurrenceTypes
  DEF ScheduleInv, LockInv, Times, Entered, InTime, Entrant, Elsewhere
<1> HIDE DEF t
<1>2. t <= o + ExecutionWindow + Tick
  BY <1>1, Sizes
<1>3. t <= o - Period + ExecutionWindow
  BY <1>1, <1>2, RunsElsewhere
<1>4. ~Ripe(t, o)
  BY <1>1, <1>3, Sizes DEF Ripe
<1> QED
  BY <1>4 DEF t

(* A step of one scheduler leaves the others, and its own start, as they   *)
(* are.                                                                    *)
LEMMA OthersStay ==
  ASSUME SchedulerTypeOK, NEW s \in Schedulers,
         Poll(s) \/ TakeLock(s) \/ EnterRun(s) \/ EntryStep(s) \/ CallApi(s)
  PROVE  /\ process'[s].started = process[s].started
         /\ \A q \in Schedulers \ {s} : process'[q] = process[q]
<1>1. CASE Sleep(s)
  BY <1>1, SleepFacts
<1>2. CASE Turn(s, "due", now)
  BY <1>2, DueFacts
<1>3. ASSUME NEW doing \in {"locked", "entering"},
             Turn(s, doing, process[s].at)
      PROVE  /\ process'[s].started = process[s].started
             /\ \A q \in Schedulers \ {s} : process'[q] = process[q]
  <2>1. doing \in Doing
    BY DEF Doing, AtFile
  <2> QED
    BY <1>3, <2>1, MoveFacts
<1> QED
  BY <1>1, <1>2, <1>3, FileStepFacts DEF Poll, TakeLock, EnterRun, CallApi

(* No occurrence has passed at the start.                                  *)
LEMMA InitProgress ==
  ASSUME Timely
  PROVE  SchedulerInit => ProgressInv
<1> SUFFICES ASSUME SchedulerInit, NEW o \in Occurrences, Counted(o),
                    NEW s \in Schedulers
             PROVE  InTime(s, o)
  BY DEF ProgressInv, Progress
<1>1. process[s].doing = "sleeping" /\ process[s].started = 0
      /\ process[s].at \in 0..CheckInterval
  BY DEF SchedulerInit
<1>2. o \in Int /\ 60 <= o - CheckInterval
  BY <1>1, OccurrenceTypes DEF Counted, StartupGracePeriod
<1> QED
  BY <1>1, <1>2, TimelySizes, Sizes, Doings DEF InTime

(* Every step keeps each occurrence served, or on its way to be.           *)
LEMMA NextProgress ==
  ASSUME Timely
  PROVE  ScheduleInv /\ ScheduleInv' /\ ProgressInv
           /\ [SchedulerNext]_schedulerVars => ProgressInv'
<1> SUFFICES ASSUME ScheduleInv, ScheduleInv', ProgressInv,
                    [SchedulerNext]_schedulerVars,
                    NEW o \in Occurrences, Counted(o)'
             PROVE  \/ Entered(o)'
                    \/ \E s \in Schedulers : Entering(s, o)'
                    \/ \A s \in Schedulers : InTime(s, o)'
  BY DEF ProgressInv, Progress
<1>0. /\ SchedulerTypeOK /\ LockInv /\ AllPunctual /\ FileInv
      /\ o \in Int /\ now \in Nat /\ now' \in Nat /\ Progress(o)
      /\ \A s \in Schedulers : process[s].at \in Nat
  BY OccurrenceTypes, Sizes
  DEF ScheduleInv, SchedulerTypeOK, Times, ProgressInv, Process
<1>1. CASE now' <= o - CheckInterval
  <2>1. \A s \in Schedulers : InTime(s, o)'
    BY <1>0, <1>1, EarlyInTime DEF ScheduleInv
  <2> QED
    BY <2>1
<1>2. CASE UNCHANGED schedulerVars
  BY <1>0, <1>2 DEF schedulerVars, Progress, Counted, Entered, Entering,
                    InTime, ExecutionWindow
<1>3. CASE SchedulerNext /\ now' > o - CheckInterval
  <2> USE DEF scheduleFiles, schedule
  <2>1. ~EditSchedule
    <3>1. editedAt' <= o - CheckInterval
      BY DEF Counted
    <3> QED
      BY <1>0, <1>3, <3>1, Sizes DEF EditSchedule
  <2>2. ASSUME NEW s \in Schedulers, SchedulerCrash(s)
        PROVE  FALSE
    <3>1. process'[s].started = now /\ now' = now
      BY <1>0, <2>2, RestartFacts DEF SchedulerCrash
    <3> QED
      BY <1>0, <1>3, <3>1, Sizes DEF Counted, StartupGracePeriod
  <2>3. /\ Counted(o)
        /\ lockFile # "left" /\ lockFile' # "left"
        /\ \A s \in Schedulers :
             process[s].started + StartupGracePeriod <= o - CheckInterval
    <3>1. ASSUME NEW s \in Schedulers PROVE process'[s].started
                                              = process[s].started
      BY <1>0, <1>3, <2>1, <2>2, OthersStay
      DEF SchedulerNext, SchedulerClock, EntryStep
    <3>2. /\ enabled' = enabled /\ editedAt' = editedAt
      BY <1>3, <2>1, <2>2
      DEF SchedulerNext, Poll, TakeLock, EnterRun, LoadForOther, OpenFile,
          WriteEntries, CallApi, SchedulerClock
    <3>4. lockFile # "left" /\ lockFile' # "left"
      BY <1>0, <1>3, LeftStays DEF Counted
    <3>3. Counted(o)
      BY <3>1, <3>2, <3>4 DEF Counted
    <3> QED
      BY <3>3, <3>4 DEF Counted
  <2>4. CASE Entered(o)
    BY <1>0, <1>3, <2>3, <2>4, EnteredStays
  <2>5. ASSUME ~Entered(o), NEW q \in Schedulers, Entering(q, o)
        PROVE  \/ Entered(o)'
               \/ \E s \in Schedulers : Entering(s, o)'
    <3> DEFINE t == process[q].at
    <3>1. /\ process[q].doing = "locked"
          /\ t \in Nat /\ Ripe(t, o) /\ now <= t + Tick
          /\ t <= o + ExecutionWindow
      BY <1>0, <2>5 DEF Entering, AllPunctual, Punctual
    <3>2. CASE EnterRun(q)
      <4>1. /\ Reads(lastExec) \in Times \cup {Never}
            /\ Recalled(Reads(lastExec)) /\ Stands(Reads(lastExec))
        BY <1>0, <2>3
        DEF SchedulerTypeOK, Reads, ScheduleInv, FileInv, EnteredInv,
            Recalled, Stands, Never, Times
      <4>2. LongSince(Reads(lastExec), t)
        BY <1>0, <2>5, <3>1, <4>1, RipeIsLongSince
      <4>3. "entering" \in Doing /\ Turn(q, "entering", t)
        BY <3>2, <4>2 DEF EnterRun, Doing, AtFile
      <4>4. process'[q].doing \in Entrant /\ process'[q].at = t
        BY <1>0, <4>3, MoveFacts DEF Entrant
      <4>5. Served(t) = o
        BY <1>0, <3>1, OccurrenceTypes, RipeServes
      <4>6. Served(process'[q].at) = o
        BY <4>4, <4>5
      <4> QED
        BY <4>4, <4>6 DEF Entered, Served, NextTime, PrevTime
    <3>3. CASE ~EnterRun(q)
      <4>1. ~Poll(q) /\ ~TakeLock(q) /\ ~CallApi(q) /\ ~EntryStep(q)
        BY <3>1 DEF Poll, TakeLock, CallApi, EntryStep, LoadForOther,
                    OpenFile, WriteEntries
      <4>2. process'[q] = process[q]
        BY <1>0, <1>3, <2>1, <2>2, <3>3, <4>1, OthersStay
        DEF SchedulerNext, SchedulerClock, EntryStep
      <4>3. Entering(q, o)'
        BY <2>5, <4>2 DEF Entering, Ripe, ExecutionWindow
      <4> QED
        BY <4>3
    <3> QED
      BY <3>2, <3>3
  <2>6. ASSUME ~Entered(o), \A s \in Schedulers : ~Entering(s, o),
               \A s \in Schedulers : InTime(s, o)
        PROVE  \/ \E s \in Schedulers : Entering(s, o)'
               \/ \A s \in Schedulers : InTime(s, o)'
    <3> USE <2>6
    <3>0. \A s \in Schedulers : process[s].at \in Nat
                                 /\ now <= process[s].at + Tick
      BY <1>0 DEF AllPunctual, Punctual
    <3>1. ASSUME NEW s \in Schedulers, Poll(s)
          PROVE  \A q \in Schedulers : InTime(q, o)'
      <4>1. process[s].at + Tick <= o + ExecutionWindow /\ now' = now
        BY <3>1, Doings DEF Poll, InTime
      <4>2. now <= o + ExecutionWindow /\ now <= now + Tick
        BY <1>0, <3>0, <4>1, Sizes
      <4>3. CASE Turn(s, "due", now)
        <5>1. InTime(s, o)'
          BY <1>0, <4>2, <4>3, DueFacts, Doings DEF InTime, ExecutionWindow
        <5>2. \A q \in Schedulers \ {s} : InTime(q, o)'
          BY <1>0, <4>3, DueFacts DEF InTime, ExecutionWindow
        <5> QED
          BY <5>1, <5>2
      <4>4. CASE Sleep(s) /\ ~Ripe(now, o)
        BY <1>0, <4>2, <4>4, SleepsInTime
      <4>5. CASE Ripe(now, o)
        <5>1. IsNear(now)
          BY <1>0, <4>2, <4>5, OccurrenceTypes, RipeServes
        <5>2. /\ seen[s] \in Times \cup {Never}
              /\ Recalled(seen[s]) /\ Stands(seen[s])
          BY <1>0, <2>3 DEF SchedulerTypeOK, ScheduleInv, FileInv, EnteredInv
        <5>3. LongSince(seen[s], now) /\ now - seen[s] >= 5
          BY <1>0, <4>2, <4>5, <5>2, RipeIsLongSince
        <5>4. ShouldRun(s)
          BY <5>1, <5>3 DEF ShouldRun
        <5>5. process[s].started \in Nat
          BY <1>0 DEF SchedulerTypeOK, Process, Times
        <5>6. now - process[s].started >= StartupGracePeriod
          BY <1>0, <1>3, <2>3, <4>1, <5>5, Sizes DEF StartupGracePeriod
        <5>7. Turn(s, "due", now)
          BY <2>3, <3>1, <5>4, <5>6 DEF Poll, Counted
        <5> QED
          BY <4>3, <5>7
      <4> QED
        BY <3>1, <4>3, <4>4, <4>5 DEF Poll
    <3>2. ASSUME NEW s \in Schedulers, TakeLock(s)
          PROVE  \/ \E q \in Schedulers : Entering(q, o)'
                 \/ \A q \in Schedulers : InTime(q, o)'
      <4>1. CASE Turn(s, "locked", process[s].at)
        <5>1. "locked" \in Doing
          BY DEF Doing
        <5>2. InTime(s, o)'
          BY <1>0, <3>2, <4>1, <5>1, MoveFacts
          DEF TakeLock, InTime, ExecutionWindow, Elsewhere
        <5>3. \A q \in Schedulers \ {s} : InTime(q, o)'
          BY <1>0, <4>1, <5>1, MoveFacts DEF InTime, ExecutionWindow
        <5> QED
          BY <5>2, <5>3
      <4>2. CASE lockFile # "none" /\ Sleep(s)
        <5>1. PICK q \in Schedulers : lockFile = q
          BY <1>0, <2>3, <4>2 DEF SchedulerTypeOK
        <5>2. process[q].doing = "locked" \/ process[q].doing \in Entrant
          BY <1>0, <5>1 DEF FileInv, Serving, Entrant
        <5>3. ~Ripe(process[q].at, o)
          BY <5>2, ServingIsUnripe DEF Entering, InTime, Elsewhere
        <5> QED
          BY <1>0, <3>0, <4>2, <5>3, SleepsInTime
      <4> QED
        BY <3>2, <4>1, <4>2 DEF TakeLock
    <3>3. ASSUME NEW s \in Schedulers, EnterRun(s)
          PROVE  \A q \in Schedulers : InTime(q, o)'
      <4>1. CASE Turn(s, "entering", process[s].at)
        <5>1. "entering" \in Doing
          BY DEF Doing, AtFile
        <5>2. InTime(s, o)'
          BY <1>0, <3>3, <4>1, <5>1, MoveFacts
          DEF EnterRun, InTime, ExecutionWindow, Elsewhere
        <5>3. \A q \in Schedulers \ {s} : InTime(q, o)'
          BY <1>0, <4>1, <5>1, MoveFacts DEF InTime, ExecutionWindow
        <5> QED
          BY <5>2, <5>3
      <4>2. CASE Sleep(s)
        <5>1. ~Ripe(process[s].at, o)
          BY <3>3 DEF EnterRun, Entering, InTime, Elsewhere
        <5> QED
          BY <1>0, <3>0, <4>2, <5>1, SleepsInTime
      <4> QED
        BY <3>3, <4>1, <4>2 DEF EnterRun
    <3>4. ASSUME NEW s \in Schedulers, CallApi(s)
          PROVE  \A q \in Schedulers : InTime(q, o)'
      <4>1. process[s].doing \in Entrant /\ Sleep(s)
        BY <3>4 DEF CallApi, Entrant
      <4>2. ~Ripe(process[s].at, o)
        BY <4>1, ServingIsUnripe
      <4> QED
        BY <1>0, <3>0, <4>1, <4>2, SleepsInTime
    <3>5. CASE SchedulerClock
      BY <3>5 DEF SchedulerClock, InTime, ExecutionWindow
    <3>6. ASSUME NEW s \in Schedulers, EntryStep(s)
          PROVE  \A q \in Schedulers : InTime(q, o)'
      <4>1. \A q \in Schedulers :
              /\ process'[q].at = process[q].at
              /\ process'[q].doing \in Elsewhere <=>
                   process[q].doing \in Elsewhere
        BY <1>0, <3>6, FileStepFacts
      <4> QED
        BY <4>1 DEF InTime, ExecutionWindow
    <3> QED
      BY <1>3, <2>1, <2>2, <3>1, <3>2, <3>3, <3>4, <3>5, <3>6
      DEF SchedulerNext, EntryStep
  <2> QED
    BY <1>0, <2>3, <2>4, <2>5, <2>6 DEF Progress
<1> QED
  BY <1>0, <1>1, <1>2, <1>3, Sizes

(* When the polls come in time, whatever is left of a period when seven    *)
(* tenths of it have passed is enough: no occurrence is missed, but those  *)
(* that a user's edit or a crash of a process comes too close to.          *)
THEOREM SchedulerMissesNone ==
  ASSUME Timely
  PROVE  SchedulerSpec => []NoOccurrenceMissed
<1>1. SchedulerInit => ScheduleInv /\ ProgressInv
  BY InitLock, InitPunctual, InitFile, InitProgress DEF ScheduleInv
<1>2. ScheduleInv /\ ProgressInv /\ [SchedulerNext]_schedulerVars
        => (ScheduleInv /\ ProgressInv)'
  <2> SUFFICES ASSUME ScheduleInv, ProgressInv,
                      [SchedulerNext]_schedulerVars
               PROVE  ScheduleInv' /\ ProgressInv'
    OBVIOUS
  <2>1. ScheduleInv'
    BY NextLock, NextPunctual, NextFile, NextEntered DEF ScheduleInv
  <2> QED
    BY <2>1, NextProgress
<1>3. ScheduleInv /\ ProgressInv => NoOccurrenceMissed
  <2> SUFFICES ASSUME ScheduleInv, ProgressInv, NEW o \in Occurrences,
                      ~(now <= o + ExecutionWindow + 2 * Tick),
                      ~(editedAt > o - CheckInterval),
                      enabled, lockFile # "left",
                      \A s \in Schedulers :
                        ~(process[s].started + StartupGracePeriod
                            > o - CheckInterval)
               PROVE  runs[o] > 0
    BY DEF NoOccurrenceMissed
  <2>0. /\ now \in Nat /\ editedAt \in Nat /\ o \in Int
        /\ \A s \in Schedulers :
             process[s].at \in Nat /\ process[s].started \in Nat
    BY TypedNumbers, OccurrenceTypes DEF ScheduleInv
  <2>a. Counted(o)
    BY <2>0, Sizes DEF Counted, StartupGracePeriod
  <2>1. \A s \in Schedulers : now <= process[s].at + Tick
    BY DEF ScheduleInv, AllPunctual, Punctual
  <2>2. ASSUME NEW s \in Schedulers
        PROVE  /\ process[s].at > o + ExecutionWindow
               /\ ~Entering(s, o) /\ ~InTime(s, o)
    <3>1. process[s].at > o + ExecutionWindow
      BY <2>0, <2>1, Sizes
    <3> QED
      BY <2>0, <3>1, Sizes DEF Entering, InTime
  <2>5. \A s \in Schedulers :
          process[s].doing \in Entrant => Served(process[s].at) # o
    <3> SUFFICES ASSUME NEW s \in Schedulers, process[s].doing \in Entrant
                 PROVE  Served(process[s].at) # o
      OBVIOUS
    <3>1. NearTime(process[s].at)
      BY DEF ScheduleInv, LockInv, Entrant, Elsewhere
    <3>2. process[s].at <= Served(process[s].at) + ExecutionWindow
      BY <2>0, <3>1, ServedNear
    <3> QED
      BY <2>0, <2>2, <3>2, Sizes
  <2>6. Entered(o)
    BY <2>a, <2>2, SchedulersAssumption DEF ProgressInv, Progress
  <2> QED
    BY <2>5, <2>6 DEF Entered
<1> QED
  BY <1>1, <1>2, <1>3, PTL DEF SchedulerSpec

-----------------------------------------------------------------------------
(***************************************************************************)
(* The synchronisation of sources.                                         *)
(***************************************************************************)

(* A thread that is not at its end has a direction left.                   *)
LeftsRemain ==
  \A t \in SyncThreads :
    sync[t] # NoSync /\ sync[t].step \notin {"finish", "cleanup"}
      => sync[t].left # <<>>

(* The table says running for the source of every sync with a job.         *)
JobsRunning ==
  \A t \in SyncThreads :
    sync[t] # NoSync /\ sync[t].step # "cleanup" /\ sync[t].job
      => active[Src(t)].status = "running"

TableInv == SyncTypeOK /\ LeftsRemain /\ JobsRunning /\ OneSyncPerSource

-----------------------------------------------------------------------------
(* NoSync is not a record of a sync: their domains differ.                 *)
LEMMA NoSyncApart == NoSync \notin Syncing
  BY DEF NoSync, Syncing, SyncSteps

(* What is left of a sync begins with a direction.                         *)
LEMMA LeftFacts ==
  ASSUME NEW left \in Lefts, left # <<>>
  PROVE  /\ Head(left) \in Directions
         /\ Len(left) = 2 => Tail(left) \in Lefts \ {<<>>}
<1>1. CASE left = <<"push">> BY <1>1 DEF Directions
<1>2. CASE left = <<"pull">> BY <1>2 DEF Directions
<1>3. CASE left = <<"pull", "push">>
  <2>1. Head(left) = "pull" /\ Tail(left) = <<"push">> BY <1>3
  <2> QED BY <2>1 DEF Directions, Lefts
<1>4. CASE left = <<"push", "pull">>
  <2>1. Head(left) = "push" /\ Tail(left) = <<"pull">> BY <1>4
  <2> QED BY <2>1 DEF Directions, Lefts
<1> QED BY <1>1, <1>2, <1>3, <1>4 DEF Lefts

(* The steps of a thread between the first and the last.                   *)
Between(t) ==
  \/ LoadStatus(t) \/ TruncateStatus(t) \/ DumpStatus(t)
  \/ Copy(t) \/ EnterClone(t) \/ GitCommand(t) \/ LeaveClone(t)

(* They keep the thread, its source and its job, and leave the table.      *)
LEMMA BetweenMoves ==
  ASSUME SyncTypeOK, LeftsRemain, NEW t \in SyncThreads, Between(t)
  PROVE  /\ sync[t] \in Syncing
         /\ sync[t].step \notin {"finish", "cleanup"}
         /\ sync'[t] \in Syncing
         /\ sync' = [sync EXCEPT ![t] = sync'[t]]
         /\ sync'[t].source = sync[t].source
         /\ sync'[t].job = sync[t].job
         /\ sync'[t].step # "cleanup"
         /\ sync'[t].step # "finish" => sync'[t].left # <<>>
         /\ UNCHANGED <<active, configured>>
         /\ syncState' \in States
         /\ workDir' \in Sources \cup {"server"}
<1> USE DEF SyncTypeOK, SyncAt, SyncGoes
<1>1. sync[t] \in Syncing
  BY DEF Between, LoadStatus, TruncateStatus, DumpStatus, Copy, EnterClone,
         GitCommand, LeaveClone
<1>2. sync[t].step \notin {"finish", "cleanup"} /\ sync[t] # NoSync
  BY DEF Between, LoadStatus, TruncateStatus, DumpStatus, Copy, EnterClone,
         GitCommand, LeaveClone
<1>3. sync[t].left \in Lefts \ {<<>>} BY <1>1, <1>2 DEF LeftsRemain, Syncing
<1>4. Src(t) \in Sources BY <1>1 DEF Src, Syncing
<1>5. CASE LoadStatus(t)
  BY <1>1, <1>2, <1>3, <1>5 DEF LoadStatus, Syncing, SyncSteps
<1>6. CASE TruncateStatus(t)
  <2>1. syncState' \in States
    BY <1>6 DEF TruncateStatus, NoneRunning, States
  <2> QED
    BY <1>1, <1>2, <1>3, <1>6, <2>1 DEF TruncateStatus, Syncing, SyncSteps
<1>7. CASE DumpStatus(t)
  <2>1. Head(sync[t].left) \in Directions BY <1>3, LeftFacts
  <2>2. syncState' \in States
    <3>1. sync[t].loaded \in States BY <1>1 DEF Syncing
    <3> QED BY <1>4, <1>7, <2>1, <3>1 DEF DumpStatus, States, Dir
  <2>3. /\ AfterSave(t) \in Syncing
        /\ AfterSave(t).source = sync[t].source
        /\ AfterSave(t).job = sync[t].job
        /\ AfterSave(t).step # "cleanup"
        /\ AfterSave(t).step # "finish" => AfterSave(t).left # <<>>
    <3>1. NoneRunning \in States BY DEF NoneRunning, States
    <3>2. Len(sync[t].left) = 2 => Tail(sync[t].left) \in Lefts \ {<<>>}
      BY <1>3, LeftFacts
    <3>3. <<"pull">> \in Lefts /\ <<"pull">> # <<>> /\ <<>> \in Lefts
      BY DEF Lefts
    <3>4. CASE sync[t].saving = "running"
      BY <1>1, <1>3, <3>1, <3>4 DEF AfterSave, Syncing, SyncSteps
    <3>5. CASE sync[t].saving # "running" /\ sync[t].saving = "ok"
               /\ Len(sync[t].left) = 2
      BY <1>1, <3>1, <3>2, <3>5 DEF AfterSave, Syncing, SyncSteps
    <3>6. CASE sync[t].saving = "failed" /\ sync[t].left = <<"push", "pull">>
      BY <1>1, <3>1, <3>3, <3>6 DEF AfterSave, Syncing, SyncSteps
    <3>7. CASE /\ sync[t].saving # "running"
               /\ ~(sync[t].saving = "ok" /\ Len(sync[t].left) = 2)
               /\ ~(/\ sync[t].saving = "failed"
                    /\ sync[t].left = <<"push", "pull">>)
      BY <1>1, <3>1, <3>3, <3>7 DEF AfterSave, Syncing, SyncSteps
    <3> QED BY <3>4, <3>5, <3>6, <3>7
  <2> HIDE DEF AfterSave
  <2>4. sync' = [sync EXCEPT ![t] = AfterSave(t)] BY <1>7 DEF DumpStatus
  <2> QED BY <1>1, <1>2, <1>7, <2>2, <2>3, <2>4 DEF DumpStatus
<1>8. CASE Copy(t)
  BY <1>1, <1>2, <1>3, <1>8 DEF Copy, Conclude, Syncing, SyncSteps
<1>9. CASE EnterClone(t)
  BY <1>1, <1>2, <1>3, <1>4, <1>9 DEF EnterClone, Syncing, SyncSteps
<1>10. CASE GitCommand(t)
  <2>1. PICK status \in {"ok", "failed"} :
          sync' = [sync EXCEPT ![t].step = "leave", ![t].saving = status]
    BY <1>10 DEF GitCommand
  <2>2. UNCHANGED <<workDir, active, syncState, configured>>
    BY <1>10 DEF GitCommand
  <2> QED BY <1>1, <1>2, <1>3, <2>1, <2>2 DEF Syncing, SyncSteps
<1>11. CASE LeaveClone(t)
  BY <1>1, <1>2, <1>3, <1>11 DEF LeaveClone, Syncing, SyncSteps
<1> QED
  BY <1>5, <1>6, <1>7, <1>8, <1>9, <1>10, <1>11 DEF Between

-----------------------------------------------------------------------------
(* The beginning.                                                          *)
LEMMA TableInvInit == ASSUME SyncInit PROVE TableInv
<1>1. SyncTypeOK
  <2>1. syncState \in States BY DEF SyncInit, NoneRunning, States
  <2>2. restarts \in 0..MaxRestarts BY SyncAssumption DEF SyncInit
  <2> QED BY <2>1, <2>2 DEF SyncInit, SyncTypeOK, Jobs
<1> QED
  BY <1>1
  DEF SyncInit, TableInv, LeftsRemain, JobsRunning, OneSyncPerSource, Working

(* A thread between its first and last step keeps the invariant.           *)
LEMMA BetweenKeeps ==
  ASSUME TableInv, NEW t \in SyncThreads, Between(t), disturbed' \in BOOLEAN
  PROVE  TableInv'
<1> USE DEF TableInv
<1>1. /\ sync[t] \in Syncing
      /\ sync[t].step \notin {"finish", "cleanup"}
      /\ sync'[t] \in Syncing
      /\ sync' = [sync EXCEPT ![t] = sync'[t]]
      /\ sync'[t].source = sync[t].source
      /\ sync'[t].job = sync[t].job
      /\ sync'[t].step # "cleanup"
      /\ sync'[t].step # "finish" => sync'[t].left # <<>>
      /\ UNCHANGED <<active, configured>>
      /\ syncState' \in States
      /\ workDir' \in Sources \cup {"server"}
  BY BetweenMoves
<1>2. sync[t] # NoSync /\ sync'[t] # NoSync BY <1>1, NoSyncApart
<1>3. \A u \in SyncThreads : u # t => sync'[u] = sync[u]
  BY <1>1 DEF SyncTypeOK
<1>4. SyncTypeOK' BY <1>1 DEF SyncTypeOK, configured
<1>5. LeftsRemain' BY <1>1, <1>3 DEF LeftsRemain
<1>6. JobsRunning' BY <1>1, <1>2, <1>3 DEF JobsRunning, Src
<1>7. OneSyncPerSource'
  BY <1>1, <1>2, <1>3 DEF OneSyncPerSource, Working
<1> QED BY <1>4, <1>5, <1>6, <1>7

(* A new thread, whose source has no running job if it has one.            *)
LEMMA BeginKeeps ==
  ASSUME TableInv, NEW t \in SyncThreads, NEW k \in Sources,
         NEW x \in Syncing,
         sync[t] = NoSync, sync' = [sync EXCEPT ![t] = x],
         x.source = k, x.left # <<>>,
         UNCHANGED <<workDir, syncState, configured>>,
         disturbed' \in BOOLEAN,
         \/ ~x.job /\ active' = active
         \/ /\ active[k].status # "running"
            /\ \E direction \in Directions \cup {"both"} :
                 active' = [active EXCEPT ![k] =
                              [direction |-> direction, status |-> "running"]]
  PROVE  TableInv'
<1> USE DEF TableInv
<1>1. active' \in [Sources -> Jobs] BY DEF SyncTypeOK, Jobs
<1>2. sync' \in [SyncThreads -> Syncing \cup {NoSync}] /\ sync'[t] = x
  BY DEF SyncTypeOK
<1>3. \A u \in SyncThreads : u # t => sync'[u] = sync[u]
  BY DEF SyncTypeOK
<1>4. SyncTypeOK' BY <1>1, <1>2 DEF SyncTypeOK, configured
<1>5. LeftsRemain' BY <1>2, <1>3 DEF LeftsRemain
<1>6. \A j \in Sources :
        active[j].status = "running" => active'[j].status = "running"
  BY DEF SyncTypeOK
<1>7. \A u \in SyncThreads : sync[u] # NoSync => Src(u) \in Sources
  BY DEF SyncTypeOK, Syncing, Src
<1>8. x.job => active'[k].status = "running" BY DEF SyncTypeOK
<1>9. JobsRunning'
  BY <1>2, <1>3, <1>6, <1>7, <1>8 DEF JobsRunning, Src
<1>10. x.job => \A u \in Working(k) : ~sync[u].job
  BY DEF JobsRunning, Working, Src
<1>11. OneSyncPerSource'
  <2> SUFFICES ASSUME NEW j \in Sources, NEW u \in Working(j)',
                      NEW v \in Working(j)', sync'[u].job, sync'[v].job, u # v
               PROVE  FALSE
    BY DEF OneSyncPerSource
  <2>1. CASE u # t /\ v # t
    BY <1>3, <2>1 DEF OneSyncPerSource, Working
  <2>2. CASE u = t
    <3>1. v \in Working(k) /\ sync[v].job /\ x.job
      BY <1>2, <1>3, <2>2 DEF Working
    <3> QED BY <1>10, <3>1
  <2>3. CASE v = t
    <3>1. u \in Working(k) /\ sync[u].job /\ x.job
      BY <1>2, <1>3, <2>3 DEF Working
    <3> QED BY <1>10, <3>1
  <2> QED BY <2>1, <2>2, <2>3
<1> QED BY <1>4, <1>5, <1>9, <1>11

(* What a new sync is.                                                     *)
LEMMA BeganFacts ==
  ASSUME NEW k \in Sources, NEW left \in Lefts, left # <<>>,
         NEW saving \in {"running", "ok", "failed"}
  PROVE  /\ Began(k, left, saving) \in Syncing
         /\ Began(k, left, saving).source = k
         /\ Began(k, left, saving).left = left
         /\ Began(k, left, saving).step = "load"
         /\ Began(k, left, saving).saving = saving
         /\ [Began(k, left, saving) EXCEPT !.job = FALSE] \in Syncing
<1>1. NoneRunning \in States BY DEF NoneRunning, States
<1> QED BY <1>1 DEF Began, Syncing, SyncSteps

(* A sync has a direction to begin with.                                   *)
LEMMA InTurnFacts ==
  ASSUME NEW direction \in Directions \cup {"both"}
  PROVE  InTurn(direction) \in Lefts /\ InTurn(direction) # <<>>
<1>1. CASE direction = "both" BY <1>1 DEF InTurn, Lefts
<1>2. CASE direction = "push" BY <1>2 DEF InTurn, Lefts
<1>3. CASE direction = "pull" BY <1>3 DEF InTurn, Lefts
<1> QED BY <1>1, <1>2, <1>3 DEF Directions

(* A started sync: what it adds.                                           *)
LEMMA StartAdds ==
  ASSUME NEW t \in SyncThreads, NEW k \in Sources,
         NEW direction \in Directions \cup {"both"},
         StartSync(t, k, direction)
  PROVE  \E x \in Syncing :
           /\ sync' = [sync EXCEPT ![t] = x]
           /\ x.source = k /\ x.left # <<>> /\ x.step = "load"
<1>1. /\ InTurn(direction) \in Lefts /\ InTurn(direction) # <<>>
      /\ <<"push", "pull">> \in Lefts /\ <<"push", "pull">> # <<>>
  BY InTurnFacts DEF Lefts
<1>2. ASSUME NEW left \in Lefts, left # <<>>,
             NEW saving \in {"running", "ok", "failed"},
             sync' = [sync EXCEPT ![t] = Began(k, left, saving)]
      PROVE  \E x \in Syncing :
               /\ sync' = [sync EXCEPT ![t] = x]
               /\ x.source = k /\ x.left # <<>> /\ x.step = "load"
  <2>1. /\ Began(k, left, saving) \in Syncing
        /\ Began(k, left, saving).source = k
        /\ Began(k, left, saving).left = left
        /\ Began(k, left, saving).step = "load"
    <3>1. NoneRunning \in States BY DEF NoneRunning, States
    <3> QED BY <3>1, <1>2 DEF Began, Syncing, SyncSteps
  <2> QED BY <1>2, <2>1
<1>3. \/ sync' = [sync EXCEPT ![t] = Began(k, InTurn(direction), "running")]
      \/ sync' = [sync EXCEPT ![t] = Began(k, <<"push", "pull">>, "failed")]
  BY DEF StartSync
<1>4. CASE sync' =
             [sync EXCEPT ![t] = Began(k, InTurn(direction), "running")]
  BY <1>1, <1>2, <1>4
<1>5. CASE sync' =
             [sync EXCEPT ![t] = Began(k, <<"push", "pull">>, "failed")]
  BY <1>1, <1>2, <1>5
<1> QED BY <1>3, <1>4, <1>5

(* A sync that ends, in the table and in its thread.                       *)
LEMMA EndKeeps ==
  ASSUME TableInv, NEW t \in SyncThreads, Finish(t) \/ Cleanup(t),
         disturbed' \in BOOLEAN
  PROVE  TableInv'
<1> USE DEF TableInv, SyncAt
<1>1. sync[t] \in Syncing /\ sync[t] # NoSync
  BY DEF Finish, Cleanup, SyncTypeOK
<1>2. Src(t) \in Sources BY <1>1 DEF Src, Syncing
<1>3. /\ sync' \in [SyncThreads -> Syncing \cup {NoSync}]
      /\ sync'[t] = NoSync \/ sync'[t].step = "cleanup"
      /\ \A u \in SyncThreads : u # t => sync'[u] = sync[u]
  BY <1>1 DEF Finish, Cleanup, Concluded, SyncTypeOK, Syncing, SyncSteps
<1>4. active' \in [Sources -> Jobs]
  <2>1. CASE Finish(t)
    <3>1. CASE HasJob(t)
      <4>1. active[Src(t)] \in Jobs \ {NoJob}
        BY <1>2, <3>1 DEF HasJob, SyncTypeOK
      <4>2. sync[t].saving \in {"running", "ok", "failed"}
        BY <1>1 DEF Syncing
      <4>3. [active[Src(t)] EXCEPT !.status = sync[t].saving] \in Jobs
        BY <4>1, <4>2 DEF Jobs
      <4> QED BY <1>2, <2>1, <3>1, <4>3 DEF Finish, SyncTypeOK
    <3>2. CASE ~HasJob(t) BY <2>1, <3>2 DEF Finish, SyncTypeOK
    <3> QED BY <3>1, <3>2
  <2>2. CASE Cleanup(t) BY <1>2, <2>2 DEF Cleanup, SyncTypeOK, Jobs
  <2> QED BY <2>1, <2>2
<1>5. SyncTypeOK'
  BY <1>3, <1>4 DEF Finish, Cleanup, SyncTypeOK, configured
<1>6. LeftsRemain' BY <1>3 DEF LeftsRemain
<1>7. OneSyncPerSource' BY <1>3 DEF OneSyncPerSource, Working
<1>8. JobsRunning'
  <2> SUFFICES ASSUME NEW u \in SyncThreads, sync'[u] # NoSync,
                      sync'[u].step # "cleanup", sync'[u].job
               PROVE  active'[Src(u)'].status = "running"
    BY DEF JobsRunning
  <2>1. u # t /\ sync'[u] = sync[u] BY <1>3
  <2>2. active[Src(u)].status = "running" /\ Src(u)' = Src(u)
    BY <2>1 DEF JobsRunning, Src
  <2>3. Src(u) \in Sources /\ u \in Working(Src(u))
    BY <2>1 DEF SyncTypeOK, Syncing, Src, Working
  <2>4. CASE Finish(t)
    <3>1. CASE HasJob(t)
      <4>1. sync[t].job /\ t \in Working(Src(t))
        BY <1>1, <2>4, <3>1 DEF HasJob, Finish, Working, Src
      <4>2. Src(u) # Src(t) BY <1>2, <2>1, <2>3, <4>1 DEF OneSyncPerSource
      <4> QED BY <1>2, <2>2, <2>3, <2>4, <3>1, <4>2 DEF Finish, SyncTypeOK
    <3>2. CASE ~HasJob(t) BY <2>2, <2>4, <3>2 DEF Finish
    <3> QED BY <3>1, <3>2
  <2>5. CASE Cleanup(t)
    BY <1>2, <2>2, <2>3, <2>5 DEF Cleanup, SyncTypeOK
  <2> QED BY <2>4, <2>5
<1> QED BY <1>5, <1>6, <1>7, <1>8

(* A step of the model: what it is besides noting collisions.              *)
Acts ==
  \E t \in SyncThreads :
    \/ Between(t) \/ Finish(t) \/ Cleanup(t)
    \/ \E k \in Sources :
         \/ PullInRequest(t, k)
         \/ \E direction \in Directions \cup {"both"} :
              StartSync(t, k, direction)

(* A step of the syncs is one of these, noted when two collide, or a       *)
(* restart.                                                                *)
LEMMA NextActs ==
  ASSUME SyncNext
  PROVE  \/ Acts /\ ~disturbed /\ disturbed' \in BOOLEAN
            /\ disturbed' = (\/ Collision({"truncate", "dump"})
                             \/ Collision({"command", "leave"}))'
         \/ SyncRestart
<1>1. ASSUME NEW t \in SyncThreads,
             \/ SyncThread(t)
             \/ \E k \in Sources :
                  \/ AutoSync(t, k)
                  \/ PullInRequest(t, k)
                  \/ \E direction \in Directions \cup {"both"} :
                       StartSync(t, k, direction)
      PROVE  Acts
  BY <1>1 DEF SyncThread, AutoSync, Acts, Between
<1> QED BY <1>1 DEF SyncNext, NotingCollisions, Collision

(* Every step keeps the table of syncs.                                    *)
LEMMA TableInvNext == ASSUME TableInv, [SyncNext]_syncVars PROVE TableInv'
<1>1. CASE Acts /\ disturbed' \in BOOLEAN
  <2>1. PICK t \in SyncThreads :
          \/ Between(t) \/ Finish(t) \/ Cleanup(t)
          \/ \E k \in Sources :
               \/ PullInRequest(t, k)
               \/ \E direction \in Directions \cup {"both"} :
                    StartSync(t, k, direction)
    BY <1>1 DEF Acts
  <2>2. CASE Between(t) BY <1>1, <2>2, BetweenKeeps
  <2>3. CASE Finish(t) \/ Cleanup(t) BY <1>1, <2>3, EndKeeps
  <2>4. ASSUME NEW k \in Sources, PullInRequest(t, k) PROVE TableInv'
    <3> DEFINE x == [Began(k, <<"pull">>, "running") EXCEPT !.job = FALSE]
    <3>1. <<"pull">> \in Lefts /\ <<"pull">> # <<>> BY DEF Lefts
    <3>2. x \in Syncing BY <3>1, BeganFacts
    <3>3. x.source = k /\ x.left # <<>> /\ ~x.job BY <3>1 DEF Began
    <3>4. sync[t] = NoSync /\ sync' = [sync EXCEPT ![t] = x]
      BY <2>4 DEF PullInRequest
    <3>5. UNCHANGED <<workDir, active, syncState, configured>>
      BY <2>4 DEF PullInRequest
    <3> HIDE DEF x
    <3> QED BY <1>1, <3>2, <3>3, <3>4, <3>5, BeginKeeps
  <2>5. ASSUME NEW k \in Sources, NEW direction \in Directions \cup {"both"},
               StartSync(t, k, direction)
        PROVE  TableInv'
    <3>1. PICK x \in Syncing :
            /\ sync' = [sync EXCEPT ![t] = x]
            /\ x.source = k /\ x.left # <<>> /\ x.step = "load"
      BY <2>5, StartAdds
    <3>2. NewJob(t, k, direction) BY <2>5 DEF StartSync
    <3> QED BY <1>1, <3>1, <3>2, BeginKeeps DEF NewJob
  <2> QED BY <2>1, <2>2, <2>3, <2>4, <2>5
<1>2. CASE SyncRestart
  <2> USE DEF TableInv
  <2>1. SyncTypeOK'
    BY <1>2, SyncAssumption DEF SyncRestart, SyncTypeOK, Jobs
  <2>2. \A t \in SyncThreads : sync'[t] = NoSync BY <1>2 DEF SyncRestart
  <2> QED
    BY <2>1, <2>2 DEF LeftsRemain, JobsRunning, OneSyncPerSource, Working
<1>3. CASE UNCHANGED syncVars
  BY <1>3
  DEF TableInv, syncVars, SyncTypeOK, LeftsRemain, JobsRunning, Src,
      OneSyncPerSource, Working
<1> QED BY <1>1, <1>2, <1>3, NextActs

(* In every reachable state the table of syncs is well typed, every sync   *)
(* has a direction left, the table says running for each job, and there is *)
(* one sync of a source.                                                   *)
THEOREM TableInvariant == SyncSpec => []TableInv
<1>1. SyncInit => TableInv BY TableInvInit
<1>2. TableInv /\ [SyncNext]_syncVars => TableInv' BY TableInvNext
<1> QED BY <1>1, <1>2, PTL DEF SyncSpec

(* The state of the syncs is well typed.                                   *)
THEOREM SyncWellTyped == SyncSpec => []SyncTypeOK
<1>1. TableInv => SyncTypeOK BY DEF TableInv
<1> QED BY <1>1, TableInvariant, PTL

(* The job table lets one sync with a job at a time work on a source.      *)
THEOREM SyncOnePerSource == SyncSpec => []OneSyncPerSource
<1>1. TableInv => OneSyncPerSource BY DEF TableInv
<1> QED BY <1>1, TableInvariant, PTL

-----------------------------------------------------------------------------
(* Two threads have not collided.                                          *)
OnlyJob(steps) ==
  \A t, u \in SyncThreads :
    /\ sync[t] # NoSync /\ sync[t].step \in steps
    /\ sync[u] # NoSync /\ sync[u].step \in steps
    => t = u

(* Without a collision there is one thread at the steps.                   *)
LEMMA NoCollision ==
  ASSUME NEW steps, ~Collision(steps)
  PROVE  OnlyJob(steps)
  BY DEF Collision, OnlyJob, SyncAt

(* A direction that a thread is at work on, and a file that records no     *)
(* other as running.                                                       *)
Running(k, d) ==
  \E t \in SyncThreads :
    /\ sync[t] # NoSync /\ sync[t].step \notin {"finish", "cleanup"}
    /\ sync[t].source = k /\ Dir(t) = d
Recorded(file) == \A k \in Sources : \A d \in file[k] : Running(k, d)

(* The thread in a clone is alone there and will return to the directory   *)
(* of the server; the thread that saves is alone and has loaded the truth. *)
CloneInv ==
  /\ OnlyJob({"command", "leave"})
  /\ \A t \in InClone : workDir = Src(t) /\ sync[t].home = "server"
  /\ InClone = {} => workDir = "server"
SavedInv ==
  /\ OnlyJob({"truncate", "dump"})
  /\ Recorded(syncState)
  /\ \A t \in SyncThreads :
       sync[t] # NoSync /\ sync[t].step \in {"truncate", "dump"}
         => Recorded(sync[t].loaded)
QuietInv == TableInv /\ (~disturbed => CloneInv /\ SavedInv)

(* At the start no sync is under way.                                      *)
LEMMA QuietInvInit == ASSUME SyncInit PROVE QuietInv
<1>1. TableInv BY TableInvInit
<1>2. CloneInv BY DEF SyncInit, CloneInv, OnlyJob, InClone, SyncAt
<1>3. SavedInv
  BY DEF SyncInit, SavedInv, OnlyJob, Recorded, NoneRunning
<1> QED BY <1>1, <1>2, <1>3 DEF QuietInv

(* A thread that has gone nowhere near a clone.                            *)
LEMMA CloneUntouched ==
  ASSUME CloneInv, NEW t \in SyncThreads, UNCHANGED workDir,
         \A u \in SyncThreads : u # t => sync'[u] = sync[u],
         t \notin InClone, t \notin InClone',
         OnlyJob({"command", "leave"})'
  PROVE  CloneInv'
<1>1. InClone' = InClone BY DEF InClone, SyncAt
<1>2. \A u \in InClone : sync'[u] = sync[u] BY DEF InClone
<1> QED BY <1>1, <1>2 DEF CloneInv, Src

(* A step in the middle of a sync keeps the clone as claimed, alone.       *)
LEMMA BetweenKeepsClone ==
  ASSUME SyncTypeOK, LeftsRemain, CloneInv, NEW t \in SyncThreads,
         Between(t), OnlyJob({"command", "leave"})'
  PROVE  CloneInv'
<1> USE DEF SyncAt, SyncGoes
<1>1. /\ sync[t] \in Syncing /\ sync'[t] \in Syncing
      /\ sync' = [sync EXCEPT ![t] = sync'[t]]
      /\ sync'[t].source = sync[t].source
  BY BetweenMoves
<1>2. \A u \in SyncThreads : u # t => sync'[u] = sync[u]
  BY <1>1 DEF SyncTypeOK
<1>3. sync[t] # NoSync /\ sync'[t] # NoSync BY <1>1, NoSyncApart
<1>4. CASE EnterClone(t)
  <2>1. sync'[t].step = "command" /\ sync'[t].home = workDir
    BY <1>1, <1>4 DEF EnterClone, SyncTypeOK, Syncing
  <2>2. \A u \in InClone' : u = t
    BY <1>3, <2>1 DEF OnlyJob, InClone
  <2>3. InClone = {}
    BY <1>2, <1>4, <2>2 DEF InClone, EnterClone
  <2>4. workDir = "server" BY <2>3 DEF CloneInv
  <2>5. t \in InClone' BY <1>3, <2>1 DEF InClone
  <2>6. workDir' = Src(t)' BY <1>1, <1>4 DEF EnterClone, Src
  <2> QED BY <2>1, <2>2, <2>4, <2>5, <2>6 DEF CloneInv
<1>5. CASE GitCommand(t)
  <2>1. sync'[t].step = "leave" /\ sync'[t].home = sync[t].home
    BY <1>1, <1>5 DEF GitCommand, SyncTypeOK, Syncing
  <2>2. workDir' = workDir BY <1>5 DEF GitCommand
  <2>3. t \in InClone /\ t \in InClone'
    BY <1>3, <1>5, <2>1 DEF GitCommand, InClone
  <2>4. \A u \in InClone' : u = t BY <2>3 DEF OnlyJob, InClone
  <2> QED BY <1>1, <2>1, <2>2, <2>3, <2>4 DEF CloneInv, Src
<1>6. CASE LeaveClone(t)
  <2>1. sync'[t].step = "load"
    BY <1>1, <1>6 DEF LeaveClone, SyncTypeOK, Syncing
  <2>2. t \in InClone BY <1>3, <1>6 DEF LeaveClone, InClone
  <2>3. \A u \in InClone : u = t
    BY <2>2 DEF CloneInv, OnlyJob, InClone
  <2>4. InClone' = {} BY <1>2, <2>1, <2>3 DEF InClone
  <2>5. workDir' = "server" BY <1>6, <2>2 DEF LeaveClone, CloneInv
  <2> QED BY <2>4, <2>5 DEF CloneInv
<1>7. CASE LoadStatus(t) \/ TruncateStatus(t) \/ DumpStatus(t) \/ Copy(t)
  <2>1. workDir' = workDir
    BY <1>7 DEF LoadStatus, TruncateStatus, DumpStatus, Copy
  <2>2. t \notin InClone
    BY <1>7 DEF LoadStatus, TruncateStatus, DumpStatus, Copy, InClone
  <2>3. sync'[t].step \notin {"command", "leave"}
    <3>1. CASE LoadStatus(t) \/ TruncateStatus(t)
      BY <1>1, <3>1 DEF LoadStatus, TruncateStatus, SyncTypeOK, Syncing
    <3>2. CASE DumpStatus(t)
      <4>1. sync'[t] = AfterSave(t)
        BY <1>1, <3>2 DEF DumpStatus, SyncTypeOK
      <4>2. AfterSave(t).step \in {"transfer", "load", "finish"}
        BY <1>1 DEF AfterSave, Syncing
      <4> QED BY <4>1, <4>2
    <3>3. CASE Copy(t)
      BY <1>1, <3>3 DEF Copy, Conclude, SyncTypeOK, Syncing
    <3> QED BY <1>7, <3>1, <3>2, <3>3
  <2>4. t \notin InClone' BY <2>3 DEF InClone
  <2> QED BY <1>2, <2>1, <2>2, <2>4, CloneUntouched
<1> QED BY <1>4, <1>5, <1>6, <1>7 DEF Between

(* What is at work stays at work when its thread goes on.                  *)
LEMMA StillRunning ==
  ASSUME NEW t \in SyncThreads,
         \A u \in SyncThreads : u # t => sync'[u] = sync[u],
         \/ sync[t] = NoSync \/ sync[t].step \in {"finish", "cleanup"}
         \/ /\ sync'[t] # NoSync
            /\ sync'[t].step \notin {"finish", "cleanup"}
            /\ sync'[t].source = sync[t].source
            /\ sync'[t].left = sync[t].left
  PROVE  \A k, d : Running(k, d) => Running(k, d)'
<1> SUFFICES ASSUME NEW k, NEW d, Running(k, d) PROVE Running(k, d)'
  OBVIOUS
<1>1. PICK u \in SyncThreads :
        /\ sync[u] # NoSync /\ sync[u].step \notin {"finish", "cleanup"}
        /\ sync[u].source = k /\ Dir(u) = d
  BY DEF Running
<1>2. /\ sync'[u] # NoSync /\ sync'[u].step \notin {"finish", "cleanup"}
      /\ sync'[u].source = k /\ sync'[u].left = sync[u].left
  <2>1. CASE u # t BY <1>1, <2>1
  <2>2. CASE u = t BY <1>1, <2>2
  <2> QED BY <2>1, <2>2
<1> QED BY <1>1, <1>2 DEF Running, Dir

(* A file whose text is left alone, or emptied.                            *)
LEMMA SavedUntouched ==
  ASSUME SavedInv, NEW t \in SyncThreads,
         \A u \in SyncThreads : u # t => sync'[u] = sync[u],
         \A k, d : Running(k, d) => Running(k, d)',
         syncState' = syncState \/ syncState' = NoneRunning,
         sync'[t] # NoSync /\ sync'[t].step \in {"truncate", "dump"}
           => \/ sync'[t].loaded = syncState
              \/ /\ sync[t] # NoSync /\ sync[t].step \in {"truncate", "dump"}
                 /\ sync'[t].loaded = sync[t].loaded,
         OnlyJob({"truncate", "dump"})'
  PROVE  SavedInv'
<1>1. ASSUME NEW file, Recorded(file)
      PROVE  \A k \in Sources : \A d \in file[k] : Running(k, d)'
  BY <1>1 DEF Recorded
<1>2. Recorded(syncState)'
  <2>1. CASE syncState' = syncState BY <1>1, <2>1 DEF SavedInv, Recorded
  <2>2. CASE syncState' = NoneRunning BY <2>2 DEF Recorded, NoneRunning
  <2> QED BY <2>1, <2>2
<1>3. ASSUME NEW u \in SyncThreads, sync'[u] # NoSync,
             sync'[u].step \in {"truncate", "dump"}
      PROVE  Recorded(sync[u].loaded)'
  <2>1. \/ sync'[u].loaded = syncState
        \/ /\ sync[u] # NoSync /\ sync[u].step \in {"truncate", "dump"}
           /\ sync'[u].loaded = sync[u].loaded
    BY <1>3
  <2> QED BY <1>1, <2>1 DEF SavedInv, Recorded
<1> QED BY <1>2, <1>3 DEF SavedInv

(* A step in the middle of a sync keeps the saved state as claimed, alone. *)
LEMMA BetweenKeepsSaved ==
  ASSUME SyncTypeOK, LeftsRemain, SavedInv, NEW t \in SyncThreads,
         Between(t), OnlyJob({"truncate", "dump"})'
  PROVE  SavedInv'
<1> USE DEF SyncAt, SyncGoes
<1>1. /\ sync[t] \in Syncing /\ sync'[t] \in Syncing
      /\ sync' = [sync EXCEPT ![t] = sync'[t]]
      /\ sync'[t].source = sync[t].source
  BY BetweenMoves
<1>2. \A u \in SyncThreads : u # t => sync'[u] = sync[u]
  BY <1>1 DEF SyncTypeOK
<1>3. sync[t] # NoSync /\ sync'[t] # NoSync BY <1>1, NoSyncApart
<1>4. CASE DumpStatus(t)
  <2>1. sync'[t] = AfterSave(t) BY <1>1, <1>4 DEF DumpStatus, SyncTypeOK
  <2>2. AfterSave(t).step \in {"transfer", "load", "finish"}
    BY <1>1 DEF AfterSave, Syncing
  <2>3. sync[t].step = "dump" BY <1>4 DEF DumpStatus
  <2>4. \A u \in SyncThreads :
          ~(sync'[u] # NoSync /\ sync'[u].step \in {"truncate", "dump"})
    BY <1>2, <1>3, <2>1, <2>2, <2>3 DEF SavedInv, OnlyJob
  <2>5. Recorded(sync[t].loaded) BY <1>3, <2>3 DEF SavedInv
  <2>6. ASSUME NEW k \in Sources, NEW d \in syncState'[k]
        PROVE  Running(k, d)'
    <3>1. Src(t) \in Sources /\ sync[t].loaded \in States
      BY <1>1 DEF Src, Syncing
    <3>2. \/ /\ sync[t].saving = "running" /\ k = Src(t) /\ d = Dir(t)
          \/ d \in sync[t].loaded[k] /\ ~(k = Src(t) /\ d = Dir(t))
      <4>1. CASE k = Src(t)
        <5>1. \/ /\ syncState'[k] = sync[t].loaded[k] \cup {Dir(t)}
                 /\ sync[t].saving = "running"
              \/ syncState'[k] = sync[t].loaded[k] \ {Dir(t)}
          BY <1>4, <3>1, <4>1 DEF DumpStatus, States
        <5> QED BY <2>6, <4>1, <5>1
      <4>2. CASE k # Src(t)
        <5>1. syncState'[k] = sync[t].loaded[k]
          BY <1>4, <3>1, <4>2 DEF DumpStatus, States
        <5> QED BY <2>6, <4>2, <5>1
      <4> QED BY <4>1, <4>2
    <3>3. CASE sync[t].saving = "running" /\ k = Src(t) /\ d = Dir(t)
      <4>1. AfterSave(t).step = "transfer" /\ AfterSave(t).left = sync[t].left
        BY <1>1, <3>3 DEF AfterSave, Syncing
      <4> QED BY <1>1, <1>3, <2>1, <3>3, <4>1 DEF Running, Src, Dir
    <3>4. CASE d \in sync[t].loaded[k] /\ ~(k = Src(t) /\ d = Dir(t))
      <4>1. Running(k, d) BY <2>5, <3>4 DEF Recorded
      <4>2. PICK u \in SyncThreads :
              /\ sync[u] # NoSync
              /\ sync[u].step \notin {"finish", "cleanup"}
              /\ sync[u].source = k /\ Dir(u) = d
        BY <4>1 DEF Running
      <4>3. u # t BY <3>4, <4>2 DEF Src
      <4> QED BY <1>2, <4>2, <4>3 DEF Running, Dir
    <3> QED BY <3>2, <3>3, <3>4
  <2> QED BY <2>4, <2>6 DEF SavedInv, Recorded
<1>5. CASE ~DumpStatus(t)
  <2>1. /\ sync[t].step \notin {"finish", "cleanup"}
        /\ sync'[t].step \notin {"finish", "cleanup"}
        /\ sync'[t].left = sync[t].left
    BY <1>1, <1>5
    DEF Between, LoadStatus, TruncateStatus, Copy, Conclude, EnterClone,
        GitCommand, LeaveClone, SyncTypeOK, Syncing
  <2>2. \A k, d : Running(k, d) => Running(k, d)'
    BY <1>1, <1>2, <1>3, <2>1, StillRunning
  <2>3. syncState' = syncState \/ syncState' = NoneRunning
    BY <1>5
    DEF Between, LoadStatus, TruncateStatus, Copy, EnterClone, GitCommand,
        LeaveClone
  <2>4. sync'[t].step \in {"truncate", "dump"}
          => \/ sync'[t].loaded = syncState
             \/ /\ sync[t].step \in {"truncate", "dump"}
                /\ sync'[t].loaded = sync[t].loaded
    BY <1>1, <1>5
    DEF Between, LoadStatus, TruncateStatus, Copy, Conclude, EnterClone,
        GitCommand, LeaveClone, SyncTypeOK, Syncing
  <2> QED BY <1>2, <1>3, <2>2, <2>3, <2>4, SavedUntouched
<1> QED BY <1>4, <1>5

(* A thread that begins or ends, and touches neither file nor directory.   *)
LEMMA IdleKeepsQuiet ==
  ASSUME CloneInv, SavedInv, NEW t \in SyncThreads,
         UNCHANGED <<workDir, syncState>>,
         \A u \in SyncThreads : u # t => sync'[u] = sync[u],
         sync[t] = NoSync \/ sync[t].step \in {"finish", "cleanup"},
         sync'[t] = NoSync \/ sync'[t].step \in {"load", "cleanup"},
         OnlyJob({"command", "leave"})', OnlyJob({"truncate", "dump"})'
  PROVE  CloneInv' /\ SavedInv'
<1>1. t \notin InClone /\ t \notin InClone' BY DEF InClone, SyncAt
<1>2. CloneInv' BY <1>1, CloneUntouched
<1>3. \A k, d : Running(k, d) => Running(k, d)' BY StillRunning
<1>4. SavedInv' BY <1>3, SavedUntouched
<1> QED BY <1>2, <1>4

(* Every step keeps this.                                                  *)
LEMMA QuietInvNext == ASSUME QuietInv, [SyncNext]_syncVars PROVE QuietInv'
<1>1. TableInv' BY TableInvNext DEF QuietInv
<1> SUFFICES ASSUME ~disturbed' PROVE CloneInv' /\ SavedInv'
  BY <1>1 DEF QuietInv
<1>2. SyncTypeOK /\ LeftsRemain BY DEF QuietInv, TableInv
<1>3. CASE /\ Acts /\ ~disturbed
           /\ disturbed' = (\/ Collision({"truncate", "dump"})
                            \/ Collision({"command", "leave"}))'
  <2>1. CloneInv /\ SavedInv BY <1>3 DEF QuietInv
  <2>2. ~Collision({"truncate", "dump"})' /\ ~Collision({"command", "leave"})'
    BY <1>3
  <2>3. OnlyJob({"truncate", "dump"})' /\ OnlyJob({"command", "leave"})'
    BY <2>2 DEF Collision, OnlyJob, SyncAt
  <2>4. PICK t \in SyncThreads :
          \/ Between(t) \/ Finish(t) \/ Cleanup(t)
          \/ \E k \in Sources :
               \/ PullInRequest(t, k)
               \/ \E direction \in Directions \cup {"both"} :
                    StartSync(t, k, direction)
    BY <1>3 DEF Acts
  <2>5. CASE Between(t)
    BY <1>2, <2>1, <2>3, <2>5, BetweenKeepsClone, BetweenKeepsSaved
  <2>6. CASE Finish(t) \/ Cleanup(t)
    <3>1. UNCHANGED <<workDir, syncState>>
      BY <2>6 DEF Finish, Cleanup
    <3>2. sync[t].step \in {"finish", "cleanup"}
      BY <2>6 DEF Finish, Cleanup, SyncAt
    <3>3. sync[t] \in Syncing
      BY <1>2, <2>6 DEF Finish, Cleanup, SyncAt, SyncTypeOK
    <3>4. /\ \A u \in SyncThreads : u # t => sync'[u] = sync[u]
          /\ sync'[t] = NoSync \/ sync'[t].step = "cleanup"
      BY <1>2, <2>6, <3>3
      DEF Finish, Cleanup, Concluded, SyncTypeOK, Syncing
    <3> QED BY <2>1, <2>3, <3>1, <3>2, <3>4, IdleKeepsQuiet
  <2>7. ASSUME NEW k \in Sources, PullInRequest(t, k)
        PROVE  CloneInv' /\ SavedInv'
    <3>1. UNCHANGED <<workDir, syncState>> /\ sync[t] = NoSync
      BY <2>7 DEF PullInRequest
    <3>2. /\ \A u \in SyncThreads : u # t => sync'[u] = sync[u]
          /\ sync'[t].step = "load"
      BY <1>2, <2>7 DEF PullInRequest, Began, SyncTypeOK
    <3> QED BY <2>1, <2>3, <3>1, <3>2, IdleKeepsQuiet
  <2>8. ASSUME NEW k \in Sources, NEW direction \in Directions \cup {"both"},
               StartSync(t, k, direction)
        PROVE  CloneInv' /\ SavedInv'
    <3>1. PICK x \in Syncing :
            /\ sync' = [sync EXCEPT ![t] = x]
            /\ x.source = k /\ x.left # <<>> /\ x.step = "load"
      BY <2>8, StartAdds
    <3>2. UNCHANGED <<workDir, syncState>> /\ sync[t] = NoSync
      BY <2>8 DEF StartSync, NewJob
    <3>3. /\ \A u \in SyncThreads : u # t => sync'[u] = sync[u]
          /\ sync'[t].step = "load"
      BY <1>2, <3>1 DEF SyncTypeOK
    <3> QED BY <2>1, <2>3, <3>2, <3>3, IdleKeepsQuiet
  <2> QED BY <2>4, <2>5, <2>6, <2>7, <2>8
<1>4. CASE SyncRestart
  <2>1. ~disturbed /\ \A k \in Sources : Working(k) = {}
    BY <1>4 DEF SyncRestart
  <2>2. \A t \in SyncThreads :
          sync[t] # NoSync => sync[t].step = "cleanup"
    <3>1. \A t \in SyncThreads : sync[t] # NoSync => sync[t].source \in Sources
      BY <1>2 DEF SyncTypeOK, Syncing
    <3> QED BY <2>1, <3>1 DEF Working
  <2>3. \A k, d : ~Running(k, d) BY <2>2 DEF Running
  <2>4. SavedInv BY <2>1 DEF QuietInv
  <2>5. \A t \in SyncThreads : sync'[t] = NoSync BY <1>4 DEF SyncRestart
  <2>6. UNCHANGED syncState /\ workDir' = "server" BY <1>4 DEF SyncRestart
  <2>7. CloneInv' BY <2>5, <2>6 DEF CloneInv, OnlyJob, InClone, SyncAt
  <2>8. SavedInv'
    BY <2>3, <2>4, <2>5, <2>6 DEF SavedInv, OnlyJob, Recorded
  <2> QED BY <2>7, <2>8
<1>5. CASE UNCHANGED syncVars
  <2>1. CloneInv /\ SavedInv BY <1>5 DEF QuietInv, syncVars
  <2>2. CloneInv' BY <1>5, <2>1
    DEF syncVars, CloneInv, OnlyJob, InClone, SyncAt, Src
  <2>3. SavedInv' BY <1>5, <2>1
    DEF syncVars, SavedInv, OnlyJob, Recorded, Running, Dir
  <2> QED BY <2>2, <2>3
<1> QED BY <1>3, <1>4, <1>5, NextActs

(* While no two syncs have collided, the working directory and the saved   *)
(* state are as claimed, for any number of threads.                        *)
THEOREM QuietInvariant == SyncSpec => []QuietInv
<1>1. SyncInit => QuietInv BY QuietInvInit
<1>2. QuietInv /\ [SyncNext]_syncVars => QuietInv' BY QuietInvNext
<1> QED BY <1>1, <1>2, PTL DEF SyncSpec

(* Undisturbed, the status file says running for no source without a sync, *)
(* however syncs that fail or go on with the other direction save it.      *)
THEOREM SyncConcluded == SyncSpec => []StatusConcluded
<1>1. QuietInv => StatusConcluded
  <2> SUFFICES ASSUME QuietInv, ~disturbed, NEW k \in Sources,
                      Working(k) = {}
               PROVE  syncState[k] = {}
    BY DEF StatusConcluded
  <2>1. \A d : ~Running(k, d) BY DEF Running, Working
  <2>2. \A d \in syncState[k] : Running(k, d)
    BY DEF QuietInv, SavedInv, Recorded
  <2> QED BY <2>1, <2>2
<1> QED BY <1>1, QuietInvariant, PTL

(* Undisturbed, the process is in the clone of the sync that runs git, and *)
(* in its own directory when none does.                                    *)
THEOREM SyncWorkDir == SyncSpec => []WorkDirFollowsSync
<1>1. QuietInv => WorkDirFollowsSync
  BY DEF QuietInv, CloneInv, WorkDirFollowsSync
<1> QED BY <1>1, QuietInvariant, PTL

-----------------------------------------------------------------------------
(***************************************************************************)
(* The project configuration.                                              *)
(***************************************************************************)

(* A configuration says what the administrator was told, but for the part  *)
(* that is being edited.                                                   *)
Agrees(config, edited) ==
  /\ edited # "sources" => config.sources = told.sources
  /\ edited # "autosync" => config.autosync.enabled = told.enabled

FileAgrees ==
  /\ configFile # TornConfig => Agrees(configFile, "nothing")
  /\ configFile = TornConfig =>
       \/ autosyncer.step = "write"
       \/ \E p \in ConfigThreads : requests[p].step = "write"

RequestsAgree ==
  \A p \in ConfigThreads :
    requests[p] # Quiet => Agrees(requests[p].copy, requests[p].what)

(* The scheduler begins and starts what was enabled and still is.          *)
Pursuing ==
  \/ autosyncer.step \in {"begin", "starting"}
  \/ autosyncer.step \in {"truncate", "write"} /\ autosyncer.then = "starting"
AutosyncerAgrees ==
  /\ autosyncer.step \in {"truncate", "write"} =>
       Agrees(autosyncer.copy, "nothing")
  /\ Pursuing => autosyncer.auto.enabled /\ told.enabled
  /\ autosyncer.step = "end" =>
       autosyncer.then = "asleep" /\ autosyncer.auto.enabled = told.enabled

Kept == FileAgrees /\ RequestsAgree /\ AutosyncerAgrees
EditsInv == ConfigTypeOK /\ (~overlapped => ~Undoing /\ Kept)

-----------------------------------------------------------------------------
(* What tells the values apart.                                            *)
LEMMA StepsApart ==
  /\ TornConfig \notin Config
  /\ Quiet \notin Handler
  /\ Quiet.step = "none"
  BY DEF TornConfig, Config, Quiet, Handler

(* What a handler loads is a configuration.                                *)
LEMMA LoadedFacts ==
  ASSUME ConfigTypeOK
  PROVE  /\ Loaded \in Config
         /\ configFile # TornConfig => Loaded = configFile
         /\ Loaded.autosync.enabled => configFile # TornConfig
<1>1. [autosync |-> NoAutosync, sources |-> 0] \in Config
  BY MaxEditsAssumption DEF Config, NoAutosync, Autosync
<1> QED BY <1>1 DEF ConfigTypeOK, Loaded, NoAutosync

(* A scheduler that sleeps is one.                                         *)
LEMMA AsleepTyped == Asleep \in Autosyncer /\ Asleep.step = "asleep"
  BY MaxEditsAssumption
  DEF Asleep, Autosyncer, Config, NoAutosync, Autosync

(* Time that passes changes nothing but the time left.                     *)
LEMMA ElapsedFacts ==
  ASSUME NEW auto \in Autosync
  PROVE  Elapsed(auto) \in Autosync /\ Elapsed(auto).enabled = auto.enabled
  BY DEF Elapsed, Autosync

(* The same, within a configuration.                                       *)
LEMMA ElapsedConfig ==
  ASSUME NEW config \in Config
  PROVE  /\ [config EXCEPT !.autosync = Elapsed(@)] \in Config
         /\ [config EXCEPT !.autosync = Elapsed(@)].sources = config.sources
         /\ [config EXCEPT !.autosync = Elapsed(@)].autosync.enabled
              = config.autosync.enabled
<1>1. config.autosync \in Autosync BY DEF Config
<1>2. /\ Elapsed(config.autosync) \in Autosync
      /\ Elapsed(config.autosync).enabled = config.autosync.enabled
  BY <1>1, ElapsedFacts
<1> HIDE DEF Elapsed
<1> QED BY <1>2 DEF Config

(* Nothing has been edited at the start.                                   *)
LEMMA EditsInvInit == ASSUME ConfigInit PROVE EditsInv
<1>1. configFile \in Config
  BY MaxEditsAssumption DEF ConfigInit, Config, NoAutosync, Autosync
<1>2. ConfigTypeOK
  <2>1. 0 \in 0..MaxEdits BY MaxEditsAssumption
  <2> QED BY <1>1, <2>1, AsleepTyped DEF ConfigInit, ConfigTypeOK
<1>3. ~Undoing BY DEF ConfigInit, Undoing, Holding
<1>4. FileAgrees
  BY <1>1, StepsApart DEF ConfigInit, FileAgrees, Agrees, NoAutosync
<1>5. RequestsAgree BY DEF ConfigInit, RequestsAgree
<1>6. AutosyncerAgrees
  BY AsleepTyped DEF ConfigInit, AutosyncerAgrees, Pursuing
<1> QED BY <1>2, <1>3, <1>4, <1>5, <1>6 DEF EditsInv, Kept

-----------------------------------------------------------------------------
(* The scheduler.                                                          *)
LEMMA CheckKeeps ==
  ASSUME ConfigTypeOK, ~Undoing, Kept, Check
  PROVE  autosyncer' \in Autosyncer /\ Kept'
<1> DEFINE read == Loaded.autosync
           first == [Loaded EXCEPT !.autosync.next = "future"]
           begun == [read EXCEPT !.next = "future", !.lastStatus = "running"]
<1>1. /\ Loaded \in Config /\ Loaded = configFile
      /\ configFile # TornConfig /\ read.enabled
  BY LoadedFacts DEF Check
<1>2. /\ first \in Config /\ first.sources = configFile.sources
      /\ first.autosync.enabled = configFile.autosync.enabled
  BY <1>1 DEF Config, Autosync
<1>3. begun \in Autosync /\ begun.enabled = read.enabled
  BY <1>1 DEF Config, Autosync
<1>4. Agrees(configFile, "nothing") BY <1>1 DEF Kept, FileAgrees
<1>5. UNCHANGED <<configFile, requests, told>>
  BY DEF Check, administration
<1>6. FileAgrees' /\ RequestsAgree'
  BY <1>1, <1>5 DEF Kept, FileAgrees, RequestsAgree, Agrees
<1>7. CASE autosyncer' = [Asleep EXCEPT !.step = "truncate", !.copy = first]
  <2>1. /\ autosyncer' \in Autosyncer /\ autosyncer'.step = "truncate"
        /\ autosyncer'.copy = first /\ autosyncer'.then = "asleep"
    BY <1>2, <1>7, AsleepTyped DEF Autosyncer, Asleep
  <2>2. AutosyncerAgrees'
    BY <1>2, <1>4, <1>5, <2>1 DEF AutosyncerAgrees, Pursuing, Agrees
  <2> QED BY <1>6, <2>1, <2>2 DEF Kept
<1>8. CASE autosyncer' = [Asleep EXCEPT !.step = "begin", !.then = "starting",
                                        !.auto = begun]
  <2>1. /\ autosyncer' \in Autosyncer /\ autosyncer'.step = "begin"
        /\ autosyncer'.auto = begun
    BY <1>3, <1>8, AsleepTyped DEF Autosyncer, Asleep
  <2>2. AutosyncerAgrees'
    BY <1>1, <1>3, <1>4, <1>5, <2>1 DEF AutosyncerAgrees, Pursuing, Agrees
  <2> QED BY <1>6, <2>1, <2>2 DEF Kept
<1>9. CASE autosyncer' = Asleep
  BY <1>6, <1>9, AsleepTyped DEF Kept, AutosyncerAgrees, Pursuing
<1>10. \/ autosyncer' = [Asleep EXCEPT !.step = "truncate", !.copy = first]
       \/ autosyncer' = [Asleep EXCEPT !.step = "begin", !.then = "starting",
                                       !.auto = begun]
       \/ autosyncer' = Asleep
  BY DEF Check
<1> QED BY <1>7, <1>8, <1>9, <1>10

(* Its copy is put back into a file that nobody is writing: who is, would  *)
(* undo it.                                                                *)
LEMMA PutBackKeeps ==
  ASSUME ConfigTypeOK, ~Undoing, Kept, PutBack
  PROVE  autosyncer' \in Autosyncer /\ (~Undoing' => Kept')
<1> DEFINE copy == [Loaded EXCEPT !.autosync = autosyncer.auto]
<1>1. autosyncer \in Autosyncer /\ autosyncer.step \in {"begin", "end"}
  BY DEF PutBack, ConfigTypeOK
<1>2. copy \in Config /\ copy.sources = Loaded.sources
      /\ copy.autosync = autosyncer.auto
  BY <1>1, LoadedFacts DEF Config, Autosyncer
<1>3. /\ autosyncer' \in Autosyncer /\ autosyncer'.step = "truncate"
      /\ autosyncer'.copy = copy /\ autosyncer'.then = autosyncer.then
      /\ autosyncer'.auto = autosyncer.auto
  BY <1>1, <1>2 DEF PutBack, Autosyncer
<1>4. UNCHANGED <<configFile, requests, told>>
  BY DEF PutBack, administration
<1>5. ASSUME ~Undoing' PROVE Kept'
  <2>1. \A p \in ConfigThreads : requests[p] = Quiet
    BY <1>3, <1>4, <1>5 DEF Undoing, Holding
  <2>2. configFile # TornConfig
    BY <1>1, <2>1, StepsApart DEF Kept, FileAgrees
  <2>3. Agrees(configFile, "nothing") /\ Loaded = configFile
    BY <2>2, LoadedFacts DEF Kept, FileAgrees
  <2>4. autosyncer.auto.enabled = told.enabled
    <3>1. autosyncer.auto.enabled \in BOOLEAN /\ told.enabled \in BOOLEAN
      BY <1>1 DEF ConfigTypeOK, Autosyncer, Autosync
    <3> QED BY <1>1, <3>1 DEF Kept, AutosyncerAgrees, Pursuing
  <2>5. Agrees(autosyncer.copy, "nothing")'
    BY <1>2, <1>3, <1>4, <2>3, <2>4 DEF Agrees
  <2>6. Pursuing' => autosyncer.auto.enabled /\ told.enabled
    <3>1. CASE autosyncer.step = "begin"
      BY <3>1 DEF Kept, AutosyncerAgrees, Pursuing
    <3>2. CASE autosyncer.step = "end"
      BY <1>3, <3>2 DEF Kept, AutosyncerAgrees, Pursuing
    <3> QED BY <1>1, <3>1, <3>2
  <2>7. AutosyncerAgrees'
    BY <1>3, <1>4, <2>5, <2>6 DEF AutosyncerAgrees
  <2> QED BY <1>4, <2>2, <2>3, <2>7
    DEF Kept, FileAgrees, RequestsAgree, Agrees
<1> QED BY <1>3, <1>5

LEMMA AutosyncTruncateKeeps ==
  ASSUME ConfigTypeOK, ~Undoing, Kept, AutosyncTruncate
  PROVE  autosyncer' \in Autosyncer /\ Kept'
<1>1. autosyncer \in Autosyncer /\ autosyncer.step = "truncate"
  BY DEF AutosyncTruncate, ConfigTypeOK
<1>2. /\ autosyncer' \in Autosyncer /\ autosyncer'.step = "write"
      /\ autosyncer'.copy = autosyncer.copy
      /\ autosyncer'.then = autosyncer.then
      /\ autosyncer'.auto = autosyncer.auto
  BY <1>1 DEF AutosyncTruncate, Autosyncer
<1>3. UNCHANGED <<requests, told>> /\ configFile' = TornConfig
  BY DEF AutosyncTruncate, administration
<1>4. FileAgrees' /\ RequestsAgree'
  BY <1>2, <1>3 DEF Kept, FileAgrees, RequestsAgree, Agrees
<1>5. AutosyncerAgrees'
  BY <1>1, <1>2, <1>3 DEF Kept, AutosyncerAgrees, Pursuing, Agrees
<1> QED BY <1>2, <1>4, <1>5 DEF Kept

LEMMA AutosyncWriteKeeps ==
  ASSUME ConfigTypeOK, ~Undoing, Kept, AutosyncWrite
  PROVE  /\ autosyncer' \in Autosyncer
         /\ configFile' \in Config
         /\ Kept'
<1>1. autosyncer \in Autosyncer /\ autosyncer.step = "write"
  BY DEF AutosyncWrite, ConfigTypeOK
<1>2. /\ UNCHANGED <<requests, told>>
      /\ configFile' = autosyncer.copy /\ configFile' \in Config
  BY <1>1 DEF AutosyncWrite, administration, Autosyncer
<1>3. Agrees(autosyncer.copy, "nothing")
  BY <1>1 DEF Kept, AutosyncerAgrees
<1>4. FileAgrees' /\ RequestsAgree'
  BY <1>2, <1>3, StepsApart DEF Kept, FileAgrees, RequestsAgree, Agrees
<1>5. CASE autosyncer.then = "asleep"
  <2>1. autosyncer' = Asleep BY <1>5 DEF AutosyncWrite
  <2>2. AutosyncerAgrees' BY <2>1, AsleepTyped DEF AutosyncerAgrees, Pursuing
  <2> QED BY <1>2, <1>4, <2>1, <2>2, AsleepTyped DEF Kept
<1>6. CASE autosyncer.then # "asleep"
  <2>1. autosyncer.then = "starting" BY <1>1, <1>6 DEF Autosyncer
  <2>2. /\ autosyncer' \in Autosyncer /\ autosyncer'.step = "starting"
        /\ autosyncer'.auto = autosyncer.auto
    BY <1>1, <1>6 DEF AutosyncWrite, Autosyncer
  <2>3. AutosyncerAgrees'
    BY <1>1, <1>2, <2>1, <2>2 DEF Kept, AutosyncerAgrees, Pursuing
  <2> QED BY <1>2, <1>4, <2>2, <2>3 DEF Kept
<1> QED BY <1>5, <1>6

LEMMA StartSyncsKeeps ==
  ASSUME ConfigTypeOK, ~Undoing, Kept, StartSyncs
  PROVE  autosyncer' \in Autosyncer /\ Kept'
<1>1. autosyncer \in Autosyncer /\ autosyncer.step = "starting"
  BY DEF StartSyncs, ConfigTypeOK
<1>2. PICK status \in {"ok", "failed"} :
        autosyncer' = [autosyncer EXCEPT !.step = "end", !.then = "asleep",
                                         !.auto.lastStatus = status]
  BY DEF StartSyncs
<1>3. /\ autosyncer' \in Autosyncer /\ autosyncer'.step = "end"
      /\ autosyncer'.then = "asleep"
      /\ autosyncer'.auto.enabled = autosyncer.auto.enabled
  BY <1>1, <1>2 DEF Autosyncer, Autosync
<1>4. UNCHANGED <<configFile, requests, told>>
  BY DEF StartSyncs, administration
<1>5. autosyncer.auto.enabled = told.enabled
  <2>1. autosyncer.auto.enabled \in BOOLEAN /\ told.enabled \in BOOLEAN
    BY <1>1 DEF ConfigTypeOK, Autosyncer, Autosync
  <2> QED BY <1>1, <2>1 DEF Kept, AutosyncerAgrees, Pursuing
<1>6. FileAgrees' /\ RequestsAgree'
  BY <1>1, <1>4 DEF Kept, FileAgrees, RequestsAgree, Agrees
<1>7. AutosyncerAgrees'
  BY <1>3, <1>4, <1>5 DEF AutosyncerAgrees, Pursuing
<1> QED BY <1>3, <1>6, <1>7 DEF Kept

-----------------------------------------------------------------------------
(* The requests.  One that comes while the file is torn overlaps with the  *)
(* writer that has torn it.                                                *)
LEMMA ReceiveKeeps ==
  ASSUME ConfigTypeOK, ~Undoing, Kept, NEW p \in ConfigThreads,
         NEW step \in {"pull", "truncate"}, NEW copy \in Config,
         NEW what \in {"sources", "autosync", "time"},
         Receive(p, step, copy, what),
         what # "sources" => copy.sources = Loaded.sources,
         what # "autosync" => copy.autosync.enabled = Loaded.autosync.enabled
  PROVE  /\ requests' \in [ConfigThreads -> Handler \cup {Quiet}]
         /\ ~Undoing' => Kept'
<1> DEFINE x == [step |-> step, copy |-> copy, what |-> what]
<1>1. x \in Handler /\ x # Quiet
  <2>1. x \in Handler BY DEF Handler
  <2> QED BY <2>1, StepsApart
<1>2. /\ requests[p] = Quiet /\ requests' = [requests EXCEPT ![p] = x]
      /\ UNCHANGED <<configFile, autosyncer, told>>
  BY DEF Receive
<1> HIDE DEF x
<1>3. requests' \in [ConfigThreads -> Handler \cup {Quiet}]
  BY <1>1, <1>2 DEF ConfigTypeOK
<1>4. /\ requests'[p] = x
      /\ \A q \in ConfigThreads : q # p => requests'[q] = requests[q]
  BY <1>2 DEF ConfigTypeOK
<1>5. ASSUME ~Undoing' PROVE Kept'
  <2>1. \A q \in ConfigThreads : q # p => requests[q] = Quiet
    BY <1>1, <1>4, <1>5 DEF Undoing, Holding
  <2>2. autosyncer.step # "write"
    BY <1>1, <1>2, <1>4, <1>5 DEF Undoing, Holding
  <2>3. configFile # TornConfig
    BY <1>2, <2>1, <2>2, StepsApart DEF Kept, FileAgrees
  <2>4. Agrees(Loaded, "nothing")
    BY <2>3, LoadedFacts DEF Kept, FileAgrees
  <2>5. Agrees(copy, what) BY <2>4 DEF Agrees
  <2>6. x.copy = copy /\ x.what = what BY DEF x
  <2>7. RequestsAgree'
    BY <1>2, <1>4, <2>1, <2>5, <2>6 DEF RequestsAgree, Agrees
  <2>8. FileAgrees' /\ AutosyncerAgrees'
    BY <1>2, <2>3
    DEF Kept, FileAgrees, AutosyncerAgrees, Pursuing, Agrees
  <2> QED BY <2>7, <2>8 DEF Kept
<1> QED BY <1>3, <1>5

LEMMA PulledKeeps ==
  ASSUME ConfigTypeOK, ~Undoing, Kept, NEW p \in ConfigThreads, Pulled(p)
  PROVE  /\ requests' \in [ConfigThreads -> Handler \cup {Quiet}]
         /\ Kept'
<1>1. requests[p] \in Handler /\ requests[p] # Quiet
  BY StepsApart DEF Pulled, ConfigTypeOK
<1>2. UNCHANGED <<configFile, autosyncer, told>>
  BY DEF Pulled, administration
<1>3. /\ requests' \in [ConfigThreads -> Handler \cup {Quiet}]
      /\ \A q \in ConfigThreads : q # p => requests'[q] = requests[q]
      /\ \/ requests'[p] = Quiet
         \/ /\ requests'[p].copy = requests[p].copy
            /\ requests'[p].what = requests[p].what
  <2>1. CASE requests' = [requests EXCEPT ![p] = Quiet]
    BY <2>1 DEF ConfigTypeOK
  <2>2. CASE requests' = [requests EXCEPT ![p].step = "truncate"]
    BY <1>1, <2>2 DEF ConfigTypeOK, Handler
  <2> QED BY <2>1, <2>2 DEF Pulled
<1>4. requests[p].step = "pull" BY DEF Pulled
<1>5. RequestsAgree' BY <1>1, <1>2, <1>3 DEF Kept, RequestsAgree, Agrees
<1>6. FileAgrees'
  <2>1. ASSUME NEW q \in ConfigThreads, requests[q].step = "write"
        PROVE  requests'[q].step = "write"
    BY <1>3, <1>4, <2>1
  <2> QED BY <1>2, <2>1 DEF Kept, FileAgrees, Agrees
<1>7. AutosyncerAgrees'
  BY <1>2 DEF Kept, AutosyncerAgrees, Pursuing, Agrees
<1> QED BY <1>3, <1>5, <1>6, <1>7 DEF Kept

LEMMA TruncateConfigKeeps ==
  ASSUME ConfigTypeOK, ~Undoing, Kept, NEW p \in ConfigThreads,
         TruncateConfig(p)
  PROVE  /\ requests' \in [ConfigThreads -> Handler \cup {Quiet}]
         /\ Kept'
<1>1. requests[p] \in Handler /\ requests[p] # Quiet
  BY StepsApart DEF TruncateConfig, ConfigTypeOK
<1>2. UNCHANGED <<autosyncer, told>> /\ configFile' = TornConfig
  BY DEF TruncateConfig, administration
<1>3. /\ requests' \in [ConfigThreads -> Handler \cup {Quiet}]
      /\ \A q \in ConfigThreads : q # p => requests'[q] = requests[q]
      /\ requests'[p].copy = requests[p].copy
      /\ requests'[p].what = requests[p].what
      /\ requests'[p].step = "write"
  BY <1>1 DEF TruncateConfig, ConfigTypeOK, Handler
<1>4. RequestsAgree' BY <1>1, <1>2, <1>3 DEF Kept, RequestsAgree, Agrees
<1>5. FileAgrees' BY <1>2, <1>3 DEF FileAgrees
<1>6. AutosyncerAgrees'
  BY <1>2 DEF Kept, AutosyncerAgrees, Pursuing, Agrees
<1> QED BY <1>3, <1>4, <1>5, <1>6 DEF Kept

(* What is written becomes what the administrator is told.                 *)
LEMMA WriteConfigKeeps ==
  ASSUME ConfigTypeOK, ~Undoing, Kept, NEW p \in ConfigThreads,
         WriteConfig(p)
  PROVE  /\ requests' \in [ConfigThreads -> Handler \cup {Quiet}]
         /\ configFile' \in Config
         /\ told' \in [enabled : BOOLEAN, sources : 0..MaxEdits]
         /\ Kept'
<1> DEFINE copy == requests[p].copy
           what == requests[p].what
<1>1. /\ requests[p] \in Handler /\ requests[p] # Quiet
      /\ requests[p].step = "write"
  BY StepsApart DEF WriteConfig, ConfigTypeOK
<1>2. /\ copy \in Config /\ what \in {"sources", "autosync", "time"}
      /\ copy.autosync.enabled \in BOOLEAN /\ copy.sources \in 0..MaxEdits
  BY <1>1 DEF Handler, Config, Autosync
<1>3. configFile' = copy /\ UNCHANGED autosyncer BY DEF WriteConfig
<1>4. /\ requests' \in [ConfigThreads -> Handler \cup {Quiet}]
      /\ requests'[p] = Quiet
      /\ \A q \in ConfigThreads : q # p => requests'[q] = requests[q]
  BY DEF WriteConfig, ConfigTypeOK
<1>5. \A q \in ConfigThreads : q # p => requests[q] = Quiet
  BY <1>1 DEF Undoing, Holding
<1>6. autosyncer.step \notin {"truncate", "write"}
  BY <1>1 DEF Undoing, Holding
<1>7. what # "sources" => autosyncer.step = "asleep"
  BY <1>1 DEF Undoing, Holding
<1>8. Agrees(copy, what) BY <1>1 DEF Kept, RequestsAgree
<1>9. /\ told' \in [enabled : BOOLEAN, sources : 0..MaxEdits]
      /\ told'.sources = copy.sources
      /\ told'.enabled = copy.autosync.enabled
      /\ what = "sources" => told'.enabled = told.enabled
  <2>1. told \in [enabled : BOOLEAN, sources : 0..MaxEdits]
    BY DEF ConfigTypeOK
  <2>2. CASE what = "sources"
    <3>1. told' = [told EXCEPT !.sources = copy.sources]
      BY <1>3, <2>2 DEF WriteConfig
    <3> QED BY <1>2, <1>8, <2>1, <2>2, <3>1 DEF Agrees
  <2>3. CASE what = "autosync"
    <3>1. told' = [told EXCEPT !.enabled = copy.autosync.enabled]
      BY <1>3, <2>3 DEF WriteConfig
    <3> QED BY <1>2, <1>8, <2>1, <2>3, <3>1 DEF Agrees
  <2>4. CASE what = "time"
    <3>1. told' = told BY <2>4 DEF WriteConfig
    <3> QED BY <1>8, <2>1, <2>4, <3>1 DEF Agrees
  <2> QED BY <1>2, <2>2, <2>3, <2>4
<1>10. FileAgrees' BY <1>2, <1>3, <1>9, StepsApart DEF FileAgrees, Agrees
<1>11. RequestsAgree' BY <1>4, <1>5 DEF RequestsAgree
<1>12. AutosyncerAgrees'
  <2>1. CASE what = "sources"
    BY <1>3, <1>6, <1>9, <2>1 DEF Kept, AutosyncerAgrees, Pursuing
  <2>2. CASE what # "sources"
    BY <1>3, <1>7, <2>2 DEF AutosyncerAgrees, Pursuing
  <2> QED BY <2>1, <2>2
<1> QED BY <1>2, <1>3, <1>4, <1>9, <1>10, <1>11, <1>12 DEF Kept

-----------------------------------------------------------------------------
(* Time changes no copy but for its time.                                  *)
LEMMA IntervalKeeps ==
  ASSUME ConfigTypeOK, ~Undoing, Kept, IntervalPasses
  PROVE  /\ configFile' \in Config \cup {TornConfig}
         /\ autosyncer' \in Autosyncer
         /\ requests' \in [ConfigThreads -> Handler \cup {Quiet}]
         /\ Kept'
<1>1. UNCHANGED told BY DEF IntervalPasses, administration
<1>2. autosyncer \in Autosyncer BY DEF ConfigTypeOK
<1>3. /\ configFile' \in Config \cup {TornConfig}
      /\ configFile' = TornConfig <=> configFile = TornConfig
      /\ configFile # TornConfig =>
           /\ configFile'.sources = configFile.sources
           /\ configFile'.autosync.enabled = configFile.autosync.enabled
  <2>1. CASE configFile = TornConfig BY <2>1 DEF IntervalPasses
  <2>2. CASE configFile # TornConfig
    <3>1. /\ configFile \in Config
          /\ configFile' = [configFile EXCEPT !.autosync = Elapsed(@)]
      BY <2>2 DEF IntervalPasses, ConfigTypeOK
    <3>2. /\ configFile' \in Config
          /\ configFile'.sources = configFile.sources
          /\ configFile'.autosync.enabled = configFile.autosync.enabled
      BY <3>1, ElapsedConfig
    <3> QED BY <2>2, <3>2, StepsApart
  <2> QED BY <2>1, <2>2
<1>4. /\ autosyncer' \in Autosyncer
      /\ autosyncer'.step = autosyncer.step
      /\ autosyncer'.then = autosyncer.then
      /\ autosyncer'.auto.enabled = autosyncer.auto.enabled
      /\ autosyncer'.copy.sources = autosyncer.copy.sources
      /\ autosyncer'.copy.autosync.enabled = autosyncer.copy.autosync.enabled
  <2> DEFINE auto == Elapsed(autosyncer.auto)
             part == Elapsed(autosyncer.copy.autosync)
  <2>1. /\ auto \in Autosync /\ auto.enabled = autosyncer.auto.enabled
        /\ part \in Autosync
        /\ part.enabled = autosyncer.copy.autosync.enabled
    BY <1>2, ElapsedFacts DEF Autosyncer, Config
  <2>2. autosyncer' =
          [autosyncer EXCEPT !.auto = auto, !.copy.autosync = part]
    BY DEF IntervalPasses
  <2> HIDE DEF auto, part
  <2> QED BY <1>2, <2>1, <2>2 DEF Autosyncer, Config
<1>5. ASSUME NEW p \in ConfigThreads
      PROVE  /\ requests'[p] \in Handler \cup {Quiet}
             /\ requests'[p] = Quiet <=> requests[p] = Quiet
             /\ requests'[p].step = requests[p].step
             /\ requests[p] # Quiet =>
                  /\ requests'[p].what = requests[p].what
                  /\ requests'[p].copy.sources = requests[p].copy.sources
                  /\ requests'[p].copy.autosync.enabled
                       = requests[p].copy.autosync.enabled
  <2>1. CASE requests[p] = Quiet BY <2>1 DEF IntervalPasses
  <2>2. CASE requests[p] # Quiet
    <3> DEFINE part == Elapsed(requests[p].copy.autosync)
    <3>1. requests[p] \in Handler BY <2>2 DEF ConfigTypeOK
    <3>2. /\ part \in Autosync
          /\ part.enabled = requests[p].copy.autosync.enabled
      BY <3>1, ElapsedFacts DEF Handler, Config
    <3>3. requests'[p] = [requests[p] EXCEPT !.copy.autosync = part]
      BY <2>2 DEF IntervalPasses
    <3> HIDE DEF part
    <3>4. /\ requests'[p] \in Handler
          /\ requests'[p].step = requests[p].step
          /\ requests'[p].what = requests[p].what
          /\ requests'[p].copy.sources = requests[p].copy.sources
          /\ requests'[p].copy.autosync.enabled
               = requests[p].copy.autosync.enabled
      BY <3>1, <3>2, <3>3 DEF Handler, Config
    <3> QED BY <2>2, <3>4, StepsApart
  <2> QED BY <2>1, <2>2
<1>6. requests' \in [ConfigThreads -> Handler \cup {Quiet}]
  BY <1>5 DEF IntervalPasses
<1>7. FileAgrees'
  BY <1>1, <1>3, <1>4, <1>5 DEF Kept, FileAgrees, Agrees
<1>8. RequestsAgree'
  BY <1>1, <1>5 DEF Kept, RequestsAgree, Agrees
<1>9. AutosyncerAgrees'
  BY <1>1, <1>4 DEF Kept, AutosyncerAgrees, Pursuing, Agrees
<1> QED BY <1>3, <1>4, <1>6, <1>7, <1>8, <1>9 DEF Kept

LEMMA ConfigRestartKeeps ==
  ASSUME ConfigTypeOK, ~Undoing, Kept, ConfigRestart
  PROVE  /\ autosyncer' \in Autosyncer
         /\ requests' \in [ConfigThreads -> Handler \cup {Quiet}]
         /\ Kept'
<1>1. /\ autosyncer' = Asleep /\ requests' = [p \in ConfigThreads |-> Quiet]
      /\ configFile # TornConfig /\ UNCHANGED <<configFile, told>>
  BY DEF ConfigRestart
<1>2. FileAgrees' BY <1>1 DEF Kept, FileAgrees, Agrees
<1>3. RequestsAgree' BY <1>1 DEF RequestsAgree
<1>4. AutosyncerAgrees' BY <1>1, AsleepTyped DEF AutosyncerAgrees, Pursuing
<1> QED BY <1>1, <1>2, <1>3, <1>4, AsleepTyped DEF Kept

-----------------------------------------------------------------------------
(* One more edit is still within the bound.                                *)
LEMMA OneMore ==
  ASSUME ConfigTypeOK, edits < MaxEdits
  PROVE  edits + 1 \in 0..MaxEdits
  BY MaxEditsAssumption DEF ConfigTypeOK

LEMMA EditsKeep ==
  ASSUME ConfigTypeOK, ~Undoing, Kept, NEW p \in ConfigThreads,
         EditSources(p) \/ EditAutosync(p) \/ PullByRequest(p)
  PROVE  /\ requests' \in [ConfigThreads -> Handler \cup {Quiet}]
         /\ edits' \in 0..MaxEdits
         /\ UNCHANGED <<configFile, autosyncer, told>>
         /\ ~Undoing' => Kept'
<1>1. Loaded \in Config BY LoadedFacts
<1>2. CASE EditSources(p)
  <2> DEFINE copy == [Loaded EXCEPT !.sources = edits + 1]
  <2>1. edits + 1 \in 0..MaxEdits BY <1>2, OneMore DEF EditSources
  <2>2. copy \in Config /\ copy.autosync = Loaded.autosync
    BY <1>1, <2>1 DEF Config
  <2>3. Receive(p, "truncate", copy, "sources") BY <1>2 DEF EditSources
  <2>4. /\ requests' \in [ConfigThreads -> Handler \cup {Quiet}]
        /\ ~Undoing' => Kept'
    <3> HIDE DEF copy
    <3> QED BY <2>2, <2>3, ReceiveKeeps
  <2> QED BY <1>2, <2>1, <2>4 DEF EditSources, Receive
<1>3. CASE EditAutosync(p)
  <2>1. edits + 1 \in 0..MaxEdits BY <1>3, OneMore DEF EditAutosync
  <2>2. PICK on \in BOOLEAN, keys \in BOOLEAN :
          Receive(p, "truncate",
            [Loaded EXCEPT !.autosync.enabled = on,
                           !.autosync.keys = keys,
                           !.autosync.next = Rescheduled(on)],
            "autosync")
    BY <1>3 DEF EditAutosync
  <2> DEFINE copy == [Loaded EXCEPT !.autosync.enabled = on,
                                    !.autosync.keys = keys,
                                    !.autosync.next = Rescheduled(on)]
  <2>3. copy \in Config /\ copy.sources = Loaded.sources
    BY <1>1 DEF Config, Autosync, Rescheduled
  <2>4. Receive(p, "truncate", copy, "autosync") BY <2>2
  <2>5. /\ requests' \in [ConfigThreads -> Handler \cup {Quiet}]
        /\ ~Undoing' => Kept'
    <3> HIDE DEF copy
    <3> QED BY <2>3, <2>4, ReceiveKeeps
  <2> QED BY <1>3, <2>1, <2>5, <2>4 DEF EditAutosync, Receive
<1>4. CASE PullByRequest(p)
  <2>1. Receive(p, "pull", Loaded, "time") /\ UNCHANGED edits
    BY <1>4 DEF PullByRequest
  <2>2. /\ requests' \in [ConfigThreads -> Handler \cup {Quiet}]
        /\ ~Undoing' => Kept'
    BY <1>1, <2>1, ReceiveKeeps
  <2> QED BY <2>1, <2>2 DEF Receive, ConfigTypeOK
<1> QED BY <1>2, <1>3, <1>4

(* Every step keeps what was told.                                         *)
LEMMA EditsInvNext == ASSUME EditsInv, [ConfigNext]_configVars PROVE EditsInv'
<1> DEFINE Step ==
      /\ configFile' \in Config \cup {TornConfig}
      /\ autosyncer' \in Autosyncer
      /\ requests' \in [ConfigThreads -> Handler \cup {Quiet}]
      /\ told' \in [enabled : BOOLEAN, sources : 0..MaxEdits]
      /\ edits' \in 0..MaxEdits
      /\ ~Undoing' => Kept'
<1>1. ConfigTypeOK BY DEF EditsInv
<1>2. CASE UNCHANGED configVars
  <2>1. ConfigTypeOK' BY <1>1, <1>2 DEF ConfigTypeOK, configVars
  <2>2. ~overlapped' => ~Undoing' /\ Kept'
    BY <1>2
    DEF EditsInv, configVars, Undoing, Holding, Kept, FileAgrees,
        RequestsAgree, AutosyncerAgrees, Pursuing, Agrees
  <2> QED BY <2>1, <2>2 DEF EditsInv
<1>3. CASE ConfigNext
  <2>1. /\ ~overlapped /\ overlapped' = Undoing'
        /\ \/ AutosyncStep
           \/ \E p \in ConfigThreads :
                \/ EditSources(p) \/ EditAutosync(p)
                \/ PullByRequest(p) \/ RequestStep(p)
           \/ IntervalPasses
           \/ ConfigRestart
    BY <1>3 DEF ConfigNext, NotingOverlaps
  <2>2. ~Undoing /\ Kept BY <2>1 DEF EditsInv
  <2>3. ASSUME AutosyncStep PROVE Step
    <3>1. UNCHANGED <<requests, told, edits>>
      BY <2>3
      DEF AutosyncStep, Check, PutBack, AutosyncTruncate, AutosyncWrite,
          StartSyncs, administration
    <3>2. /\ configFile' \in Config \cup {TornConfig}
          /\ autosyncer' \in Autosyncer
          /\ ~Undoing' => Kept'
      <4>1. CASE Check
        BY <1>1, <2>2, <4>1, CheckKeeps DEF Check, ConfigTypeOK
      <4>2. CASE PutBack
        BY <1>1, <2>2, <4>2, PutBackKeeps DEF PutBack, ConfigTypeOK
      <4>3. CASE AutosyncTruncate
        BY <1>1, <2>2, <4>3, AutosyncTruncateKeeps DEF AutosyncTruncate
      <4>4. CASE AutosyncWrite
        BY <1>1, <2>2, <4>4, AutosyncWriteKeeps
      <4>5. CASE StartSyncs
        BY <1>1, <2>2, <4>5, StartSyncsKeeps DEF StartSyncs, ConfigTypeOK
      <4> QED BY <2>3, <4>1, <4>2, <4>3, <4>4, <4>5 DEF AutosyncStep
    <3> QED BY <1>1, <3>1, <3>2 DEF ConfigTypeOK
  <2>4. ASSUME NEW p \in ConfigThreads,
               EditSources(p) \/ EditAutosync(p) \/ PullByRequest(p)
        PROVE  Step
    BY <1>1, <2>2, <2>4, EditsKeep DEF ConfigTypeOK
  <2>5. ASSUME NEW p \in ConfigThreads, RequestStep(p) PROVE Step
    <3>1. UNCHANGED <<autosyncer, edits>>
      BY <2>5
      DEF RequestStep, Pulled, TruncateConfig, WriteConfig, administration
    <3>2. /\ configFile' \in Config \cup {TornConfig}
          /\ requests' \in [ConfigThreads -> Handler \cup {Quiet}]
          /\ told' \in [enabled : BOOLEAN, sources : 0..MaxEdits]
          /\ Kept'
      <4>1. CASE Pulled(p)
        BY <1>1, <2>2, <4>1, PulledKeeps
        DEF Pulled, administration, ConfigTypeOK
      <4>2. CASE TruncateConfig(p)
        BY <1>1, <2>2, <4>2, TruncateConfigKeeps
        DEF TruncateConfig, administration, ConfigTypeOK
      <4>3. CASE WriteConfig(p) BY <1>1, <2>2, <4>3, WriteConfigKeeps
      <4> QED BY <2>5, <4>1, <4>2, <4>3 DEF RequestStep
    <3> QED BY <1>1, <3>1, <3>2 DEF ConfigTypeOK
  <2>6. ASSUME IntervalPasses PROVE Step
    BY <1>1, <2>2, <2>6, IntervalKeeps
    DEF IntervalPasses, administration, ConfigTypeOK
  <2>7. ASSUME ConfigRestart PROVE Step
    <3>1. edits' \in 0..MaxEdits BY <1>1, <2>7, OneMore DEF ConfigRestart
    <3> QED BY <1>1, <2>2, <2>7, <3>1, ConfigRestartKeeps
      DEF ConfigRestart, ConfigTypeOK
  <2>8. Step BY <2>1, <2>3, <2>4, <2>5, <2>6, <2>7
  <2>9. overlapped' \in BOOLEAN BY <2>1 DEF Undoing
  <2>10. ~overlapped' => ~Undoing' BY <2>1
  <2> QED BY <2>8, <2>9, <2>10 DEF EditsInv, ConfigTypeOK
<1> QED BY <1>2, <1>3

(* What administrators were told is kept, in the file or by whoever is     *)
(* about to write it, while no two requests have overlapped.               *)
THEOREM EditsInvariant == ConfigSpec => []EditsInv
<1>1. ConfigInit => EditsInv BY EditsInvInit
<1>2. EditsInv /\ [ConfigNext]_configVars => EditsInv' BY EditsInvNext
<1> QED BY <1>1, <1>2, PTL DEF ConfigSpec

(* Until writers overlap, an administrator's last word on the sources and  *)
(* the automatic syncs of a project stays in project.json, and no sync is  *)
(* started that was disabled.                                              *)
THEOREM ConfigEditsLast == ConfigSpec => []EditsLast
<1>1. EditsInv => EditsLast
  BY DEF EditsInv, Kept, FileAgrees, AutosyncerAgrees, Pursuing, Agrees,
         EditsLast
<1> QED BY <1>1, EditsInvariant, PTL
=============================================================================
