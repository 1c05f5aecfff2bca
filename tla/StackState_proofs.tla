--------------------------- MODULE StackState_proofs ---------------------------
(***************************************************************************)
(* Theorems about StackState for any number of calls of any kind and any   *)
(* number of runs: types; the lock keeps the writers of a stack apart, and *)
(* is taken from a live run only by force; a listed version has its file,  *)
(* and a rollback loses no version that is within the window.  Each says   *)
(* which of the mishaps of the model it leaves out.                        *)
(***************************************************************************)
EXTENDS StackState, TLAPS

(* None of the mishaps that break the lock.                                *)
Careful == Allowed \subseteq {"purge"}

(* What the argument needs to know of types, and which step is whose.      *)
ControlTyped ==
  /\ lock \in Requests \cup {NoLock}
  /\ status \in [Runs -> Statuses \cup Absent]
  /\ tofu \in [Runs -> Processes]
  /\ pc \in [Requests -> Steps]
  /\ seen \in [Requests -> Requests \cup {NoLock}]

StepsOfKind ==
  \A q \in Requests :
    /\ pc[q] \in {"create", "acquire"} => Kind[q] = "apply"
    /\ pc[q] = "write" => Kind[q] \in {"apply", "lock"}
    /\ pc[q] \in {"target", "restore"} => Kind[q] = "rollback"
    /\ pc[q] = "snapshot" => Kind[q] \in {"apply", "rollback"}
    /\ pc[q] \in {"save", "index"} =>
         Kind[q] \in {"apply", "rollback", "snapshot"}
    /\ pc[q] \in {"compare", "unlink"} =>
         Kind[q] \in {"apply", "lock", "rollback", "overview"}

OneAtATime == \A p, q \in Requests : ~Idle(p) /\ ~Idle(q) => p = q

(* A process belongs to a run that the record says is under way, unless    *)
(* the record is gone.                                                     *)
RecordMatches ==
  \A r \in Runs :
    /\ status[r] \in {"NONE", "QUEUED"} => tofu[r] = "idle"
    /\ tofu[r] \in {"claimed", "running"} =>
         status[r] \in {"RUNNING", "CANCELING", "GONE"}
    /\ pc[r] \in {"start", "create"} => status[r] = "NONE"

(* A run that may still write the state has the lock, or its request has   *)
(* not been answered yet.                                                  *)
Pending(r) ==
  \/ status[r] \in {"QUEUED", "RUNNING", "CANCELING"}
  \/ tofu[r] \in {"claimed", "running"}
Guarded == \A r \in Runs : Pending(r) => lock = r \/ ~Idle(r)

(* Whoever has found the stack unlocked still does; a lock about to be     *)
(* released is that of a run that is over.                                 *)
PastLock == {"create", "target", "snapshot", "save", "index", "acquire",
             "write", "restore"}
LockFound ==
  \A q \in Requests :
    /\ pc[q] \in PastLock /\ Kind[q] # "snapshot" => lock = NoLock
    /\ pc[q] \in {"compare", "unlink"} =>
         lock = seen[q] /\ lock \in Runs /\ ~Pending(lock)

LockInv ==
  /\ Careful
  /\ ControlTyped /\ StepsOfKind /\ OneAtATime
  /\ RecordMatches /\ Guarded /\ LockFound

-----------------------------------------------------------------------------
(* At the start nobody has the lock.                                       *)
LEMMA InitLock == Careful /\ Init => LockInv
  BY ConstantsAssumption DEF Init, LockInv, ControlTyped, StepsOfKind,
     OneAtATime, RecordMatches, Guarded, LockFound, Pending, PastLock, Idle,
     Statuses, Absent, Processes, Steps, Runs, Of

(* Where a call goes on when it has its snapshot.                          *)
Onward(q) == CASE Kind[q] = "apply" -> "acquire"
               [] Kind[q] = "rollback" -> "restore"
               [] Kind[q] = "snapshot" -> "done"

(* A call's step, seen from the lock: the call goes on, or is answered.    *)
LEMMA RequestStep ==
  ASSUME LockInv, NEW q \in Requests,
         FindUnlocked(q) \/ FindStale(q) \/ FindLocked(q) \/ Compare(q)
           \/ Unlink(q) \/ CreateRun(q) \/ WriteLock(q) \/ Release(q)
           \/ ReadForSnapshot(q) \/ KeepVersions(q) \/ AddFile(q)
           \/ SaveIndex(q) \/ FindVersion(q) \/ Restore(q)
  PROVE  LockInv'
<1> USE ConstantsAssumption, RequestsAssumption DEF LockInv, ControlTyped,
        StepsOfKind, OneAtATime, RecordMatches, Guarded, LockFound, Pending,
        PastLock, Idle, Steps, Kinds, Runs, Of, Careful, Goto, Answer, runVars
<1>1. CASE FindUnlocked(q)
  BY <1>1 DEF FindUnlocked, ReadsLock, Arrives, Unlocked
<1>2. CASE FindStale(q)
  BY <1>2 DEF FindStale, ReadsLock, Arrives, Stale, FINAL_STATUSES
<1>3. CASE FindLocked(q)
  BY <1>3 DEF FindLocked, ReadsLock, Arrives
<1>4. CASE Compare(q)
  BY <1>4 DEF Compare
<1>5. CASE Unlink(q)
  BY <1>5 DEF Unlink, Unlocked
<1>6. CASE CreateRun(q)
  BY <1>6 DEF CreateRun, Statuses, Absent
<1>7. CASE WriteLock(q)
  BY <1>7 DEF WriteLock
<1>8. CASE Release(q)
  BY <1>8 DEF Release, Arrives
<1>9. CASE ReadForSnapshot(q)
  BY <1>9 DEF ReadForSnapshot, Arrives
<1>10. CASE KeepVersions(q)
  <2>1. /\ pc[q] = "save" /\ Kind[q] \in {"apply", "rollback", "snapshot"}
        /\ UNCHANGED <<lock, status, tofu, seen>>
    BY <1>10 DEF KeepVersions
  <2>2. pc' = [pc EXCEPT ![q] = Onward(q)]
    BY <1>10, <2>1 DEF KeepVersions, AfterSnapshot, Onward
  <2> QED
    BY <2>1, <2>2 DEF Onward
<1>11. CASE AddFile(q)
  BY <1>11 DEF AddFile
<1>12. CASE SaveIndex(q)
  <2>1. /\ pc[q] = "index" /\ Kind[q] \in {"apply", "rollback", "snapshot"}
        /\ UNCHANGED <<lock, status, tofu, seen>>
    BY <1>12 DEF SaveIndex
  <2>2. pc' = [pc EXCEPT ![q] = Onward(q)]
    BY <1>12, <2>1 DEF SaveIndex, AfterSnapshot, Onward
  <2> QED
    BY <2>1, <2>2 DEF Onward
<1>13. CASE FindVersion(q)
  BY <1>13 DEF FindVersion
<1>14. CASE Restore(q)
  BY <1>14 DEF Restore
<1> QED
  BY <1>1, <1>2, <1>3, <1>4, <1>5, <1>6, <1>7, <1>8, <1>9, <1>10, <1>11,
     <1>12, <1>13, <1>14

(* A run's step makes no run pending that was not.                         *)
LEMMA RunStep ==
  ASSUME LockInv, NEW r \in Runs,
         \/ Claim(r) \/ Launch(r) \/ WriteState(r) \/ Exit(r)
         \/ \E outcome \in FINAL_STATUSES : Finish(r, outcome)
         \/ Cancel(r) \/ Stop(r) \/ Recover(r) \/ Purge(r)
  PROVE  LockInv'
<1> USE DEF LockInv, ControlTyped, StepsOfKind, OneAtATime, RecordMatches,
        Guarded, LockFound, Pending, Idle, Careful, Statuses, Absent,
        FINAL_STATUSES, Processes, SetStatus, SetTofu, requestVars
<1>0. r \in Requests
  BY DEF Runs, Of
<1>1. CASE Claim(r)
  BY <1>0, <1>1 DEF Claim
<1>2. CASE Launch(r) \/ WriteState(r)
  BY <1>0, <1>2 DEF Launch, WriteState
<1>3. CASE Exit(r)
  BY <1>0, <1>3 DEF Exit
<1>4. CASE \E outcome \in FINAL_STATUSES : Finish(r, outcome)
  BY <1>0, <1>4 DEF Finish
<1>5. CASE Cancel(r) \/ Stop(r)
  BY <1>0, <1>5 DEF Cancel, Stop
<1>6. CASE Recover(r)
  BY <1>0, <1>6 DEF Recover, MayRecover
<1>7. CASE Purge(r)
  BY <1>0, <1>7 DEF Purge
<1> QED
  BY <1>1, <1>2, <1>3, <1>4, <1>5, <1>6, <1>7

(* Every step keeps the lock.                                              *)
LEMMA NextLock == LockInv /\ [Next]_vars => LockInv'
<1> SUFFICES ASSUME LockInv, [Next]_vars PROVE LockInv'
  OBVIOUS
<1>1. CASE Crash
  BY <1>1 DEF Crash, LockInv, Careful
<1>2. CASE UNCHANGED vars
  BY <1>2 DEF vars, LockInv, ControlTyped, StepsOfKind, OneAtATime,
     RecordMatches, Guarded, LockFound, Pending, Idle
<1> QED
  BY <1>1, <1>2, RequestStep, RunStep DEF Next, AllAnswered

(* "Apply, destroy and refresh are blocked until it is released": with one *)
(* call at a time, no two tofu processes, and no rollback and tofu, work   *)
(* on the state of a stack together.                                       *)
THEOREM StackExclusive == Careful /\ Spec => []Exclusive
<1>1. LockInv => Exclusive
  <2> SUFFICES ASSUME LockInv, NEW p \in Mutators, NEW q \in Mutators
               PROVE  p = q
    BY DEF Exclusive
  <2> USE DEF LockInv, Mutators, Guarded, Pending, LockFound, OneAtATime,
          PastLock, Idle, Runs, Of
  <2>1. ASSUME NEW b \in Of("rollback"),
               pc[b] \in {"snapshot", "save", "index", "restore"},
               NEW m \in Mutators
        PROVE  b = m
    BY <2>1, ConstantsAssumption
  <2>2. ASSUME NEW r \in Runs, tofu[r] = "running",
               NEW k \in Runs, tofu[k] = "running"
        PROVE  r = k
    BY <2>2, ConstantsAssumption DEF StepsOfKind, ControlTyped, Steps
  <2> QED
    BY <2>1, <2>2
<1> QED
  BY <1>1, InitLock, NextLock, PTL DEF Spec

-----------------------------------------------------------------------------
(* Types.  A call that has written its version file has read a state.      *)
TypeInv ==
  /\ TypeOK
  /\ StepsOfKind
  /\ \A q \in Requests : pc[q] = "index" => copy[q].state # NoState

(* The histories, as the sequences of versions they are.                   *)
LEMMA HistoriesAre ==
  Histories = {v \in Seq(Versions) : Len(v) <= MaxVersions}
<1>1. ASSUME NEW v \in Histories PROVE v \in Seq(Versions) /\ Len(v) <= MaxVersions
  <2>1. PICK n \in 0 .. MaxVersions : v \in [1 .. n -> Versions]
    BY <1>1 DEF Histories
  <2> QED
    BY <2>1, ConstantsAssumption
<1>2. ASSUME NEW v \in Seq(Versions), Len(v) <= MaxVersions
      PROVE  v \in Histories
  <2>1. Len(v) \in 0 .. MaxVersions /\ v \in [1 .. Len(v) -> Versions]
    BY <1>2, ConstantsAssumption
  <2> QED
    BY <2>1 DEF Histories
<1> QED
  BY <1>1, <1>2

(* What a snapshot of a state makes of the index it has read.              *)
LEMMA KeptFacts ==
  ASSUME NEW q \in Requests, copy[q].state \in States,
         copy[q].versions \in Histories
  PROVE  /\ Extended(q) \in Seq(Versions)
         /\ Len(Extended(q)) = Len(copy[q].versions) + 1
         /\ Extended(q)[1].id = q /\ Extended(q)[1].state = copy[q].state
         /\ \A i \in 2 .. Len(Extended(q)) :
              Extended(q)[i] = copy[q].versions[i - 1]
         /\ Kept(Extended(q)) \in Histories
         /\ Len(Kept(Extended(q))) \in Nat \ {0}
         /\ Len(Kept(Extended(q))) <= MaxVersions
         /\ Len(Kept(Extended(q))) <= Len(Extended(q))
         /\ \A i \in 1 .. Len(Kept(Extended(q))) :
              Kept(Extended(q))[i] = Extended(q)[i]
<1> DEFINE new == [id |-> q, state |-> copy[q].state, runs |-> ForRun(q)]
           old == copy[q].versions
           all == Extended(q)
<1>1. new \in Versions /\ new.id = q /\ new.state = copy[q].state
  BY DEF Versions, ForRun
<1>2. old \in Seq(Versions) /\ Len(old) <= MaxVersions
  BY HistoriesAre
<1>3. all = <<new>> \o old
  BY DEF Extended
<1> HIDE DEF new, old, all
<1>4. /\ all \in Seq(Versions) /\ Len(all) = Len(old) + 1
      /\ all[1] = new
      /\ \A i \in 2 .. Len(all) : all[i] = old[i - 1]
  BY <1>1, <1>2, <1>3
<1>5. /\ Kept(all) \in Seq(Versions) /\ Len(Kept(all)) \in Nat \ {0}
      /\ Len(Kept(all)) <= MaxVersions /\ Len(Kept(all)) <= Len(all)
      /\ \A i \in 1 .. Len(Kept(all)) : Kept(all)[i] = all[i]
  BY <1>2, <1>4, ConstantsAssumption DEF Kept
<1> QED
  BY <1>1, <1>4, <1>5, HistoriesAre DEF all, old

(* Types at the start.                                                     *)
LEMMA InitStackTypes == Init => TypeInv
<1> SUFFICES ASSUME Init PROVE TypeInv
  OBVIOUS
<1>1. <<>> \in Histories
  BY HistoriesAre, ConstantsAssumption
<1> QED
  BY <1>1, ConstantsAssumption DEF Init, TypeInv, TypeOK, StepsOfKind, Steps,
     Replies, Processes, Statuses, Absent, Files, States

(* A call's step keeps the types.                                          *)
LEMMA RequestTypes ==
  ASSUME TypeInv, NEW q \in Requests,
         FindUnlocked(q) \/ FindStale(q) \/ FindLocked(q) \/ Compare(q)
           \/ Unlink(q) \/ CreateRun(q) \/ WriteLock(q) \/ Release(q)
           \/ ReadForSnapshot(q) \/ KeepVersions(q) \/ AddFile(q)
           \/ SaveIndex(q) \/ FindVersion(q) \/ Restore(q)
  PROVE  TypeInv'
<1> USE ConstantsAssumption, RequestsAssumption DEF TypeInv, TypeOK,
        StepsOfKind, Steps, Kinds, Replies, Of, Goto, Answer, runVars
<1>1. CASE FindUnlocked(q)
  BY <1>1 DEF FindUnlocked, ReadsLock, Arrives, Unlocked
<1>2. CASE FindStale(q)
  BY <1>2 DEF FindStale, ReadsLock, Arrives, Stale, Runs
<1>3. CASE FindLocked(q)
  BY <1>3 DEF FindLocked, ReadsLock, Arrives
<1>4. CASE Compare(q)
  BY <1>4 DEF Compare, Unlocked
<1>5. CASE Unlink(q)
  BY <1>5 DEF Unlink, Unlocked
<1>6. CASE CreateRun(q)
  <2>1. q \in Runs
    BY <1>6 DEF CreateRun, Runs
  <2> QED
    BY <1>6, <2>1 DEF CreateRun, Statuses
<1>7. CASE WriteLock(q)
  BY <1>7 DEF WriteLock
<1>8. CASE Release(q)
  BY <1>8 DEF Release, Arrives
<1>9. CASE ReadForSnapshot(q)
  BY <1>9 DEF ReadForSnapshot, Arrives
<1>10. CASE KeepVersions(q)
  <2>1. /\ pc[q] = "save" /\ Kind[q] \in {"apply", "rollback", "snapshot"}
        /\ UNCHANGED <<lock, files, tfstate, status, tofu, seen, copy, target>>
    BY <1>10 DEF KeepVersions
  <2>2. /\ pc' = [pc EXCEPT ![q] = Onward(q)]
        /\ reply' \in [Requests -> Replies]
    BY <1>10, <2>1 DEF KeepVersions, AfterSnapshot, Onward
  <2>3. versions' \in Histories
    <3>1. CASE Newest(q) /\ q \in Runs
      <4> DEFINE old == copy[q].versions
                 new == [old EXCEPT ![1].runs = @ \cup {q}]
      <4>1. old \in Seq(Versions) /\ Len(old) <= MaxVersions /\ old # <<>>
        BY <3>1, HistoriesAre DEF Newest
      <4>2. new \in Seq(Versions) /\ Len(new) = Len(old)
        <5>1. old[1] \in Versions /\ 1 \in 1 .. Len(old)
          BY <4>1
        <5>2. [old[1] EXCEPT !.runs = @ \cup {q}] \in Versions
          BY <3>1, <5>1 DEF Versions
        <5>3. new = [old EXCEPT ![1] = [old[1] EXCEPT !.runs = @ \cup {q}]]
          BY <5>1
        <5> HIDE DEF new, old
        <5> QED
          BY <4>1, <5>1, <5>2, <5>3
      <4> QED
        BY <1>10, <3>1, <4>1, <4>2, HistoriesAre DEF KeepVersions
    <3>2. CASE ~(Newest(q) /\ q \in Runs)
      BY <1>10, <3>2 DEF KeepVersions
    <3> QED
      BY <3>1, <3>2
  <2> QED
    BY <2>1, <2>2, <2>3 DEF Onward
<1>11. CASE AddFile(q)
  <2>1. [id |-> q, state |-> copy[q].state] \in Files
    BY <1>11 DEF AddFile, Files
  <2>2. files' \in SUBSET Files
    BY <1>11, <2>1 DEF AddFile
  <2> QED
    BY <1>11, <2>2 DEF AddFile
<1>12. CASE SaveIndex(q)
  <2>1. /\ pc[q] = "index" /\ Kind[q] \in {"apply", "rollback", "snapshot"}
        /\ UNCHANGED <<lock, files, tfstate, status, tofu, seen, copy, target>>
    BY <1>12 DEF SaveIndex
  <2>2. /\ pc' = [pc EXCEPT ![q] = Onward(q)]
        /\ reply' \in [Requests -> Replies]
    BY <1>12, <2>1 DEF SaveIndex, AfterSnapshot, Onward
  <2>3. versions' \in Histories
    BY <1>12, <2>1, KeptFacts DEF SaveIndex
  <2> QED
    BY <2>1, <2>2, <2>3 DEF Onward
<1>13. CASE FindVersion(q)
  <2>1. \A f \in files : f.id \in Requests
    BY DEF Files
  <2>2. target' \in [Requests -> Requests \cup {NoLock}]
    BY <1>13, <2>1 DEF FindVersion
  <2>3. /\ reply' \in [Requests -> Replies]
        /\ UNCHANGED <<lock, versions, files, tfstate, status, tofu, seen, copy>>
    BY <1>13 DEF FindVersion
  <2>4. /\ pc[q] = "target"
        /\ \E step \in {"done", "snapshot"} : pc' = [pc EXCEPT ![q] = step]
    BY <1>13 DEF FindVersion
  <2>5. pc' \in [Requests -> Steps] /\ StepsOfKind'
    <3>1. PICK step \in {"done", "snapshot"} : pc' = [pc EXCEPT ![q] = step]
      BY <2>4
    <3>2. Kind[q] = "rollback"
      BY <2>4
    <3> QED
      BY <2>4, <3>1, <3>2
  <2>6. \A p \in Requests : pc'[p] = "index" => pc[p] = "index"
    BY <2>4
  <2> QED
    BY <2>2, <2>3, <2>5, <2>6
<1>14. CASE Restore(q)
  <2>1. \A f \in files : f.state \in States
    BY DEF Files
  <2>2. /\ pc' = [pc EXCEPT ![q] = "done"] /\ reply' \in [Requests -> Replies]
        /\ tfstate' \in States \cup {NoState}
        /\ UNCHANGED <<lock, versions, files, status, tofu, seen, copy, target>>
    BY <1>14, <2>1 DEF Restore
  <2> QED
    BY <2>2
<1> QED
  BY <1>1, <1>2, <1>3, <1>4, <1>5, <1>6, <1>7, <1>8, <1>9, <1>10, <1>11,
     <1>12, <1>13, <1>14

(* Every step keeps the types.                                             *)
LEMMA NextStackTypes == TypeInv /\ [Next]_vars => TypeInv'
<1> SUFFICES ASSUME TypeInv, [Next]_vars PROVE TypeInv'
  OBVIOUS
<1> USE DEF TypeInv, TypeOK, StepsOfKind
<1>1. CASE Crash
  BY <1>1 DEF Crash, Steps, runVars
<1>2. ASSUME NEW r \in Runs,
             \/ Claim(r) \/ Launch(r) \/ WriteState(r) \/ Exit(r)
             \/ \E outcome \in FINAL_STATUSES : Finish(r, outcome)
             \/ Cancel(r) \/ Stop(r) \/ Recover(r) \/ Purge(r)
      PROVE  TypeInv'
  <2>1. /\ status' \in [Runs -> Statuses \cup Absent]
        /\ tofu' \in [Runs -> Processes]
        /\ UNCHANGED <<lock, versions, files, requestVars>>
    BY <1>2 DEF Claim, Launch, WriteState, Exit, Finish, Cancel, Stop, Recover,
       Purge, SetStatus, SetTofu, Statuses, Absent, FINAL_STATUSES, Processes
  <2>2. tfstate' = tfstate \/ tfstate' = r
    BY <1>2 DEF Claim, Launch, WriteState, Exit, Finish, Cancel, Stop, Recover,
       Purge, SetStatus, SetTofu
  <2> QED
    BY <2>1, <2>2 DEF requestVars, States
<1>3. CASE UNCHANGED vars
  BY <1>3 DEF vars
<1> HIDE DEF TypeInv, TypeOK, StepsOfKind
<1> QED
  BY <1>1, <1>2, <1>3, RequestTypes DEF Next, AllAnswered

(* Every variable has the type it is declared with, whatever mishaps there *)
(* are: an index holds at most MaxVersions versions, and what a run or a   *)
(* rollback leaves as the state is one.                                    *)
THEOREM StackTypeCorrect == Spec => []TypeOK
  BY InitStackTypes, NextStackTypes, PTL DEF Spec, TypeInv

-----------------------------------------------------------------------------
(* The lock of a live run, when requests about the stack do not overlap:   *)
(* the server may crash, runs may outlast recovery's limit and their       *)
(* records may be purged, and a user may break the lock by force.          *)
NoOverlap == "overlap" \notin Allowed

(* Whoever has found no lock finds none until it is answered; a lock about *)
(* to be released is that of a run whose record says that it is over.      *)
LockRead ==
  \A q \in Requests :
    /\ pc[q] \in PastLock /\ Kind[q] # "snapshot" => lock = NoLock
    /\ pc[q] \in {"compare", "unlink"} =>
         lock = seen[q] /\ lock \in Runs /\ ~Live(lock)

KeptInv == NoOverlap /\ TypeInv /\ OneAtATime /\ LockRead

(* At the start nobody has read the lock.                                  *)
LEMMA InitKept == NoOverlap /\ Init => KeptInv
  BY InitStackTypes DEF Init, KeptInv, OneAtATime, LockRead, PastLock, Idle

(* The step of a call keeps this, and takes no live run's lock.            *)
LEMMA RequestKept ==
  ASSUME KeptInv, TypeInv', NEW q \in Requests,
         FindUnlocked(q) \/ FindStale(q) \/ FindLocked(q) \/ Compare(q)
           \/ Unlink(q) \/ CreateRun(q) \/ WriteLock(q) \/ Release(q)
           \/ ReadForSnapshot(q) \/ KeepVersions(q) \/ AddFile(q)
           \/ SaveIndex(q) \/ FindVersion(q) \/ Restore(q)
  PROVE  /\ KeptInv'
         /\ \A r \in Runs : lock = r /\ Live(r) /\ lock' # r =>
              \E p \in Of("unlock") : pc'[p] # pc[p]
<1> DEFINE Taken == \E r \in Runs : lock = r /\ Live(r) /\ lock' # r
           Freed == \E p \in Of("unlock") : pc'[p] # pc[p]
<1>0. /\ pc \in [Requests -> Steps] /\ StepsOfKind /\ NoOverlap
      /\ status \in [Runs -> Statuses \cup Absent]
      /\ seen \in [Requests -> Requests \cup {NoLock}]
      /\ OneAtATime /\ LockRead
  BY DEF KeptInv, TypeInv, TypeOK
<1> SUFFICES OneAtATime' /\ LockRead' /\ (Taken => Freed)
  BY <1>0 DEF KeptInv, NoOverlap
<1> USE <1>0, ConstantsAssumption, RequestsAssumption DEF NoOverlap, Live,
        StepsOfKind, OneAtATime, LockRead, PastLock, Idle, Steps, Kinds, Runs,
        Of, Goto, Answer, runVars, Statuses, FINAL_STATUSES
<1>1. CASE FindUnlocked(q)
  <2>1. /\ lock = NoLock /\ UNCHANGED <<lock, status, seen>>
        /\ pc' = [pc EXCEPT ![q] = Unlocked(q)]
        /\ Kind[q] \in {"apply", "lock", "rollback", "overview"}
        /\ \A p \in Requests : p # q => Idle(p)
    BY <1>1 DEF FindUnlocked, ReadsLock, Arrives
  <2>2. Unlocked(q) \in {"create", "write", "target", "done"}
    BY <2>1 DEF Unlocked
  <2>3. lock' = NoLock /\ pc'[q] \in {"create", "write", "target", "done"}
    BY <2>1, <2>2
  <2>4. \A p \in Requests : p # q => pc'[p] \in {"start", "done"}
    BY <2>1
  <2>5. OneAtATime'
    BY <2>4
  <2>6. LockRead'
    <3> SUFFICES ASSUME NEW p \in Requests
                 PROVE  pc'[p] \notin {"compare", "unlink"}
      BY <2>3
    <3> QED
      BY <2>3, <2>4
  <2>7. ~Taken
    BY <2>1
  <2> QED
    BY <2>5, <2>6, <2>7
<1>2. CASE FindStale(q)
  BY <1>2 DEF FindStale, ReadsLock, Arrives, Stale
<1>3. CASE FindLocked(q)
  BY <1>3 DEF FindLocked, ReadsLock, Arrives
<1>4. CASE Compare(q)
  BY <1>4 DEF Compare
<1>5. CASE Unlink(q)
  BY <1>5 DEF Unlink, Unlocked
<1>6. CASE CreateRun(q)
  BY <1>6 DEF CreateRun, Absent
<1>7. CASE WriteLock(q)
  BY <1>7 DEF WriteLock
<1>8. CASE Release(q)
  <2>1. /\ pc[q] = "start" /\ Kind[q] = "unlock"
        /\ pc' = [pc EXCEPT ![q] = "done"] /\ UNCHANGED <<status, seen>>
        /\ \A p \in Requests : Idle(p)
    BY <1>8 DEF Release, Arrives
  <2>2. Freed
    <3>1. q \in Of("unlock") /\ pc'[q] # pc[q]
      BY <2>1
    <3> QED
      BY <3>1
  <2> QED
    BY <2>1, <2>2
<1>9. CASE ReadForSnapshot(q)
  BY <1>9 DEF ReadForSnapshot, Arrives
<1>10. CASE KeepVersions(q)
  <2>1. /\ pc[q] = "save" /\ Kind[q] \in {"apply", "rollback", "snapshot"}
        /\ UNCHANGED <<lock, status, tofu, seen>>
    BY <1>10 DEF KeepVersions
  <2>2. pc' = [pc EXCEPT ![q] = Onward(q)]
    BY <1>10, <2>1 DEF KeepVersions, AfterSnapshot, Onward
  <2> QED
    BY <2>1, <2>2 DEF Onward
<1>11. CASE AddFile(q)
  BY <1>11 DEF AddFile
<1>12. CASE SaveIndex(q)
  <2>1. /\ pc[q] = "index" /\ Kind[q] \in {"apply", "rollback", "snapshot"}
        /\ UNCHANGED <<lock, status, tofu, seen>>
    BY <1>12 DEF SaveIndex
  <2>2. pc' = [pc EXCEPT ![q] = Onward(q)]
    BY <1>12, <2>1 DEF SaveIndex, AfterSnapshot, Onward
  <2> QED
    BY <2>1, <2>2 DEF Onward
<1>13. CASE FindVersion(q)
  BY <1>13 DEF FindVersion
<1>14. CASE Restore(q)
  BY <1>14 DEF Restore
<1> QED
  BY <1>1, <1>2, <1>3, <1>4, <1>5, <1>6, <1>7, <1>8, <1>9, <1>10, <1>11,
     <1>12, <1>13, <1>14

(* Every step keeps this, and takes no live run's lock but by force.       *)
LEMMA NextKept ==
  ASSUME KeptInv, [Next]_vars
  PROVE  /\ KeptInv'
         /\ \A r \in Runs : lock = r /\ Live(r) /\ lock' # r =>
              \E q \in Of("unlock") : pc'[q] # pc[q]
<1>1. TypeInv'
  BY NextStackTypes DEF KeptInv
<1>2. ASSUME UNCHANGED <<lock, seen, pc>>,
             \A r \in Runs : ~Live(r) => ~Live(r)'
      PROVE  LockRead' /\ OneAtATime'
    BY <1>2 DEF KeptInv, LockRead, OneAtATime, PastLock, Idle
<1>3. ASSUME NEW r \in Runs,
             \/ Claim(r) \/ Launch(r) \/ WriteState(r) \/ Exit(r)
             \/ \E outcome \in FINAL_STATUSES : Finish(r, outcome)
             \/ Cancel(r) \/ Stop(r) \/ Recover(r) \/ Purge(r)
      PROVE  /\ UNCHANGED <<lock, seen, pc>>
             /\ \A k \in Runs : ~Live(k) => ~Live(k)'
  <2>1. UNCHANGED <<lock, seen, pc>>
    BY <1>3 DEF Claim, Launch, WriteState, Exit, Finish, Cancel, Stop, Recover,
       Purge, SetStatus, SetTofu, requestVars
  <2>2. \/ status' = status
        \/ \E s \in Statuses \cup Absent :
             /\ status' = [status EXCEPT ![r] = s]
             /\ Live(r) \/ s = "GONE"
    BY <1>3 DEF Claim, Launch, WriteState, Exit, Finish, Cancel, Stop, Recover,
       Purge, SetStatus, SetTofu, Live, Statuses, FINAL_STATUSES, Absent
  <2>3. status \in [Runs -> Statuses \cup Absent]
    BY DEF KeptInv, TypeInv, TypeOK
  <2> QED
    BY <2>1, <2>2, <2>3 DEF Live, Statuses
<1>4. CASE Crash
  BY <1>1, <1>4 DEF Crash, KeptInv, OneAtATime, LockRead, PastLock, Idle,
     NoOverlap
<1>5. CASE UNCHANGED vars
  <2>1. UNCHANGED <<lock, seen, pc, status>>
    BY <1>5 DEF vars
  <2> QED
    BY <1>1, <1>2, <2>1 DEF KeptInv, NoOverlap, Live
<1>6. CASE \E r \in Runs :
             \/ Claim(r) \/ Launch(r) \/ WriteState(r) \/ Exit(r)
             \/ \E outcome \in FINAL_STATUSES : Finish(r, outcome)
             \/ Cancel(r) \/ Stop(r) \/ Recover(r) \/ Purge(r)
  BY <1>1, <1>2, <1>3, <1>6 DEF KeptInv, NoOverlap
<1> QED
  BY <1>1, <1>4, <1>5, <1>6, RequestKept DEF Next, AllAnswered

(* Nobody but a user who forces it takes the lock away from a run that is  *)
(* not over, whatever else goes wrong between requests.                    *)
THEOREM StackLockKept == NoOverlap /\ Spec => LockKept
<1> DEFINE Held == \A r \in Runs : lock = r /\ Live(r) /\ lock' # r =>
                     \E q \in Of("unlock") : pc'[q] # pc[q]
<1>1. KeptInv /\ [Next]_vars => KeptInv' /\ Held
  BY NextKept
<1>2. LockKept <=> [][Held]_vars
  BY DEF LockKept
<1> HIDE DEF Held
<1> QED
  BY <1>1, <1>2, InitKept, PTL DEF Spec

-----------------------------------------------------------------------------
(* The version history, under the conditions that keep the lock sound.     *)
(* A request takes at most one version, since it asks for a snapshot once: *)
(* a version's request is past its snapshot.                               *)
Snapped(q) ==
  \/ pc[q] \in {"restore", "done"}
  \/ /\ pc[q] \in {"acquire", "compare", "unlink", "write"}
     /\ Kind[q] = "apply" /\ status[q] # "NONE"

Opens(v) == \E f \in files : f.id = v.id /\ f.state = v.state

VersionsApart ==
  \A i, j \in 1 .. Len(versions) : versions[i].id = versions[j].id => i = j

VersionsTaken == \A i \in 1 .. Len(versions) : Snapped(versions[i].id)

RunsCreated ==
  \A r \in Runs :
    pc[r] \in {"snapshot", "save", "index", "acquire"} => status[r] # "NONE"

(* A snapshot under way is of what there is; what it will leave in the     *)
(* index can be opened.                                                    *)
CopyHolds ==
  \A q \in Requests :
    /\ pc[q] \in {"save", "index"} =>
         /\ copy[q].versions = versions
         /\ Kind[q] = "rollback" => copy[q].state = tfstate
    /\ pc[q] = "index" =>
         \A i \in 1 .. Len(Kept(Extended(q))) : Opens(Kept(Extended(q))[i])

AllOpen == \A i \in 1 .. Len(versions) : Opens(versions[i])
FilesHeld == (\A q \in Requests : pc[q] # "index") => AllOpen

(* A rollback that has its snapshot can be undone.                         *)
StateHeld ==
  tfstate = NoState \/ \E i \in 1 .. Len(versions) : versions[i].state = tfstate
RollbackHeld ==
  \A q \in Requests : pc[q] = "restore" => StateHeld

HistoryInv ==
  /\ VersionsApart /\ VersionsTaken /\ RunsCreated
  /\ CopyHolds /\ FilesHeld /\ RollbackHeld

(* At the start the history is empty.                                      *)
LEMMA InitHistory == Init => HistoryInv
  BY DEF Init, HistoryInv, VersionsApart, VersionsTaken, RunsCreated,
     CopyHolds, FilesHeld, AllOpen, RollbackHeld, Runs, Of

(* A step that leaves the history and the state alone, and takes its call  *)
(* neither into nor out of a snapshot.                                     *)
LEMMA ElsewhereHistory ==
  ASSUME TypeInv, HistoryInv, NEW q \in Requests, NEW s \in Steps,
         UNCHANGED <<versions, files, tfstate, copy>>,
         pc' = [pc EXCEPT ![q] = s],
         pc[q] # "index", s \notin {"save", "index", "restore"},
         \A p \in Runs : status[p] # "NONE" => status'[p] # "NONE",
         Snapped(q) => Snapped(q)',
         q \in Runs /\ s \in {"snapshot", "acquire"} => status'[q] # "NONE"
  PROVE  HistoryInv'
<1>1. /\ pc \in [Requests -> Steps] /\ pc'[q] = s
      /\ \A p \in Requests : p # q => pc'[p] = pc[p]
      /\ \A i \in 1 .. Len(versions) : versions[i].id \in Requests
  <2>1. versions \in Seq(Versions)
    BY HistoriesAre DEF TypeInv, TypeOK
  <2>2. \A i \in 1 .. Len(versions) : versions[i] \in Versions
    BY <2>1
  <2> QED
    BY <2>2 DEF TypeInv, TypeOK, Versions
<1>2. \A p \in Requests : Snapped(p) => Snapped(p)'
  BY <1>1 DEF Snapped, Runs, Of
<1>3. VersionsApart' /\ VersionsTaken'
  BY <1>1, <1>2 DEF HistoryInv, VersionsApart, VersionsTaken
<1>4. RunsCreated'
  BY <1>1 DEF HistoryInv, RunsCreated, Runs, Of
<1>5. /\ StateHeld' <=> StateHeld
      /\ \A v : Opens(v)' <=> Opens(v)
      /\ AllOpen' <=> AllOpen
  BY DEF StateHeld, Opens, AllOpen
<1>6. CopyHolds'
  <2> SUFFICES ASSUME NEW p \in Requests, pc'[p] \in {"save", "index"}
               PROVE  /\ copy'[p].versions = versions'
                      /\ Kind[p] = "rollback" => copy'[p].state = tfstate'
                      /\ pc'[p] = "index" =>
                           \A i \in 1 .. Len(Kept(Extended(p))') :
                             Opens(Kept(Extended(p))[i])'
    BY DEF CopyHolds
  <2>1. p # q /\ pc[p] = pc'[p]
    BY <1>1
  <2>2. Extended(p)' = Extended(p)
    BY DEF Extended
  <2>3. Kept(Extended(p))' = Kept(Extended(p))
    BY <2>2 DEF Kept
  <2> QED
    BY <2>1, <2>3, <1>5 DEF HistoryInv, CopyHolds
<1>7. FilesHeld'
  BY <1>1, <1>5 DEF HistoryInv, FilesHeld
<1>8. RollbackHeld'
  BY <1>1, <1>5 DEF HistoryInv, RollbackHeld
<1> QED
  BY <1>3, <1>4, <1>6, <1>7, <1>8 DEF HistoryInv

(* A step of the call that takes a snapshot, or has one: no other call is  *)
(* under way, so that only its own place matters.                          *)
LEMMA OwnHistory ==
  ASSUME LockInv, TypeInv, HistoryInv, TypeInv',
         NEW q \in Requests, NEW s \in Steps,
         pc[q] \in {"snapshot", "save", "index", "restore"}
           \/ (pc[q] = "start" /\ \A p \in Requests : Idle(p)),
         pc' = [pc EXCEPT ![q] = s], UNCHANGED status,
         pc[q] = "restore" => s = "done", VersionsApart',
         \A i \in 1 .. Len(versions') :
           \/ /\ versions'[i].id = q /\ Snapped(q)'
           \/ \E j \in 1 .. Len(versions) : versions'[i].id = versions[j].id,
         q \in Runs /\ s \in {"snapshot", "save", "index", "acquire"} =>
           status[q] # "NONE",
         s \in {"save", "index"} =>
           /\ copy'[q].versions = versions'
           /\ Kind[q] = "rollback" => copy'[q].state = tfstate',
         s = "index" =>
           \A i \in 1 .. Len(Kept(Extended(q))') :
             Opens(Kept(Extended(q))[i])',
         s # "index" => AllOpen',
         s = "restore" => StateHeld'
  PROVE  HistoryInv'
<1>1. /\ pc'[q] = s
      /\ \A p \in Requests : p # q => pc'[p] = pc[p] /\ pc[p] \in {"start", "done"}
  BY DEF TypeInv, TypeOK, LockInv, OneAtATime, Idle
<1>2. \A i \in 1 .. Len(versions) : versions[i].id \in Requests
  <2>1. versions \in Seq(Versions)
    BY HistoriesAre DEF TypeInv, TypeOK
  <2>2. \A i \in 1 .. Len(versions) : versions[i] \in Versions
    BY <2>1
  <2> QED
    BY <2>2 DEF Versions
<1>3. VersionsTaken'
  <2>1. \A p \in Requests : Snapped(p) => Snapped(p)'
    BY <1>1 DEF Snapped
  <2>2. ASSUME NEW i \in 1 .. Len(versions') PROVE Snapped(versions[i].id)'
    <3>1. CASE versions'[i].id = q /\ Snapped(q)'
      BY <3>1 DEF Snapped
    <3>2. ASSUME NEW j \in 1 .. Len(versions),
                 versions'[i].id = versions[j].id
          PROVE  Snapped(versions[i].id)'
      <4> DEFINE p == versions[j].id
      <4>1. p \in Requests /\ Snapped(p)
        BY <1>2 DEF HistoryInv, VersionsTaken
      <4> QED
        BY <3>2, <4>1, <2>1 DEF Snapped
    <3> QED
      BY <3>1, <3>2
  <2> QED
    BY <2>2 DEF VersionsTaken
<1>4. RunsCreated'
  BY <1>1 DEF HistoryInv, RunsCreated, Runs, Of
<1>5. CopyHolds' /\ FilesHeld' /\ RollbackHeld'
  BY <1>1 DEF CopyHolds, FilesHeld, RollbackHeld
<1> QED
  BY <1>3, <1>4, <1>5 DEF HistoryInv

(* A call's step keeps the history.                                        *)
LEMMA RequestHistory ==
  ASSUME LockInv, TypeInv, HistoryInv, TypeInv', NEW q \in Requests,
         FindUnlocked(q) \/ FindStale(q) \/ FindLocked(q) \/ Compare(q)
           \/ Unlink(q) \/ CreateRun(q) \/ WriteLock(q) \/ Release(q)
           \/ ReadForSnapshot(q) \/ KeepVersions(q) \/ AddFile(q)
           \/ SaveIndex(q) \/ FindVersion(q) \/ Restore(q)
  PROVE  HistoryInv'
<1> DEFINE all == Extended(q)
           old == copy[q].versions
<1>1. /\ pc \in [Requests -> Steps] /\ StepsOfKind
      /\ status \in [Runs -> Statuses \cup Absent]
      /\ copy \in [Requests ->
                     [state : States \cup {NoState}, versions : Histories]]
      /\ versions \in Seq(Versions) /\ old \in Histories
      /\ "overlap" \notin Allowed
  BY HistoriesAre DEF TypeInv, TypeOK, LockInv, Careful
<1>2. /\ pc[q] \in {"save", "index", "restore"} => pc[q] \notin {"start", "done"}
      /\ \A p \in Requests :
           p # q /\ pc[q] \notin {"start", "done"} => pc[p] \in {"start", "done"}
  BY DEF LockInv, OneAtATime, Idle
<1>3. pc[q] \in {"save", "index"} =>
        \A i \in 1 .. Len(versions) : versions[i].id # q
  BY DEF HistoryInv, VersionsTaken, Snapped
<1>4. pc[q] \notin {"start", "done", "index"} => AllOpen
  BY <1>2 DEF HistoryInv, FilesHeld
<1> HIDE DEF all, old
<1>5. CASE FindUnlocked(q) \/ FindStale(q) \/ FindLocked(q) \/ Compare(q)
             \/ Unlink(q) \/ CreateRun(q) \/ WriteLock(q) \/ Release(q)
             \/ FindVersion(q)
  <2>1. /\ UNCHANGED <<versions, files, tfstate, copy>>
        /\ pc[q] \notin {"save", "index", "restore", "done"}
        /\ \E s \in Steps :
             /\ pc' = [pc EXCEPT ![q] = s]
             /\ s \notin {"save", "index", "restore", "acquire"}
             /\ s = "create" => Kind[q] = "apply" /\ status[q] = "NONE"
             /\ s = "target" => Kind[q] = "rollback"
             /\ s = "snapshot" /\ Kind[q] = "apply" => CreateRun(q)
             /\ s = "start" => FALSE
             /\ s = "snapshot" => Kind[q] \in {"apply", "rollback"}
    <3> USE <1>1 DEF Goto, Answer, ReadsLock, Arrives, Steps, StepsOfKind,
            Unlocked, runVars
    <3>1. CASE FindUnlocked(q)
      BY <3>1 DEF FindUnlocked
    <3>2. CASE FindStale(q)
      BY <3>2 DEF FindStale
    <3>3. CASE FindLocked(q)
      BY <3>3 DEF FindLocked
    <3>4. CASE Compare(q) \/ Unlink(q)
      BY <3>4 DEF Compare, Unlink
    <3>5. CASE CreateRun(q)
      BY <3>5 DEF CreateRun
    <3>6. CASE WriteLock(q) \/ Release(q)
      BY <3>6 DEF WriteLock, Release
    <3>7. CASE FindVersion(q)
      BY <3>7 DEF FindVersion
    <3> QED
      BY <1>5, <3>1, <3>2, <3>3, <3>4, <3>5, <3>6, <3>7
  <2>2. /\ \A p \in Runs : status[p] # "NONE" => status'[p] # "NONE"
        /\ CreateRun(q) => q \in Runs /\ status'[q] # "NONE"
    BY <1>1, <1>5 DEF FindUnlocked, FindStale, FindLocked, Compare, Unlink,
       CreateRun, WriteLock, Release, FindVersion, runVars, StepsOfKind, Runs,
       Of
  <2>3. PICK s \in Steps :
             /\ pc' = [pc EXCEPT ![q] = s]
             /\ s \notin {"save", "index", "restore", "acquire"}
             /\ s = "create" => Kind[q] = "apply" /\ status[q] = "NONE"
             /\ s = "target" => Kind[q] = "rollback"
             /\ s = "snapshot" /\ Kind[q] = "apply" => CreateRun(q)
             /\ s = "start" => FALSE
             /\ s = "snapshot" => Kind[q] \in {"apply", "rollback"}
    BY <2>1
  <2>4. Snapped(q) => Snapped(q)'
    BY <1>1, <2>1, <2>2, <2>3 DEF Snapped, Steps, Runs, Of, CreateRun
  <2>5. q \in Runs /\ s \in {"snapshot", "acquire"} => status'[q] # "NONE"
    BY <2>2, <2>3 DEF Runs, Of
  <2> QED
    BY <2>1, <2>2, <2>3, <2>4, <2>5, ElsewhereHistory
<1>6. CASE ReadForSnapshot(q)
  <2>1. /\ pc[q] = "snapshot" \/ (pc[q] = "start" /\ \A p \in Requests : Idle(p))
        /\ pc[q] = "start" => Kind[q] = "snapshot"
        /\ pc' = [pc EXCEPT ![q] = "save"] /\ "save" \in Steps
        /\ UNCHANGED <<versions, files, tfstate, status>>
        /\ copy'[q].versions = versions /\ copy'[q].state = tfstate
    BY <1>1, <1>6 DEF ReadForSnapshot, Arrives, Goto, runVars, Steps
  <2>2. VersionsApart' /\ AllOpen' <=> VersionsApart /\ AllOpen
    BY <2>1 DEF VersionsApart, AllOpen, Opens
  <2>3. VersionsApart /\ AllOpen
    BY <1>2, <2>1 DEF HistoryInv, FilesHeld, Idle
  <2>4. q \in Runs => status[q] # "NONE"
    BY <2>1 DEF HistoryInv, RunsCreated, Runs, Of
  <2> QED
    BY <2>1, <2>2, <2>3, <2>4, OwnHistory
<1>7. CASE KeepVersions(q)
  <2>1. /\ pc[q] = "save" /\ Kind[q] \in {"apply", "rollback", "snapshot"}
        /\ UNCHANGED <<files, tfstate, status>>
        /\ copy[q].state = NoState \/ Newest(q)
        /\ pc' = [pc EXCEPT ![q] = Onward(q)]
    <3>1. /\ pc[q] = "save" /\ Kind[q] \in {"apply", "rollback", "snapshot"}
          /\ UNCHANGED <<files, tfstate, status>>
          /\ copy[q].state = NoState \/ Newest(q)
      BY <1>1, <1>7 DEF KeepVersions, StepsOfKind, runVars
    <3>2. pc' = [pc EXCEPT ![q] = Onward(q)]
      BY <1>7, <3>1 DEF KeepVersions, AfterSnapshot, Onward, Goto, Answer
    <3> QED
      BY <3>1, <3>2
  <2>2. old = versions /\ (Kind[q] = "rollback" => copy[q].state = tfstate)
    BY <2>1 DEF HistoryInv, CopyHolds, old
  <2>3. /\ Len(versions') = Len(versions)
        /\ \A i \in 1 .. Len(versions) :
             /\ versions'[i].id = versions[i].id
             /\ versions'[i].state = versions[i].state
    <3>1. CASE Newest(q) /\ q \in Runs
      <4>1. /\ versions # <<>>
            /\ versions' = [versions EXCEPT ![1].runs = @ \cup {q}]
        BY <1>7, <3>1, <2>2 DEF KeepVersions, Newest, old
      <4>2. 1 \in 1 .. Len(versions) /\ versions[1] \in Versions
        BY <1>1, <4>1
      <4>3. /\ versions' = [versions EXCEPT ![1] =
                              [versions[1] EXCEPT !.runs = @ \cup {q}]]
            /\ [versions[1] EXCEPT !.runs = @ \cup {q}].id = versions[1].id
            /\ [versions[1] EXCEPT !.runs = @ \cup {q}].state
                 = versions[1].state
        BY <4>1, <4>2 DEF Versions
      <4> QED
        BY <1>1, <4>2, <4>3
    <3>2. CASE ~(Newest(q) /\ q \in Runs)
      BY <1>7, <3>2 DEF KeepVersions
    <3> QED
      BY <3>1, <3>2
  <2>4. VersionsApart'
    BY <2>3 DEF HistoryInv, VersionsApart
  <2>5. AllOpen'
    BY <1>4, <2>1, <2>3 DEF AllOpen, Opens
  <2>6. Onward(q) \in Steps /\ Onward(q) \in {"acquire", "restore", "done"}
    BY <2>1 DEF Onward, Steps
  <2>7. q \in Runs => status[q] # "NONE"
    BY <2>1 DEF HistoryInv, RunsCreated
  <2>8. Onward(q) = "restore" => StateHeld'
    <3> SUFFICES ASSUME Onward(q) = "restore", tfstate # NoState
                 PROVE  StateHeld'
      BY <2>1 DEF StateHeld
    <3>1. Kind[q] = "rollback"
      BY <2>1 DEF Onward
    <3>2. versions # <<>> /\ versions[1].state = tfstate
      BY <2>1, <2>2, <3>1 DEF Newest, old
    <3>3. 1 \in 1 .. Len(versions')
      BY <1>1, <2>3, <3>2
    <3> QED
      BY <2>1, <2>3, <3>2, <3>3 DEF StateHeld
  <2> QED
    BY <2>1, <2>3, <2>4, <2>5, <2>6, <2>7, <2>8, OwnHistory
<1>8. CASE AddFile(q)
  <2>1. /\ pc[q] = "save" /\ copy[q].state \in States
        /\ UNCHANGED <<versions, tfstate, status, copy>>
        /\ pc' = [pc EXCEPT ![q] = "index"] /\ "index" \in Steps
    BY <1>1, <1>8 DEF AddFile, Goto, runVars, Steps
  <2>2. old = versions /\ (Kind[q] = "rollback" => copy[q].state = tfstate)
    BY <2>1 DEF HistoryInv, CopyHolds, old
  <2>3. /\ Len(all) = Len(versions) + 1 /\ Len(versions) \in Nat
        /\ all[1].id = q /\ all[1].state = copy[q].state
        /\ \A i \in 2 .. Len(all) : all[i] = versions[i - 1]
        /\ Len(Kept(all)) \in Nat /\ Len(Kept(all)) <= MaxVersions
        /\ Len(Kept(all)) <= Len(all)
        /\ \A i \in 1 .. Len(Kept(all)) : Kept(all)[i] = all[i]
    <3>1. Len(versions) \in Nat
      BY <1>1
    <3>2. copy[q].versions = versions /\ copy[q].versions \in Histories
      BY <1>1, <2>2 DEF old
    <3> QED
      BY <2>1, <3>1, <3>2, KeptFacts DEF all
  <2>4. \A i, j \in 1 .. Len(all) : all[i].id = all[j].id => i = j
    <3>1. \A i \in 2 .. Len(all) :
            /\ i - 1 \in 1 .. Len(versions) /\ all[i].id = versions[i - 1].id
            /\ all[i].id # all[1].id
      BY <1>3, <2>1, <2>3
    <3>2. \A i, j \in 2 .. Len(all) : all[i].id = all[j].id => i - 1 = j - 1
      BY <3>1 DEF HistoryInv, VersionsApart
    <3>3. \A i \in 1 .. Len(all) : i = 1 \/ i \in 2 .. Len(all)
      BY <2>3
    <3>4. \A i, j \in 2 .. Len(all) : i - 1 = j - 1 => i = j
      OBVIOUS
    <3> QED
      BY <3>1, <3>2, <3>3, <3>4
  <2>5. /\ \A i \in 1 .. Len(Kept(all)) :
             \A f \in files \cup {[id |-> q, state |-> copy[q].state]} :
               f.id = all[i].id => f \in files'
    <3> DEFINE new == [id |-> q, state |-> copy[q].state]
               pruned == {all[i].id : i \in MaxVersions + 1 .. Len(all)}
    <3>1. files' = {f \in files \cup {new} : f.id \notin pruned}
      BY <1>8 DEF AddFile, all
    <3> HIDE DEF new
    <3>2. \A i \in 1 .. Len(Kept(all)) : all[i].id \notin pruned
      BY <2>3, <2>4, ConstantsAssumption
    <3> QED
      BY <3>1, <3>2 DEF new
  <2>6. \A i \in 1 .. Len(Kept(all)) :
          \E f \in files' : f.id = all[i].id /\ f.state = all[i].state
    <3> SUFFICES ASSUME NEW i \in 1 .. Len(Kept(all))
                 PROVE  \E f \in files' :
                          f.id = all[i].id /\ f.state = all[i].state
      OBVIOUS
    <3>1. CASE i = 1
      <4> DEFINE new == [id |-> q, state |-> copy[q].state]
      <4>1. new.id = all[i].id /\ new.state = all[i].state
        BY <2>3, <3>1
      <4>2. new \in files'
        BY <2>5, <4>1
      <4> QED
        BY <4>1, <4>2
    <3>2. CASE i # 1
      <4>1. i - 1 \in 1 .. Len(versions) /\ all[i] = versions[i - 1]
        BY <2>3, <3>2
      <4>2. PICK f \in files : f.id = all[i].id /\ f.state = all[i].state
        BY <1>4, <2>1, <4>1 DEF AllOpen, Opens
      <4> QED
        BY <2>5, <4>2
    <3> QED
      BY <3>1, <3>2
  <2>7. Extended(q)' = all
    BY <2>1 DEF Extended, all
  <2>8. Kept(Extended(q))' = Kept(all)
    BY <2>7 DEF Kept
  <2>9. \A i \in 1 .. Len(Kept(Extended(q))') : Opens(Kept(Extended(q))[i])'
    BY <2>3, <2>6, <2>8 DEF Opens
  <2>10. VersionsApart'
    BY <2>1 DEF HistoryInv, VersionsApart
  <2>11. q \in Runs => status[q] # "NONE"
    BY <2>1 DEF HistoryInv, RunsCreated
  <2>12. copy'[q].versions = versions'
         /\ (Kind[q] = "rollback" => copy'[q].state = tfstate')
    BY <2>1, <2>2 DEF old
  <2> QED
    BY <2>1, <2>9, <2>10, <2>11, <2>12, OwnHistory
<1>9. CASE SaveIndex(q)
  <2>1. /\ pc[q] = "index" /\ Kind[q] \in {"apply", "rollback", "snapshot"}
        /\ UNCHANGED <<files, tfstate, status, copy>>
        /\ copy[q].state \in States
        /\ versions' = Kept(all)
    BY <1>1, <1>9 DEF SaveIndex, runVars, all, StepsOfKind, TypeInv
  <2>2. pc' = [pc EXCEPT ![q] = Onward(q)]
    BY <1>9, <2>1 DEF SaveIndex, AfterSnapshot, Onward, Goto, Answer
  <2>3. old = versions /\ (Kind[q] = "rollback" => copy[q].state = tfstate)
    BY <2>1 DEF HistoryInv, CopyHolds, old
  <2>4. /\ Len(all) = Len(versions) + 1 /\ Len(versions) \in Nat
        /\ all[1].id = q /\ all[1].state = copy[q].state
        /\ \A i \in 2 .. Len(all) : all[i] = versions[i - 1]
        /\ Len(Kept(all)) \in Nat \ {0}
        /\ Len(Kept(all)) <= Len(all)
        /\ \A i \in 1 .. Len(Kept(all)) : Kept(all)[i] = all[i]
    BY <1>1, <2>1, <2>3, KeptFacts DEF all, old
  <2>5. \A i, j \in 1 .. Len(all) : all[i].id = all[j].id => i = j
    <3>1. \A i \in 2 .. Len(all) :
            /\ i - 1 \in 1 .. Len(versions) /\ all[i].id = versions[i - 1].id
            /\ all[i].id # all[1].id
      BY <1>3, <2>1, <2>4
    <3>2. \A i, j \in 2 .. Len(all) : all[i].id = all[j].id => i - 1 = j - 1
      BY <3>1 DEF HistoryInv, VersionsApart
    <3>3. \A i \in 1 .. Len(all) : i = 1 \/ i \in 2 .. Len(all)
      BY <2>4
    <3>4. \A i, j \in 2 .. Len(all) : i - 1 = j - 1 => i = j
      OBVIOUS
    <3> QED
      BY <3>1, <3>2, <3>3, <3>4
  <2>6. VersionsApart'
    BY <2>1, <2>4, <2>5 DEF VersionsApart
  <2>7. AllOpen'
    BY <2>1 DEF HistoryInv, CopyHolds, AllOpen, Opens, all
  <2>8. Onward(q) \in Steps /\ Onward(q) \in {"acquire", "restore", "done"}
        /\ (Onward(q) = "acquire" => q \in Runs /\ Kind[q] = "apply")
    BY <2>1 DEF Onward, Steps, Runs, Of
  <2>9. q \in Runs => status[q] # "NONE"
    BY <2>1 DEF HistoryInv, RunsCreated
  <2>10. Snapped(q)'
    BY <1>1, <2>1, <2>2, <2>8, <2>9 DEF Snapped
  <2>11. \A i \in 1 .. Len(versions') :
           \/ /\ versions'[i].id = q /\ Snapped(q)'
           \/ \E j \in 1 .. Len(versions) : versions'[i].id = versions[j].id
    <3> SUFFICES ASSUME NEW i \in 1 .. Len(versions'), i # 1
                 PROVE  \E j \in 1 .. Len(versions) :
                          versions'[i].id = versions[j].id
      BY <2>1, <2>4, <2>10
    <3>1. i - 1 \in 1 .. Len(versions) /\ versions'[i] = versions[i - 1]
      BY <2>1, <2>4
    <3> QED
      BY <3>1
  <2>12. Onward(q) = "restore" => StateHeld'
    <3> SUFFICES ASSUME Onward(q) = "restore" PROVE StateHeld'
      OBVIOUS
    <3>1. Kind[q] = "rollback"
      BY <2>1 DEF Onward
    <3>2. 1 \in 1 .. Len(versions') /\ versions'[1].state = tfstate
      BY <2>1, <2>3, <2>4, <3>1
    <3> QED
      BY <2>1, <3>2 DEF StateHeld
  <2> QED
    BY <2>1, <2>2, <2>6, <2>7, <2>8, <2>9, <2>11, <2>12, OwnHistory
<1>10. CASE Restore(q)
  <2>1. /\ pc[q] = "restore" /\ pc' = [pc EXCEPT ![q] = "done"]
        /\ "done" \in Steps /\ UNCHANGED <<versions, files, status, copy>>
    BY <1>10 DEF Restore, Answer, runVars, Steps
  <2>2. VersionsApart' /\ AllOpen' <=> VersionsApart /\ AllOpen
    BY <2>1 DEF VersionsApart, AllOpen, Opens
  <2>3. VersionsApart /\ AllOpen
    BY <1>4, <2>1 DEF HistoryInv
  <2> QED
    BY <2>1, <2>2, <2>3, OwnHistory
<1> QED
  BY <1>5, <1>6, <1>7, <1>8, <1>9, <1>10

(* A run's step leaves the history alone; no run writes the state while a  *)
(* rollback is between its snapshot and its copy.                          *)
LEMMA RunHistory ==
  ASSUME LockInv, TypeInv, HistoryInv, NEW r \in Runs,
         \/ Claim(r) \/ Launch(r) \/ WriteState(r) \/ Exit(r)
         \/ \E outcome \in FINAL_STATUSES : Finish(r, outcome)
         \/ Cancel(r) \/ Stop(r) \/ Recover(r) \/ Purge(r)
  PROVE  HistoryInv'
<1>1. /\ UNCHANGED <<versions, files, pc, copy>>
      /\ tfstate' = tfstate \/ (tfstate' = r /\ tofu[r] = "running")
  BY DEF Claim, Launch, WriteState, Exit, Finish, Cancel, Stop, Recover, Purge,
     SetStatus, SetTofu, requestVars
<1>2. \A k \in Runs : status[k] # "NONE" => status'[k] # "NONE"
  <2>1. \/ status' = status
        \/ \E s \in Statuses \cup {"GONE"} : status' = [status EXCEPT ![r] = s]
    BY DEF Claim, Launch, WriteState, Exit, Finish, Cancel, Stop, Recover,
       Purge, SetStatus, SetTofu, Statuses, FINAL_STATUSES
  <2> QED
    BY <2>1 DEF TypeInv, TypeOK, Statuses, FINAL_STATUSES
<1>3. \A q \in Of("rollback") :
        pc[q] \in {"save", "index", "restore"} => tfstate' = tfstate
  <2> SUFFICES ASSUME NEW q \in Of("rollback"),
                      pc[q] \in {"save", "index", "restore"},
                      tofu[r] = "running"
               PROVE  FALSE
    BY <1>1
  <2>1. lock = NoLock /\ ~Idle(q) /\ q \in Requests /\ Kind[q] = "rollback"
    BY DEF LockInv, LockFound, PastLock, Of, Idle
  <2>2. r \in Requests /\ Kind[r] = "apply"
    BY DEF Runs, Of
  <2>3. lock = r \/ ~Idle(r)
    BY DEF LockInv, Guarded, Pending
  <2> QED
    BY <2>1, <2>2, <2>3, ConstantsAssumption DEF LockInv, OneAtATime
<1>4. \A q \in Requests : Snapped(q) => Snapped(q)'
  BY <1>1, <1>2 DEF Snapped, Runs, Of
<1>5. VersionsApart' /\ VersionsTaken'
  <2>1. \A i \in 1 .. Len(versions) : versions[i].id \in Requests
    <3>1. versions \in Seq(Versions)
      BY HistoriesAre DEF TypeInv, TypeOK
    <3>2. \A i \in 1 .. Len(versions) : versions[i] \in Versions
      BY <3>1
    <3> QED
      BY <3>2 DEF Versions
  <2> QED
    BY <1>1, <1>4, <2>1 DEF HistoryInv, VersionsApart, VersionsTaken
<1>6. RunsCreated'
  BY <1>1, <1>2 DEF HistoryInv, RunsCreated
<1>7. CopyHolds'
  <2> SUFFICES ASSUME NEW q \in Requests, pc[q] \in {"save", "index"}
               PROVE  /\ copy[q].versions = versions
                      /\ Kind[q] = "rollback" => copy[q].state = tfstate'
                      /\ pc[q] = "index" =>
                           \A i \in 1 .. Len(Kept(Extended(q))') :
                             Opens(Kept(Extended(q))[i])'
    BY <1>1 DEF CopyHolds
  <2>1. Extended(q)' = Extended(q)
    BY <1>1 DEF Extended
  <2>2. Kept(Extended(q))' = Kept(Extended(q))
    BY <2>1 DEF Kept
  <2>3. Kind[q] = "rollback" => tfstate' = tfstate
    BY <1>3 DEF Of
  <2> QED
    BY <1>1, <2>2, <2>3 DEF HistoryInv, CopyHolds, Opens
<1>8. FilesHeld'
  BY <1>1 DEF HistoryInv, FilesHeld, AllOpen, Opens
<1>9. RollbackHeld'
  BY <1>1, <1>3 DEF HistoryInv, RollbackHeld, StateHeld, LockInv, StepsOfKind,
     Of
<1> QED
  BY <1>5, <1>6, <1>7, <1>8, <1>9 DEF HistoryInv

HeldInv == LockInv /\ TypeInv /\ HistoryInv

(* Every step keeps the history.                                           *)
LEMMA NextHistory == HeldInv /\ [Next]_vars => HeldInv'
<1> SUFFICES ASSUME HeldInv, [Next]_vars PROVE HeldInv'
  OBVIOUS
<1>1. LockInv' /\ TypeInv'
  BY NextLock, NextStackTypes DEF HeldInv
<1>2. CASE Crash
  BY <1>2 DEF Crash, HeldInv, LockInv, Careful
<1>3. CASE UNCHANGED vars
  <2>1. UNCHANGED <<versions, files, tfstate, status, pc, copy>>
    BY <1>3 DEF vars
  <2>2. (VersionsApart /\ VersionsTaken /\ RunsCreated)'
    BY <2>1 DEF HeldInv, HistoryInv, VersionsApart, VersionsTaken, RunsCreated,
       Snapped
  <2>3. (FilesHeld /\ RollbackHeld)'
    BY <2>1 DEF HeldInv, HistoryInv, FilesHeld, RollbackHeld, AllOpen, Opens,
       StateHeld
  <2>4. CopyHolds'
    <3>1. \A q : Extended(q)' = Extended(q)
      BY <2>1 DEF Extended
    <3>2. \A q : Kept(Extended(q))' = Kept(Extended(q))
      BY <3>1 DEF Kept
    <3> QED
      BY <2>1, <3>2 DEF HeldInv, HistoryInv, CopyHolds, Opens
  <2> QED
    BY <1>1, <2>2, <2>3, <2>4 DEF HeldInv, HistoryInv
<1> QED
  BY <1>1, <1>2, <1>3, RequestHistory, RunHistory DEF Next, AllAnswered, HeldInv

(* All of it together is inductive.                                        *)
LEMMA HeldInvariant == Careful /\ Spec => []HeldInv
<1>1. Careful /\ Init => HeldInv
  BY InitLock, InitStackTypes, InitHistory DEF HeldInv
<1> QED
  BY <1>1, NextHistory, PTL DEF Spec

(* With one call at a time, whatever the window of the history: while no   *)
(* snapshot is under way every version in the index has its file, the one  *)
(* of the same state.                                                      *)
THEOREM StackVersionsHaveFiles == Careful /\ Spec => []VersionsHaveFiles
<1>1. HeldInv => VersionsHaveFiles
  BY DEF HeldInv, HistoryInv, FilesHeld, AllOpen, Opens, VersionsHaveFiles
<1> QED
  BY <1>1, HeldInvariant, PTL

(* "So a rollback is itself reversible": with one call at a time, the      *)
(* state that a rollback overwrites is among the versions.                 *)
THEOREM StackRollbackKeeps == Careful /\ Spec => RollbackKeeps
<1> DEFINE Reversible ==
      \A q \in Of("rollback") :
        reply[q] = "none" /\ reply'[q] = "ok" /\ tfstate # NoState =>
          \E i \in 1 .. Len(versions) : versions[i].state = tfstate
<1>1. HeldInv /\ [Next]_vars => Reversible
  <2> SUFFICES ASSUME HeldInv, [Next]_vars, NEW b \in Of("rollback"),
                      reply[b] = "none", reply'[b] = "ok"
               PROVE  pc[b] = "restore"
    BY DEF HeldInv, HistoryInv, RollbackHeld, StateHeld, Of
  <2>0. /\ b \in Requests /\ Kind[b] = "rollback" /\ StepsOfKind
        /\ reply \in [Requests -> Replies]
    BY DEF Of, HeldInv, TypeInv, TypeOK
  <2>1. ASSUME NEW q \in Requests,
               FindUnlocked(q) \/ FindStale(q) \/ FindLocked(q) \/ Compare(q)
                 \/ Unlink(q) \/ CreateRun(q) \/ WriteLock(q) \/ Release(q)
                 \/ ReadForSnapshot(q) \/ KeepVersions(q) \/ AddFile(q)
                 \/ SaveIndex(q) \/ FindVersion(q) \/ Restore(q)
        PROVE  pc[b] = "restore"
    <3>0. CASE KeepVersions(q) \/ SaveIndex(q)
      <4>1. Kind[q] \in {"apply", "rollback", "snapshot"}
        BY <2>0, <3>0 DEF KeepVersions, SaveIndex, StepsOfKind
      <4> QED
        BY <2>0, <3>0, <4>1 DEF KeepVersions, SaveIndex, AfterSnapshot, Goto,
           Answer
    <3>1. q = b \/ KeepVersions(q) \/ SaveIndex(q)
      BY <2>0, <2>1 DEF FindUnlocked, FindStale, FindLocked, Compare, Unlink,
         CreateRun, WriteLock, Release, ReadForSnapshot, AddFile, FindVersion,
         Restore, Goto, Answer
    <3>2. CASE Restore(b)
      BY <3>2 DEF Restore
    <3>4. CASE FindLocked(b) \/ FindVersion(b)
      BY <2>0, <3>4 DEF FindLocked, FindVersion, ReadsLock, StepsOfKind, Answer,
         Goto
    <3>5. CASE WriteLock(b) \/ Release(b)
      BY <2>0, <3>5 DEF WriteLock, Release, StepsOfKind
    <3> QED
      BY <2>1, <3>0, <3>1, <3>2, <3>4, <3>5 DEF FindUnlocked, FindStale,
         Compare, Unlink, CreateRun, ReadForSnapshot, AddFile, Goto
  <2>2. ASSUME UNCHANGED reply PROVE pc[b] = "restore"
    BY <2>2
  <2>3. CASE \E r \in Runs :
               \/ Claim(r) \/ Launch(r) \/ WriteState(r) \/ Exit(r)
               \/ \E outcome \in FINAL_STATUSES : Finish(r, outcome)
               \/ Cancel(r) \/ Stop(r) \/ Recover(r) \/ Purge(r)
    BY <2>2, <2>3 DEF Claim, Launch, WriteState, Exit, Finish, Cancel, Stop,
       Recover, Purge, SetStatus, SetTofu, requestVars
  <2>4. CASE Crash \/ UNCHANGED vars
    BY <2>2, <2>4 DEF Crash, vars
  <2> QED
    BY <2>1, <2>3, <2>4 DEF Next, AllAnswered
<1>2. RollbackKeeps <=> [][Reversible]_vars
  BY DEF RollbackKeeps
<1> HIDE DEF Reversible
<1> QED
  BY <1>1, <1>2, HeldInvariant, PTL DEF Spec
=============================================================================
